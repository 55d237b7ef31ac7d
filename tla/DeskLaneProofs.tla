--------------------------- MODULE DeskLaneProofs ---------------------------
(***************************************************************************)
(* What one lane promises for every set of addresses, every caps and every *)
(* delay. First its settings (LaneGovernance): types, ceilings, what       *)
(* operator and guardian may do, and that both timelocks implement         *)
(* Timelock. Then the lane itself (DeskLane), whatever fails and however   *)
(* its calls and its settings interleave: every position is accounted for, *)
(* the budgets hold over any stretch of time, and what the slots hold      *)
(* stays under one rerange's ceiling.                                      *)
(***************************************************************************)
EXTENDS DeskLane, FiniteSetTheorems, SequenceTheorems, WellFoundedInduction, TLAPS

\* A target the owner may ask for, and what tighterOf makes of it, stay caps.
LEMMA TighterOfType ==
  ASSUME NEW c \in Caps, NEW d \in Caps
  PROVE  TighterOf(c, d) \in Caps
BY DEF TighterOf, Caps

\* Field by field, tighterOf is no looser than either of its arguments (CapsLib.tighterOf).
LEMMA TighterOfTightens ==
  ASSUME NEW c \in Caps, NEW d \in Caps
  PROVE  NoLooser(TighterOf(c, d), c) /\ NoLooser(TighterOf(c, d), d)
<1>1. ASSUME NEW f \in Field
      PROVE  ~Looser(TighterOf(c, d)[f], c[f], f) /\ ~Looser(TighterOf(c, d)[f], d[f], f)
  <2>1. c[f] \in Nat /\ d[f] \in Nat
    BY DEF Caps
  <2> QED
    BY <2>1 DEF TighterOf, Looser
<1> QED
  BY <1>1 DEF NoLooser

\* Being no looser is transitive.
LEMMA NoLooserTransitive ==
  ASSUME NEW c \in Caps, NEW d \in Caps, NEW e \in Caps, NoLooser(c, d), NoLooser(d, e)
  PROVE  NoLooser(c, e)
<1>1. ASSUME NEW f \in Field
      PROVE  ~Looser(c[f], e[f], f)
  <2>1. c[f] \in Nat /\ d[f] \in Nat /\ e[f] \in Nat
    BY DEF Caps
  <2>2. ~Looser(c[f], d[f], f) /\ ~Looser(d[f], e[f], f)
    BY DEF NoLooser
  <2> QED
    BY <2>1, <2>2 DEF Looser
<1> QED
  BY <1>1 DEF NoLooser

\* Being no looser is reflexive.
LEMMA NoLooserReflexive ==
  ASSUME NEW c \in Caps
  PROVE  NoLooser(c, c)
BY DEF NoLooser, Looser, Caps

\* No caps are caps, too.
LEMMA ZeroCapsType == ZeroCaps \in Caps
BY DEF ZeroCaps, Caps

-----------------------------------------------------------------------------
\* Every setting keeps its type.
THEOREM GovTypeCorrect == GovSpec => []GovTypeOK
<1> USE GovernanceAssumption
<1>1. GovInit => GovTypeOK
  <2>1. 0 \in Nat /\ FALSE \in BOOLEAN
    OBVIOUS
  <2> QED
    BY ZeroCapsType, <2>1, Zenon DEF GovInit, GovTypeOK
<1>2. GovTypeOK /\ [GovNext]_vars => GovTypeOK'
  <2> SUFFICES ASSUME GovTypeOK, [GovNext]_vars PROVE GovTypeOK'
    OBVIOUS
  <2> USE DEF GovTypeOK, operatorVars, capsVars, guardVars
  <2>1. CASE Tick
    BY <2>1 DEF Tick, govVars
  <2>2. CASE UNCHANGED vars
    BY <2>2 DEF vars, govVars
  <2>3. ASSUME NEW s \in Address, GovernGuards(s) PROVE GovTypeOK'
    BY <2>3 DEF GovernGuards, Pause, Unpause, SetClosedUntil, SetGuardian
  <2>4. ASSUME NEW s \in Address, GovernOperator(s) PROVE GovTypeOK'
    BY <2>4 DEF GovernOperator, ProposeOperator, ApplyOperator, RevokeOperator
  <2>5. ASSUME NEW s \in Address, GovernCaps(s) PROVE GovTypeOK'
    <3>1. ASSUME NEW target \in Target, SetCaps(s, target) PROVE GovTypeOK'
      <4>1. target \in Caps /\ TighterOf(caps, target) \in Caps
        BY TighterOfType
      <4> QED
        BY <3>1, <4>1, ZeroCapsType DEF SetCaps
    <3>2. CASE ApplyCaps(s) \/ CancelCaps(s)
      BY <3>2, ZeroCapsType DEF ApplyCaps, CancelCaps
    <3> QED
      BY <2>5, <3>1, <3>2 DEF GovernCaps
  <2> QED
    BY <2>1, <2>2, <2>3, <2>4, <2>5 DEF GovNext, Govern
<1> QED
  BY <1>1, <1>2, PTL DEF GovSpec

\* The caps in force and the caps waiting never exceed the ceilings: what a setCaps
\* tightens, and what it leaves waiting, was checked against them.
THEOREM CapsStayWithinCeilings == GovSpec => []CapsWithinCeilings
<1> USE GovernanceAssumption
<1>1. GovInit => CapsWithinCeilings
  BY DEF GovInit, CapsWithinCeilings, CheckedCaps
<1>2. GovTypeOK /\ CapsWithinCeilings /\ [GovNext]_vars => CapsWithinCeilings'
  <2> SUFFICES ASSUME GovTypeOK, CapsWithinCeilings, [GovNext]_vars
               PROVE  CapsWithinCeilings'
    OBVIOUS
  <2>1. CASE UNCHANGED capsVars
    BY <2>1 DEF CapsWithinCeilings, capsVars
  <2>2. ASSUME NEW s \in Address, NEW target \in Target, SetCaps(s, target)
        PROVE  CapsWithinCeilings'
    <3>1. caps \in Caps /\ target \in Caps /\ TighterOf(caps, target) \in Caps
      BY TighterOfType DEF GovTypeOK
    <3>2. NoLooser(TighterOf(caps, target), Ceiling)
      BY <3>1, TighterOfTightens, NoLooserTransitive DEF CapsWithinCeilings
    <3>3. NoLooser(target, Ceiling)
      BY <2>2 DEF SetCaps, CheckedCaps
    <3> QED
      BY <2>2, <3>2, <3>3 DEF SetCaps, CapsWithinCeilings
  <2>3. ASSUME NEW s \in Address, ApplyCaps(s) \/ CancelCaps(s)
        PROVE  CapsWithinCeilings'
    BY <2>3 DEF ApplyCaps, CancelCaps, CapsWithinCeilings
  <2>4. ASSUME NEW s \in Address, GovernGuards(s) \/ GovernOperator(s)
        PROVE  UNCHANGED capsVars
    BY <2>4 DEF GovernGuards, Pause, Unpause, SetClosedUntil, SetGuardian,
         GovernOperator, ProposeOperator, ApplyOperator, RevokeOperator, capsVars
  <2>5. Tick \/ UNCHANGED vars => UNCHANGED capsVars
    BY DEF Tick, vars, govVars
  <2> QED
    BY <2>1, <2>2, <2>3, <2>4, <2>5 DEF GovNext, Govern, GovernCaps
<1> QED
  BY <1>1, <1>2, GovTypeCorrect, PTL DEF GovSpec

-----------------------------------------------------------------------------
\* Whoever is not the owner can only restrict the lane.
THEOREM OthersOnlyRestrict == GovSpec => NonOwnersOnlyRestrict
<1>1. GovTypeOK /\ [GovNext]_vars =>
        [\A s \in Address \ {Owner} : Govern(s) =>
           /\ paused => paused'
           /\ closedUntil' >= closedUntil
           /\ UNCHANGED <<capsVars, operatorVars, guardian>>]_vars
  <2> SUFFICES ASSUME GovTypeOK, NEW s \in Address \ {Owner}, Govern(s)
               PROVE  /\ paused => paused'
                      /\ closedUntil' >= closedUntil
                      /\ UNCHANGED <<capsVars, operatorVars, guardian>>
    OBVIOUS
  <2>1. Pause(s) \/ \E until \in Closure : SetClosedUntil(s, until)
    BY DEF Govern, GovernGuards, GovernOperator, GovernCaps, Unpause, SetGuardian, ProposeOperator,
       ApplyOperator, RevokeOperator, SetCaps, ApplyCaps, CancelCaps
  <2>2. CASE Pause(s)
    BY <2>2 DEF Pause, GovTypeOK, operatorVars, capsVars
  <2>3. ASSUME NEW until \in Closure, SetClosedUntil(s, until)
        PROVE  /\ paused => paused'
               /\ closedUntil' >= closedUntil
               /\ UNCHANGED <<capsVars, operatorVars, guardian>>
    BY <2>3 DEF SetClosedUntil, operatorVars, capsVars
  <2> QED
    BY <2>1, <2>2, <2>3
<1> QED
  BY <1>1, GovTypeCorrect, PTL DEF GovSpec, NonOwnersOnlyRestrict

-----------------------------------------------------------------------------
\* Looser caps take effect only a full delay after they were proposed: the caps of a
\* lane implement the abstract timelock.
THEOREM CapsImplementTimelock == GovSpec => CapsTimelocked
<1> USE GovernanceAssumption
<1>1. GovInit => CapsLock!Init
  BY DEF GovInit, CapsLock!Init
<1>2. GovTypeOK /\ [GovNext]_vars => [CapsLock!Next]_CapsLock!vars
  <2> SUFFICES ASSUME GovTypeOK, [GovNext]_vars
               PROVE  CapsLock!Next \/ UNCHANGED CapsLock!vars
    OBVIOUS
  <2>1. ASSUME NEW s \in Address, NEW target \in Target, SetCaps(s, target)
        PROVE  CapsLock!Propose \/ CapsLock!Withdraw
    <3>1. caps \in Caps /\ target \in Caps /\ TighterOf(caps, target) \in Caps
      BY TighterOfType DEF GovTypeOK
    <3>2. NoLooser(TighterOf(caps, target), caps)
      BY <3>1, TighterOfTightens
    <3> QED
      BY <2>1, <3>1, <3>2 DEF SetCaps, CapsLock!Propose, CapsLock!Withdraw
  <2>2. ASSUME NEW s \in Address, ApplyCaps(s) PROVE CapsLock!Apply
    BY <2>2 DEF ApplyCaps, CapsLock!Apply
  <2>3. ASSUME NEW s \in Address, CancelCaps(s) PROVE CapsLock!Withdraw
    BY <2>3, NoLooserReflexive DEF CancelCaps, CapsLock!Withdraw, GovTypeOK
  <2>4. ASSUME NEW s \in Address, GovernGuards(s) \/ GovernOperator(s)
        PROVE  UNCHANGED CapsLock!vars
    BY <2>4 DEF GovernGuards, Pause, Unpause, SetClosedUntil, SetGuardian,
         GovernOperator, ProposeOperator, ApplyOperator, RevokeOperator, capsVars, CapsLock!vars
  <2>5. CASE Tick
    BY <2>5 DEF Tick, govVars, capsVars, GovTypeOK, CapsLock!Advance, CapsLock!Next
  <2>6. CASE UNCHANGED vars
    BY <2>6 DEF vars, govVars, capsVars, CapsLock!vars
  <2> QED
    BY <2>1, <2>2, <2>3, <2>4, <2>5, <2>6
       DEF GovNext, Govern, GovernCaps, CapsLock!Next
<1> QED
  BY <1>1, <1>2, GovTypeCorrect, PTL DEF GovSpec, CapsTimelocked, CapsLock!Spec

\* A new operator takes effect only a full delay after it was proposed, and never once
\* it was revoked: the operator of a lane implements the abstract timelock.
OperatorLockInv ==
  GovTypeOK /\ (pendingOperator # NoAddress => operatorEta # 0)

\* The operator is a timelocked setting: a new one waits a delay, the owner may drop it at once.
THEOREM OperatorImplementsTimelock == GovSpec => OperatorTimelocked
<1> USE GovernanceAssumption
<1>1. GovInit => OperatorLock!Init /\ (pendingOperator # NoAddress => operatorEta # 0)
  BY DEF GovInit, OperatorLock!Init
<1>2. OperatorLockInv /\ [GovNext]_vars =>
        /\ [OperatorLock!Next]_OperatorLock!vars
        /\ (pendingOperator # NoAddress => operatorEta # 0)'
  <2> SUFFICES ASSUME OperatorLockInv, [GovNext]_vars
               PROVE  /\ OperatorLock!Next \/ UNCHANGED OperatorLock!vars
                      /\ (pendingOperator # NoAddress => operatorEta # 0)'
    OBVIOUS
  <2> USE DEF OperatorLockInv
  <2>1. ASSUME NEW s \in Address, NEW o \in Address, ProposeOperator(s, o)
        PROVE  OperatorLock!Propose /\ operatorEta' # 0
    BY <2>1 DEF ProposeOperator, OperatorLock!Propose, NoAddressOr, GovTypeOK
  <2>2. ASSUME NEW s \in Address, ApplyOperator(s)
        PROVE  OperatorLock!Apply /\ pendingOperator' = NoAddress
    BY <2>2 DEF ApplyOperator, OperatorLock!Apply
  <2>3. ASSUME NEW s \in Address, RevokeOperator(s)
        PROVE  OperatorLock!Withdraw /\ pendingOperator' = NoAddress
    BY <2>3 DEF RevokeOperator, OperatorLock!Withdraw, NoAddressOr, GovTypeOK
  <2>4. ASSUME NEW s \in Address, GovernGuards(s) \/ GovernCaps(s)
        PROVE  UNCHANGED OperatorLock!vars
    BY <2>4 DEF GovernGuards, Pause, Unpause, SetClosedUntil, SetGuardian,
         GovernCaps, SetCaps, ApplyCaps, CancelCaps, operatorVars, OperatorLock!vars
  <2>5. CASE Tick
    BY <2>5 DEF Tick, govVars, operatorVars, GovTypeOK, OperatorLock!Advance, OperatorLock!Next
  <2>6. CASE UNCHANGED vars
    BY <2>6 DEF vars, govVars, operatorVars, OperatorLock!vars
  <2>7. UNCHANGED OperatorLock!vars => (pendingOperator # NoAddress => operatorEta # 0)'
    BY DEF OperatorLock!vars
  <2> QED
    BY <2>1, <2>2, <2>3, <2>4, <2>5, <2>6, <2>7
       DEF GovNext, Govern, GovernOperator, OperatorLock!Next
<1> QED
  BY <1>1, <1>2, GovTypeCorrect, PTL
     DEF GovSpec, OperatorTimelocked, OperatorLock!Spec, OperatorLockInv

\* Roles and caps are timelocked, for any addresses, caps, ceilings and delay.
THEOREM SettingsImplementTimelocks == GovSpec => SettingsTimelocked
BY OperatorImplementsTimelock, CapsImplementTimelock DEF SettingsTimelocked

-----------------------------------------------------------------------------
\* The least element of a set of naturals.
LEMMA LeastOfNaturals ==
  ASSUME NEW S, S \subseteq Nat, S # {}
  PROVE  \E x \in S : \A y \in S : x <= y
<1> DEFINE R == {ss \in Nat \X Nat : ss[1] < ss[2]}
<1>1. IsWellFoundedOn(R, Nat)
  BY NatLessThanWellFounded DEF OpToRel
<1>2. PICK x \in S : \A y \in S : ~(<<y, x>> \in R)
  BY <1>1, WFMin
<1>3. \A y \in S : ~(y < x)
  BY <1>2
<1> QED BY <1>3

\* A set that has 0, and with every number the next, has every number.
LEMMA Induction ==
  ASSUME NEW S, 0 \in S, \A n \in Nat : n \in S => n + 1 \in S
  PROVE  \A n \in Nat : n \in S
<1> SUFFICES ASSUME NEW n \in Nat, n \notin S PROVE FALSE
  OBVIOUS
<1>1. PICK m \in Nat \ S : \A y \in Nat \ S : m <= y
  <2>1. Nat \ S \subseteq Nat /\ Nat \ S # {}
    OBVIOUS
  <2> QED BY <2>1, LeastOfNaturals
<1>2. m - 1 \in Nat /\ m - 1 \in S
  BY <1>1
<1>3. (m - 1) + 1 \in S
  BY <1>2
<1> QED BY <1>1, <1>3

\* The partial sums of natural numbers start at 0 and add one number at a time.
LEMMA SumsStep ==
  ASSUME NEW n \in Nat, NEW f, \A k \in 1 .. n : f[k] \in Nat
  PROVE  /\ \A k \in 0 .. n : Sums(f, n)[k] \in Nat
         /\ Sums(f, n)[0] = 0
         /\ \A k \in 1 .. n : Sums(f, n)[k] = Sums(f, n)[k - 1] + f[k]
<1> DEFINE Up(g, m) == /\ g \in [0 .. m -> Nat] /\ g[0] = 0
                       /\ \A k \in 1 .. m : g[k] = g[k - 1] + f[k]
           S == {m \in Nat : m <= n => \E g : Up(g, m)}
<1>1. 0 \in S
  <2>1. Up([k \in 0 .. 0 |-> 0], 0)
    OBVIOUS
  <2> QED BY <2>1
<1>2. ASSUME NEW m \in Nat, m \in S PROVE m + 1 \in S
  <2> SUFFICES ASSUME m + 1 <= n PROVE \E g : Up(g, m + 1)
    OBVIOUS
  <2>0. m <= n
    OBVIOUS
  <2>1. PICK g : Up(g, m)
    BY <1>2, <2>0
  <2> DEFINE h == [k \in 0 .. m + 1 |-> IF k = m + 1 THEN g[m] + f[m + 1] ELSE g[k]]
  <2>2. f[m + 1] \in Nat /\ g[m] \in Nat
    BY <2>1
  <2>3. h \in [0 .. m + 1 -> Nat] /\ h[0] = 0
    BY <2>1, <2>2
  <2>4. ASSUME NEW k \in 1 .. m + 1 PROVE h[k] = h[k - 1] + f[k]
    <3>1. CASE k = m + 1
      BY <3>1
    <3>2. CASE k \in 1 .. m
      <4>1. h[k] = g[k] /\ h[k - 1] = g[k - 1]
        BY <3>2
      <4>2. g[k] = g[k - 1] + f[k]
        BY <2>1, <3>2
      <4> QED BY <4>1, <4>2
    <3> QED BY <3>1, <3>2
  <2> QED BY <2>3, <2>4
<1>3. PICK g : Up(g, n)
  <2>1. \A m \in Nat : m \in S
    <3> HIDE DEF S
    <3> QED BY <1>1, <1>2, Induction
  <2>2. n \in S
    <3> HIDE DEF S
    <3> QED BY <2>1
  <2> HIDE DEF Up
  <2>3. n <= n => \E g : Up(g, n)
    BY <2>2
  <2> QED BY <2>3
<1> DEFINE Rec(u) == [k \in 0 .. n |-> IF k = 0 THEN 0 ELSE u[k - 1] + f[k]]
<1>4. g = Rec(g)
  BY <1>3
<1>5. Sums(f, n) = Rec(Sums(f, n))
  <2>1. Sums(f, n) = CHOOSE u : u = Rec(u)
    BY DEF Sums
  <2> QED BY <1>4, <2>1
<1>6. Sums(f, n)[0] = 0 /\ \A k \in 1 .. n : Sums(f, n)[k] = Sums(f, n)[k - 1] + f[k]
  <2> HIDE DEF Rec
  <2>1. \A k \in 0 .. n : Rec(Sums(f, n))[k] = IF k = 0 THEN 0 ELSE Sums(f, n)[k - 1] + f[k]
    BY DEF Rec
  <2> QED BY <1>5, <2>1
<1> DEFINE T == {m \in Nat : m <= n => Sums(f, n)[m] \in Nat}
<1>7. \A m \in Nat : m \in T
  <2>1. 0 \in T
    BY <1>6
  <2>2. ASSUME NEW m \in Nat, m \in T PROVE m + 1 \in T
    <3> SUFFICES ASSUME m + 1 <= n PROVE Sums(f, n)[m + 1] \in Nat
      OBVIOUS
    <3>1. Sums(f, n)[m] \in Nat /\ f[m + 1] \in Nat
      BY <2>2
    <3>2. Sums(f, n)[m + 1] = Sums(f, n)[(m + 1) - 1] + f[m + 1]
      BY <1>6
    <3> QED BY <3>1, <3>2
  <2> HIDE DEF T
  <2> QED BY <2>1, <2>2, Induction
<1> QED BY <1>6, <1>7

\* Smaller numbers have a smaller sum.
LEMMA SumsMonotone ==
  ASSUME NEW n \in Nat, NEW f, NEW g, \A k \in 1 .. n : f[k] \in Nat /\ g[k] \in Nat /\ f[k] <= g[k]
  PROVE  Sums(f, n)[n] <= Sums(g, n)[n]
<1> DEFINE S == {m \in Nat : m <= n => Sums(f, n)[m] <= Sums(g, n)[m]}
<1>1. 0 \in S
  BY SumsStep
<1>2. ASSUME NEW m \in Nat, m \in S PROVE m + 1 \in S
  <2> SUFFICES ASSUME m + 1 <= n PROVE Sums(f, n)[m + 1] <= Sums(g, n)[m + 1]
    OBVIOUS
  <2>1. Sums(f, n)[m] <= Sums(g, n)[m] /\ Sums(f, n)[m] \in Nat /\ Sums(g, n)[m] \in Nat
    BY <1>2, SumsStep
  <2>2. f[m + 1] <= g[m + 1] /\ f[m + 1] \in Nat /\ g[m + 1] \in Nat
    OBVIOUS
  <2>3. m + 1 \in 1 .. n /\ (m + 1) - 1 = m
    OBVIOUS
  <2>4. Sums(f, n)[m + 1] = Sums(f, n)[m] + f[m + 1]
    BY <2>3, SumsStep
  <2>5. Sums(g, n)[m + 1] = Sums(g, n)[m] + g[m + 1]
    BY <2>3, SumsStep
  <2> QED BY <2>1, <2>2, <2>4, <2>5
<1>3. n \in S
  <2> HIDE DEF S
  <2> QED BY <1>1, <1>2, Induction
<1> QED BY <1>3

-----------------------------------------------------------------------------
\* Free slots are counted one slot at a time.
LEMMA FreeUpToStep ==
  ASSUME NEW held, NEW sl \in Slot
  PROVE  FreeUpTo(held, sl) = FreeUpTo(held, sl - 1) + (IF held[sl] = 0 THEN 1 ELSE 0)
<1> DEFINE Free(y) == {x \in Slot : x <= y /\ held[x] = 0}
<1>1. IsFiniteSet(Free(sl - 1))
  <2>1. IsFiniteSet(Slot)
    BY FS_Interval, GovernanceAssumption DEF Slot
  <2> QED BY <2>1, FS_Subset
<1>2. CASE held[sl] = 0
  <2>1. Free(sl) = Free(sl - 1) \cup {sl} /\ sl \notin Free(sl - 1)
    BY <1>2, GovernanceAssumption DEF Slot
  <2> HIDE DEF Free
  <2>2. Cardinality(Free(sl)) = Cardinality(Free(sl - 1)) + 1
    BY <1>1, <2>1, FS_AddElement
  <2> QED BY <1>2, <2>2 DEF FreeUpTo, Free
<1>3. CASE held[sl] # 0
  <2>1. Free(sl) = Free(sl - 1)
    BY <1>3, GovernanceAssumption DEF Slot
  <2>2. Cardinality(Free(sl - 1)) \in Nat
    BY <1>1, FS_CardinalityType
  <2> HIDE DEF Free
  <2> QED BY <1>3, <2>1, <2>2 DEF FreeUpTo, Free
<1> QED BY <1>2, <1>3

\* More slots have no fewer free ones; no slots have none.
LEMMA FreeUpToGrows ==
  ASSUME NEW held
  PROVE  /\ \A x \in Slot \cup {-1} : FreeUpTo(held, x) \in Nat
         /\ FreeUpTo(held, -1) = 0
         /\ \A x, y \in Slot \cup {-1} : x <= y => FreeUpTo(held, x) <= FreeUpTo(held, y)
<1> DEFINE Free(y) == {x \in Slot : x <= y /\ held[x] = 0}
<1>1. ASSUME NEW x \in Slot \cup {-1} PROVE IsFiniteSet(Free(x))
  <2>1. IsFiniteSet(Slot)
    BY FS_Interval, GovernanceAssumption DEF Slot
  <2> QED BY <2>1, FS_Subset
<1>2. ASSUME NEW x \in Slot \cup {-1} PROVE FreeUpTo(held, x) \in Nat
  BY <1>1, FS_CardinalityType DEF FreeUpTo
<1>3. FreeUpTo(held, -1) = 0
  <2>1. Free(-1) = {}
    BY GovernanceAssumption DEF Slot
  <2>2. Cardinality(Free(-1)) = 0
    <3> HIDE DEF Free
    <3> QED BY <2>1, FS_EmptySet
  <2> QED BY <2>2 DEF FreeUpTo
<1>4. ASSUME NEW x \in Slot \cup {-1}, NEW y \in Slot \cup {-1}, x <= y
      PROVE  FreeUpTo(held, x) <= FreeUpTo(held, y)
  <2>1. Free(x) \in SUBSET Free(y)
    BY <1>4, GovernanceAssumption DEF Slot
  <2>2. Cardinality(Free(x)) <= Cardinality(Free(y))
    <3> HIDE DEF Free
    <3> QED BY <1>1, <2>1, FS_Subset
  <2> QED BY <2>2 DEF FreeUpTo
<1> QED BY <1>2, <1>3, <1>4

\* Two free slots never have the same number, and the first is number 1.
LEMMA FreeUpToInjective ==
  ASSUME NEW held, NEW x \in Slot, NEW y \in Slot, held[x] = 0, held[y] = 0
  PROVE  /\ FreeUpTo(held, x) >= 1
         /\ FreeUpTo(held, x) = FreeUpTo(held, y) => x = y
<1>1. /\ x \in Int /\ y \in Int /\ x - 1 \in Slot \cup {-1} /\ y - 1 \in Slot \cup {-1}
      /\ x < y => x <= y - 1
      /\ y < x => y <= x - 1
  BY GovernanceAssumption DEF Slot
<1>2. /\ FreeUpTo(held, x) = FreeUpTo(held, x - 1) + 1
      /\ FreeUpTo(held, y) = FreeUpTo(held, y - 1) + 1
  BY FreeUpToStep
<1>3. /\ FreeUpTo(held, x - 1) \in Nat /\ FreeUpTo(held, y - 1) \in Nat
      /\ FreeUpTo(held, x) \in Nat /\ FreeUpTo(held, y) \in Nat
  BY <1>1, FreeUpToGrows
<1>4. x < y => FreeUpTo(held, x) <= FreeUpTo(held, y - 1)
  BY <1>1, FreeUpToGrows
<1>5. y < x => FreeUpTo(held, y) <= FreeUpTo(held, x - 1)
  BY <1>1, FreeUpToGrows
<1> QED BY <1>1, <1>2, <1>3, <1>4, <1>5

\* Every number up to how many slots are free is some free slot's.
LEMMA FreeUpToSurjective ==
  ASSUME NEW held, NEW m \in Nat \ {0}, m <= FreeUpTo(held, MaxSlots - 1)
  PROVE  \E sl \in Slot : held[sl] = 0 /\ FreeUpTo(held, sl) = m
<1> DEFINE S == {sl \in Slot : m <= FreeUpTo(held, sl)}
<1>1. MaxSlots - 1 \in S
  <2>1. MaxSlots - 1 \in Slot \cup {-1}
    BY GovernanceAssumption DEF Slot
  <2>2. MaxSlots - 1 # -1
    BY FreeUpToGrows
  <2> QED BY <2>1, <2>2
<1>2. PICK sl \in S : \A y \in S : sl <= y
  <2>1. S \subseteq Nat /\ S # {}
    BY <1>1, GovernanceAssumption DEF Slot
  <2> HIDE DEF S
  <2> QED BY <2>1, LeastOfNaturals
<1>3. sl - 1 \in Slot \cup {-1} /\ sl \in Nat /\ sl - 1 \notin S
  BY <1>2, GovernanceAssumption DEF Slot
<1>4. FreeUpTo(held, sl - 1) \in Nat /\ FreeUpTo(held, sl - 1) < m
  <2>1. FreeUpTo(held, sl - 1) \in Nat /\ FreeUpTo(held, -1) = 0
    BY <1>3, FreeUpToGrows
  <2> QED BY <1>3, <2>1
<1>5. FreeUpTo(held, sl) = FreeUpTo(held, sl - 1) + (IF held[sl] = 0 THEN 1 ELSE 0)
  BY FreeUpToStep
<1> QED BY <1>2, <1>4, <1>5

-----------------------------------------------------------------------------
\* A lane's calls leave its settings alone; the rest of its steps are theirs.
LEMMA SettingsSteps == [LaneNext]_laneAll => [GovNext]_vars
<1> SUFFICES ASSUME [LaneNext]_laneAll PROVE GovNext \/ UNCHANGED vars
  OBVIOUS
<1>1. ASSUME NEW s \in Address, NEW d \in Decision, Call(s, d) PROVE UNCHANGED vars
  BY <1>1 DEF Call, SignalOrCollect, UnwindAndHold, Rerange, ExitAll, Reduce
<1>2. ASSUME NEW s \in Address, NEW sl \in Slot, WithdrawPosition(s, sl) PROVE UNCHANGED vars
  BY <1>2 DEF WithdrawPosition
<1>3. FenceMoves => UNCHANGED vars
  BY DEF FenceMoves
<1>4. UNCHANGED laneAll => UNCHANGED vars
  BY DEF laneAll
<1>5. Tick \/ (\E s \in Address : Govern(s)) => GovNext
  BY DEF GovNext
<1> QED BY <1>1, <1>2, <1>3, <1>4, <1>5 DEF LaneNext

\* A lane is a governed contract whatever its positions, budgets and fence do: each of its
\* steps is a step of its settings or leaves them as they were.
THEOREM LaneImplementsGovernance == LaneSpec => GovSpec
<1>1. LaneInit => GovInit
  BY DEF LaneInit
<1> QED BY <1>1, SettingsSteps, PTL DEF LaneSpec, GovSpec

\* So nothing a lane does with its positions gets around a timelock, and nobody but the owner
\* loosens a setting of it.
THEOREM LaneIsTimelocked == LaneSpec => SettingsTimelocked /\ NonOwnersOnlyRestrict
BY LaneImplementsGovernance, SettingsImplementTimelocks, OthersOnlyRestrict

\* What a lane's settings promise, they promise whatever else the lane does.
LEMMA LaneGoverned == LaneSpec => []GovTypeOK /\ []CapsWithinCeilings
BY LaneImplementsGovernance, GovTypeCorrect, CapsStayWithinCeilings

\* A function on 1 .. n is a sequence.
LEMMA SequenceOf ==
  ASSUME NEW n \in Nat, NEW T, NEW f \in [1 .. n -> T]
  PROVE  f \in Seq(T) /\ Len(f) = n /\ DOMAIN f = 1 .. n
OBVIOUS

\* What a bucket holds is a natural number, never more than it can hold.
LEMMA AvailableType ==
  ASSUME NEW b \in Bucket, NEW cap \in Nat, NEW period \in Nat \ {0}, NEW t \in Nat, b.at <= t
  PROVE  Available(b, cap, period, t) \in Nat /\ Available(b, cap, period, t) <= cap * Scale
<1>1. cap * Scale \in Nat /\ b.level \in Nat /\ t - b.at \in Nat
  BY LaneAssumption DEF Bucket
<1>2. cap * Scale * (t - b.at) \in Nat
  BY <1>1
<1>3. (cap * Scale * (t - b.at)) \div period \in Nat
  <2> HIDE <1>1
  <2> QED BY <1>2
<1> QED BY <1>1, <1>3 DEF Available, Smaller

\* What is left of a bucket after a charge it can take.
LEMMA TakeType ==
  ASSUME NEW b \in Bucket, NEW cap \in Nat, NEW period \in Nat \ {0}, NEW a \in Nat,
         now \in Nat, b.at <= now, CanTake(b, cap, period, a)
  PROVE  Take(b, cap, period, a) \in Bucket /\ Take(b, cap, period, a).at = now
<1>1. Available(b, cap, period, now) \in Nat /\ a * Scale \in Nat
  BY AvailableType, LaneAssumption
<1>2. Available(b, cap, period, now) - a * Scale \in Nat
  BY <1>1 DEF CanTake
<1> QED BY <1>2 DEF Take, Bucket

\* What the minted positions were valued at, together.
LEMMA TotalType ==
  ASSUME NEW n \in Nat, NEW amounts \in [1 .. n -> Amount]
  PROVE  Total(amounts) \in Nat /\ Len(amounts) = n /\ \A k \in 1 .. n : amounts[k] \in Nat
<1>1. Len(amounts) = n
  BY SequenceOf
<1>2. \A k \in 1 .. n : amounts[k] \in Nat
  BY LaneAssumption
<1>3. Sums(amounts, n)[n] \in Nat
  BY <1>2, SumsStep
<1> QED BY <1>1, <1>2, <1>3 DEF Total

\* An unwind keeps the slots it is told to keep, and the positions they hold.
LEMMA Unwinds ==
  ASSUME LaneTypeOK, NEW untouched \in SUBSET Occupied, NEW kept \in SUBSET Occupied
  PROVE  /\ SlotsAfter(untouched, kept) \in [Slot -> 0 .. Len(npm)]
         /\ NpmAfter(untouched, kept) \in Seq(Position)
         /\ Len(NpmAfter(untouched, kept)) = Len(npm)
<1>1. SlotsAfter(untouched, kept) \in [Slot -> 0 .. Len(npm)]
  BY DEF SlotsAfter, LaneTypeOK
<1>2. npm \in Seq(Position) /\ Len(npm) \in Nat /\ DOMAIN npm = 1 .. Len(npm)
  BY DEF LaneTypeOK
<1>3. NpmAfter(untouched, kept) \in [1 .. Len(npm) -> Position]
  <2>1. \A id \in 1 .. Len(npm) : npm[id] \in Position
    BY <1>2
  <2>2. [liq |-> 0, holder |-> "lane"] \in Position /\ [liq |-> 0, holder |-> "burned"] \in Position
    BY DEF Position
  <2>3. \A id \in 1 .. Len(npm) : NpmAfter(untouched, kept)[id] \in Position
    BY <1>2, <2>1, <2>2 DEF NpmAfter
  <2> QED BY <1>2, <2>3 DEF NpmAfter
<1> QED BY <1>1, <1>2, <1>3, SequenceOf

\* Minting fills free slots with new positions.
LEMMA Mints ==
  ASSUME npm \in Seq(Position), NEW n \in Nat, NEW amounts \in [1 .. n -> Amount],
         NEW held \in [Slot -> 0 .. Len(npm)], NEW kept \in Seq(Position), Len(kept) = Len(npm)
  PROVE  /\ SlotsMinted(held, n) \in [Slot -> 0 .. Len(npm) + n]
         /\ kept \o Minted(amounts) \in Seq(Position)
         /\ Len(kept \o Minted(amounts)) = Len(npm) + n
         /\ \A id \in 1 .. Len(npm) : (kept \o Minted(amounts))[id] = kept[id]
         /\ \A i \in 1 .. n :
              (kept \o Minted(amounts))[Len(npm) + i] = [liq |-> amounts[i], holder |-> "lane"]
<1>1. Minted(amounts) \in [1 .. n -> Position]
  BY LaneAssumption DEF Minted, Position
<1>2. Minted(amounts) \in Seq(Position) /\ Len(Minted(amounts)) = n
  BY <1>1, SequenceOf
<1>3. \A i \in 1 .. n : Minted(amounts)[i] = [liq |-> amounts[i], holder |-> "lane"]
  BY DEF Minted
<1>4. ASSUME NEW sl \in Slot PROVE SlotsMinted(held, n)[sl] \in 0 .. Len(npm) + n
  <2>1. FreeUpTo(held, sl) \in Nat
    BY FreeUpToGrows
  <2> QED BY <2>1 DEF SlotsMinted
<1>5. SlotsMinted(held, n) \in [Slot -> 0 .. Len(npm) + n]
  BY <1>4 DEF SlotsMinted
<1> DEFINE new == Minted(amounts)
<1>6. kept \o new \in Seq(Position)
  BY <1>2
<1>7. /\ Len(kept \o new) = Len(kept) + Len(new)
      /\ \A i \in 1 .. Len(kept) + Len(new) :
           (kept \o new)[i] = IF i <= Len(kept) THEN kept[i] ELSE new[i - Len(kept)]
  <2>1. new \in Seq(Position)
    BY <1>2
  <2> HIDE DEF new
  <2> QED BY <2>1, ConcatProperties
<1>8. Len(npm) \in Nat /\ Len(kept) = Len(npm) /\ Len(new) = n
  BY <1>2
<1>9. /\ Len(kept \o new) = Len(npm) + n
      /\ \A id \in 1 .. Len(npm) : (kept \o new)[id] = kept[id]
      /\ \A i \in 1 .. n : (kept \o new)[Len(npm) + i] = new[i]
  <2> HIDE DEF new
  <2> QED BY <1>7, <1>8
<1> QED BY <1>3, <1>5, <1>6, <1>9

-----------------------------------------------------------------------------
(***************************************************************************)
(* Types: with them, no bucket is ever ahead of the clock.                 *)
(***************************************************************************)
LaneTyped == LaneTypeOK /\ turnover.at <= now /\ rr1h.at <= now /\ rr24h.at <= now

\* Caps are natural numbers.
LEMMA CapsAreNat ==
  ASSUME GovTypeOK, NEW f \in Field
  PROVE  caps[f] \in Nat /\ Ceiling[f] \in Nat
BY GovernanceAssumption DEF GovTypeOK, Caps

\* What was charged so far is a natural number, and what the log's entries are.
LEMMA LogType ==
  ASSUME LaneTypeOK
  PROVE  /\ Len(log) \in Nat /\ Charged \in Nat
         /\ \A i \in 1 .. Len(log) : log[i].at \in Nat /\ log[i].before \in Nat /\ log[i].after \in Nat
<1>1. log \in Seq([at : Nat, before : Nat, after : Nat]) /\ Len(log) \in Nat
  BY DEF LaneTypeOK
<1>2. \A i \in 1 .. Len(log) : log[i] \in [at : Nat, before : Nat, after : Nat]
  BY <1>1, ElementOfSeq
<1>3. log # <<>> => Len(log) \in 1 .. Len(log)
  BY <1>1
<1> QED BY <1>1, <1>2, <1>3 DEF Charged

\* A rerange writes one more line to the log.
LEMMA LogGrows ==
  ASSUME LaneTypeOK, NEW e \in [at : Nat, before : Nat, after : Nat], log' = Append(log, e)
  PROVE  /\ log' \in Seq([at : Nat, before : Nat, after : Nat])
         /\ Len(log') = Len(log) + 1 /\ log'[Len(log) + 1] = e
         /\ \A i \in 1 .. Len(log) : log'[i] = log[i]
         /\ Charged' = e.after
<1>1. log \in Seq([at : Nat, before : Nat, after : Nat])
  BY DEF LaneTypeOK
<1>2. /\ log' \in Seq([at : Nat, before : Nat, after : Nat]) /\ log' # <<>>
      /\ Len(log') = Len(log) + 1 /\ log'[Len(log) + 1] = e
      /\ \A i \in 1 .. Len(log) : log'[i] = log[i]
  BY <1>1, AppendProperties
<1>3. Charged' = e.after
  BY <1>2 DEF Charged
<1> QED BY <1>2, <1>3

\* What a rerange charges: every bucket can take it, and is written with the time.
LEMMA RerangeCharges ==
  ASSUME LaneTyped, GovTypeOK, NEW n \in Nat, NEW amounts \in [1 .. n -> Amount],
         NEW s, NEW d, NEW kept, Rerange(s, d, kept, amounts)
  PROVE  /\ {turnover', rr1h', rr24h'} \subseteq Bucket
         /\ turnover'.at = now /\ rr1h'.at = now /\ rr24h'.at = now
         /\ log' \in Seq([at : Nat, before : Nat, after : Nat])
<1>1. {turnover, rr1h, rr24h} \subseteq Bucket /\ now \in Nat /\ Day \in Nat \ {0} /\ Hour \in Nat \ {0}
  BY LaneAssumption DEF LaneTyped, LaneTypeOK, GovTypeOK
<1>2. /\ caps["reranges1h"] \in Nat /\ caps["reranges24h"] \in Nat
      /\ caps["turnoverUsd6PerDay"] \in Nat
  BY CapsAreNat DEF Field
<1>3. Total(amounts) \in Nat
  BY TotalType
<1>4. turnover' \in Bucket /\ turnover'.at = now
  BY <1>1, <1>2, <1>3, TakeType DEF Rerange, ChargeNotional, LaneTyped
<1>5. rr1h' \in Bucket /\ rr1h'.at = now
  BY <1>1, <1>2, TakeType DEF Rerange, AdmitRiskAdding, LaneTyped
<1>6. rr24h' \in Bucket /\ rr24h'.at = now
  BY <1>1, <1>2, TakeType DEF Rerange, AdmitRiskAdding, LaneTyped
<1>7. log' \in Seq([at : Nat, before : Nat, after : Nat])
  <2> DEFINE e == [at |-> now, before |-> Charged, after |-> Charged + Total(amounts)]
  <2>1. Charged \in Nat
    BY LogType DEF LaneTyped
  <2>2. e \in [at : Nat, before : Nat, after : Nat]
    BY <1>1, <1>3, <2>1
  <2>3. log' = Append(log, e)
    BY DEF Rerange
  <2> HIDE DEF e
  <2> QED BY <2>2, <2>3, LogGrows DEF LaneTyped
<1> QED BY <1>4, <1>5, <1>6, <1>7

\* A rerange unwinds, and mints into what is free.
LEMMA RerangeMoves ==
  ASSUME LaneTypeOK, NEW n \in Nat, NEW amounts \in [1 .. n -> Amount],
         NEW s, NEW d, NEW kept \in SUBSET Occupied, Rerange(s, d, kept, amounts)
  PROVE  LET held == SlotsAfter({}, kept)
             left == NpmAfter({}, kept)
         IN  /\ held \in [Slot -> 0 .. Len(npm)] /\ left \in Seq(Position) /\ Len(left) = Len(npm)
             /\ n <= FreeUpTo(held, MaxSlots - 1)
             /\ slots' = SlotsMinted(held, n) /\ slots' \in [Slot -> 0 .. Len(npm')]
             /\ npm' \in Seq(Position) /\ Len(npm') = Len(npm) + n
             /\ \A id \in 1 .. Len(npm) : npm'[id] = left[id]
             /\ \A i \in 1 .. n :
                  npm'[Len(npm) + i] = [liq |-> amounts[i], holder |-> "lane"]
<1> DEFINE held == SlotsAfter({}, kept)
           left == NpmAfter({}, kept)
<1>1. Len(amounts) = n
  BY TotalType
<1>2. held \in [Slot -> 0 .. Len(npm)] /\ left \in Seq(Position) /\ Len(left) = Len(npm)
  BY Unwinds
<1>3. /\ n <= FreeUpTo(held, MaxSlots - 1) /\ slots' = SlotsMinted(held, n)
      /\ npm' = left \o Minted(amounts)
  BY <1>1 DEF Rerange
<1>4. npm \in Seq(Position)
  BY DEF LaneTypeOK
<1> HIDE DEF held, left
<1>5. /\ SlotsMinted(held, n) \in [Slot -> 0 .. Len(npm) + n]
      /\ left \o Minted(amounts) \in Seq(Position)
      /\ Len(left \o Minted(amounts)) = Len(npm) + n
      /\ \A id \in 1 .. Len(npm) : (left \o Minted(amounts))[id] = left[id]
      /\ \A i \in 1 .. n :
           (left \o Minted(amounts))[Len(npm) + i] = [liq |-> amounts[i], holder |-> "lane"]
  BY <1>2, <1>4, Mints
<1>6. slots' \in [Slot -> 0 .. Len(npm')]
  BY <1>3, <1>5
<1>7. npm' \in Seq(Position) /\ Len(npm') = Len(npm) + n
  BY <1>3, <1>5
<1>8. \A id \in 1 .. Len(npm) : npm'[id] = left[id]
  BY <1>3, <1>5
<1>9. \A i \in 1 .. n : npm'[Len(npm) + i] = [liq |-> amounts[i], holder |-> "lane"]
  BY <1>3, <1>5
<1> QED BY <1>2, <1>3, <1>6, <1>7, <1>8, <1>9 DEF held, left

\* What reduce and withdrawPosition do to the position in one slot: it loses liquidity,
\* and the slot is freed exactly when the lane no longer holds it.
OneSlotMoves(sl, pos, to) ==
  /\ sl \in Occupied /\ pos \in Position /\ pos.liq <= npm[slots[sl]].liq
  /\ to \in {0, slots[sl]}
  /\ to = 0 <=> pos.holder # "lane"
  /\ npm' = [npm EXCEPT ![slots[sl]] = pos]
  /\ slots' = [slots EXCEPT ![sl] = to]

\* An occupied slot holds a position.
LEMMA OccupiedHolds ==
  ASSUME LaneTypeOK, NEW sl \in Occupied
  PROVE  /\ sl \in Slot /\ slots[sl] \in 1 .. Len(npm) /\ slots[sl] # 0
         /\ DOMAIN npm = 1 .. Len(npm) /\ Len(npm) \in Nat
         /\ npm[slots[sl]] \in Position /\ npm[slots[sl]].liq \in Nat
<1>1. npm \in Seq(Position) /\ Len(npm) \in Nat /\ DOMAIN npm = 1 .. Len(npm)
  BY DEF LaneTypeOK
<1>2. sl \in Slot /\ slots[sl] \in 0 .. Len(npm) /\ slots[sl] # 0
  BY DEF LaneTypeOK, Occupied
<1>3. slots[sl] \in 1 .. Len(npm)
  BY <1>1, <1>2
<1>4. npm[slots[sl]] \in Position
  BY <1>1, <1>3, ElementOfSeq
<1> QED BY <1>1, <1>2, <1>3, <1>4 DEF Position

\* Reduce moves one slot.
LEMMA ReduceMoves ==
  ASSUME LaneTypeOK, NEW s, NEW d, NEW sl \in Slot, NEW want \in Nat, NEW collected \in BOOLEAN,
         Reduce(s, d, sl, want, collected)
  PROVE  \E pos, to : OneSlotMoves(sl, pos, to)
<1> DEFINE id == slots[sl]
           left == npm[id].liq - Smaller(want, npm[id].liq)
           closed == collected /\ left = 0
           pos == [liq |-> left, holder |-> IF closed THEN "burned" ELSE "lane"]
           to == IF closed THEN 0 ELSE id
<1>1. sl \in Occupied /\ npm' = [npm EXCEPT ![id] = pos] /\ slots' = [slots EXCEPT ![sl] = to]
  BY DEF Reduce
<1>2. npm[id].liq \in Nat /\ id # 0
  BY <1>1, OccupiedHolds
<1>3. left \in Nat /\ left <= npm[id].liq
  <2> HIDE DEF id
  <2> QED BY <1>2 DEF Smaller
<1>4. pos \in Position /\ pos.liq <= npm[id].liq
  <2> HIDE DEF id, left
  <2> QED BY <1>3 DEF Position
<1>5. to \in {0, id} /\ (to = 0 <=> pos.holder # "lane")
  <2> HIDE DEF id, left
  <2> QED BY <1>2
<1> HIDE DEF pos, to
<1>6. OneSlotMoves(sl, pos, to)
  BY <1>1, <1>4, <1>5 DEF OneSlotMoves
<1> QED BY <1>6

\* withdrawPosition moves one slot.
LEMMA WithdrawMoves ==
  ASSUME LaneTypeOK, NEW s, NEW sl \in Slot, WithdrawPosition(s, sl)
  PROVE  \E pos, to : OneSlotMoves(sl, pos, to)
<1> DEFINE pos == [npm[slots[sl]] EXCEPT !.holder = "owner"]
<1>1. sl \in Occupied /\ npm' = [npm EXCEPT ![slots[sl]] = pos] /\ slots' = [slots EXCEPT ![sl] = 0]
  BY DEF WithdrawPosition
<1>2. npm[slots[sl]] \in Position
  BY <1>1, OccupiedHolds
<1>3. pos \in Position /\ pos.liq <= npm[slots[sl]].liq /\ pos.holder # "lane"
  BY <1>2 DEF Position
<1> HIDE DEF pos
<1>4. OneSlotMoves(sl, pos, 0)
  BY <1>1, <1>3 DEF OneSlotMoves
<1> QED BY <1>4

\* Whoever moves one slot leaves slots and positions typed, and the others as they were.
LEMMA OneSlotType ==
  ASSUME LaneTypeOK, NEW sl, NEW pos, NEW to, OneSlotMoves(sl, pos, to)
  PROVE  /\ slots' \in [Slot -> 0 .. Len(npm')] /\ npm' \in Seq(Position) /\ Len(npm') = Len(npm)
         /\ slots'[sl] = to /\ npm'[slots[sl]] = pos
         /\ \A x \in Slot \ {sl} : slots'[x] = slots[x]
         /\ \A i \in (1 .. Len(npm)) \ {slots[sl]} : npm'[i] = npm[i]
<1>1. /\ sl \in Slot /\ slots[sl] \in 1 .. Len(npm) /\ Len(npm) \in Nat
      /\ DOMAIN npm = 1 .. Len(npm)
  BY OccupiedHolds DEF OneSlotMoves
<1>2. slots \in [Slot -> 0 .. Len(npm)] /\ npm \in Seq(Position)
  BY DEF LaneTypeOK
<1>3. pos \in Position /\ to \in 0 .. Len(npm)
  BY <1>1 DEF OneSlotMoves
<1>4. npm' \in [1 .. Len(npm) -> Position]
  <2>1. \A i \in 1 .. Len(npm) : npm[i] \in Position
    BY <1>2, ElementOfSeq
  <2>2. npm \in [1 .. Len(npm) -> Position]
    BY <1>1, <1>2, <2>1
  <2> QED BY <1>3, <2>2 DEF OneSlotMoves
<1>5. npm' \in Seq(Position) /\ Len(npm') = Len(npm)
  BY <1>1, <1>4, SequenceOf
<1>6. slots' \in [Slot -> 0 .. Len(npm)]
  BY <1>2, <1>3 DEF OneSlotMoves
<1>7. slots'[sl] = to /\ \A x \in Slot \ {sl} : slots'[x] = slots[x]
  BY <1>1, <1>2 DEF OneSlotMoves
<1>8. npm'[slots[sl]] = pos /\ \A i \in (1 .. Len(npm)) \ {slots[sl]} : npm'[i] = npm[i]
  BY <1>1 DEF OneSlotMoves
<1> QED BY <1>5, <1>6, <1>7, <1>8

\* A step of the lane, one call at a time; the settings' own steps leave the lane alone.
LEMMA LaneSteps ==
  ASSUME [LaneNext]_laneAll
  PROVE  \/ UNCHANGED laneVars /\ now' \in {now, now + 1}
         \/ \E s, d : SignalOrCollect(s, d)
         \/ \E s, d : \E kept \in SUBSET Occupied : UnwindAndHold(s, d, kept)
         \/ \E s, d : \E kept \in SUBSET Occupied, n \in Nat : \E amounts \in [1 .. n -> Amount] :
              Rerange(s, d, kept, amounts)
         \/ \E s, d : \E kept \in SUBSET Occupied : \E untouched \in SUBSET (Occupied \ kept) :
              ExitAll(s, d, untouched, kept)
         \/ \E s, d : \E sl \in Slot, want \in Nat, collected \in BOOLEAN :
              Reduce(s, d, sl, want, collected)
         \/ \E s : \E sl \in Slot : WithdrawPosition(s, sl)
         \/ FenceMoves
<1>1. CASE UNCHANGED laneAll
  BY <1>1 DEF laneAll, vars
<1>2. ASSUME NEW s \in Address, Govern(s) PROVE now' = now
  <2>1. GovernGuards(s) => now' = now
    BY DEF GovernGuards, Pause, Unpause, SetClosedUntil, SetGuardian
  <2>2. GovernOperator(s) => now' = now
    BY DEF GovernOperator, ProposeOperator, ApplyOperator, RevokeOperator
  <2>3. GovernCaps(s) => now' = now
    BY DEF GovernCaps, SetCaps, ApplyCaps, CancelCaps
  <2> QED BY <1>2, <2>1, <2>2, <2>3 DEF Govern
<1>3. CASE (Tick \/ \E s \in Address : Govern(s)) /\ UNCHANGED laneVars
  BY <1>2, <1>3 DEF Tick
<1>4. CASE FenceMoves \/ \E s \in Address, sl \in Slot : WithdrawPosition(s, sl)
  BY <1>4
<1>5. ASSUME NEW s \in Address, NEW d \in Decision, Call(s, d)
      PROVE  \/ SignalOrCollect(s, d)
             \/ \E kept \in SUBSET Occupied : UnwindAndHold(s, d, kept)
             \/ \E kept \in SUBSET Occupied, n \in Nat : \E amounts \in [1 .. n -> Amount] :
                  Rerange(s, d, kept, amounts)
             \/ \E kept \in SUBSET Occupied : \E untouched \in SUBSET (Occupied \ kept) :
                  ExitAll(s, d, untouched, kept)
             \/ \E sl \in Slot, want \in Nat, collected \in BOOLEAN :
                  Reduce(s, d, sl, want, collected)
  <2>1. 1 .. MaxSlots \subseteq Nat /\ Amount \cup {0} \subseteq Nat
    BY LaneAssumption
  <2> QED BY <1>5, <2>1, Zenon DEF Call
<1> QED BY <1>1, <1>3, <1>4, <1>5 DEF LaneNext

\* Every step keeps the types, and no bucket is ahead of the clock.
LEMMA TypedStep ==
  ASSUME LaneTyped, GovTypeOK, [LaneNext]_laneAll
  PROVE  LaneTyped'
<1> USE DEF LaneTyped, laneVars, budgetVars
<1>1. CASE UNCHANGED laneVars /\ now' \in {now, now + 1}
  BY <1>1 DEF LaneTypeOK, GovTypeOK, Bucket
<1>2. ASSUME NEW d, Spend(d) PROVE used' \subseteq Decision
  BY <1>2 DEF Spend, LaneTypeOK
<1>3. ASSUME NEW s, NEW d, SignalOrCollect(s, d) PROVE LaneTyped'
  BY <1>2, <1>3 DEF SignalOrCollect, LaneTypeOK, vars
<1>4. ASSUME NEW s, NEW d, NEW kept \in SUBSET Occupied, UnwindAndHold(s, d, kept)
      PROVE  LaneTyped'
  <2>1. slots' \in [Slot -> 0 .. Len(npm')] /\ npm' \in Seq(Position)
    BY <1>4, Unwinds DEF UnwindAndHold
  <2> QED BY <1>2, <1>4, <2>1 DEF UnwindAndHold, LaneTypeOK, vars
<1>5. ASSUME NEW s, NEW d, NEW kept \in SUBSET Occupied,
             NEW untouched \in SUBSET (Occupied \ kept), ExitAll(s, d, untouched, kept)
      PROVE  LaneTyped'
  <2>1. slots' \in [Slot -> 0 .. Len(npm')] /\ npm' \in Seq(Position)
    BY <1>5, Unwinds DEF ExitAll
  <2> QED BY <1>2, <1>5, <2>1 DEF ExitAll, LaneTypeOK, vars
<1>6. ASSUME NEW s, NEW d, NEW kept \in SUBSET Occupied, NEW n \in Nat,
             NEW amounts \in [1 .. n -> Amount], Rerange(s, d, kept, amounts)
      PROVE  LaneTyped'
  <2>1. slots' \in [Slot -> 0 .. Len(npm')] /\ npm' \in Seq(Position)
    BY <1>6, RerangeMoves
  <2>2. /\ {turnover', rr1h', rr24h'} \subseteq Bucket
        /\ turnover'.at = now /\ rr1h'.at = now /\ rr24h'.at = now
        /\ log' \in Seq([at : Nat, before : Nat, after : Nat])
    BY <1>6, RerangeCharges
  <2>3. now \in Nat /\ now' = now /\ lastRerangeAt' = now /\ fenceOpen' = fenceOpen
    BY <1>6 DEF Rerange, vars, GovTypeOK
  <2>4. used' \subseteq Decision
    BY <1>2, <1>6 DEF Rerange
  <2> QED BY <2>1, <2>2, <2>3, <2>4 DEF LaneTypeOK
<1>7. ASSUME NEW s, NEW d, NEW sl \in Slot, NEW want \in Nat, NEW collected \in BOOLEAN,
             Reduce(s, d, sl, want, collected)
      PROVE  LaneTyped'
  <2>1. slots' \in [Slot -> 0 .. Len(npm')] /\ npm' \in Seq(Position)
    BY <1>7, ReduceMoves, OneSlotType
  <2> QED BY <1>2, <1>7, <2>1 DEF Reduce, LaneTypeOK, vars
<1>8. ASSUME NEW s, NEW sl \in Slot, WithdrawPosition(s, sl) PROVE LaneTyped'
  <2>1. slots' \in [Slot -> 0 .. Len(npm')] /\ npm' \in Seq(Position)
    BY <1>8, WithdrawMoves, OneSlotType
  <2> QED BY <1>8, <2>1 DEF WithdrawPosition, LaneTypeOK, vars
<1>9. CASE FenceMoves
  BY <1>9 DEF FenceMoves, LaneTypeOK, vars
<1> HIDE DEF LaneTyped, laneVars, budgetVars
<1> QED BY <1>1, <1>3, <1>4, <1>5, <1>6, <1>7, <1>8, <1>9, LaneSteps, Zenon

\* A lane starts typed, with full buckets.
LEMMA TypedInit == LaneInit => LaneTyped
<1> SUFFICES ASSUME LaneInit PROVE LaneTyped
  OBVIOUS
<1>1. /\ InitCaps["turnoverUsd6PerDay"] \in Nat /\ InitCaps["reranges1h"] \in Nat
      /\ InitCaps["reranges24h"] \in Nat
  BY GovernanceAssumption DEF Caps, Field
<1>2. now = StartTime /\ StartTime \in Nat
  BY GovernanceAssumption DEF LaneInit, GovInit
<1>3. ASSUME NEW cap \in Nat PROVE Full(cap, StartTime) \in Bucket /\ Full(cap, StartTime).at = now
  BY <1>2, LaneAssumption DEF Full, Bucket
<1>4. npm = <<>> /\ Len(npm) = 0 /\ npm \in Seq(Position)
  BY DEF LaneInit
<1>5. slots \in [Slot -> 0 .. Len(npm)]
  BY <1>4 DEF LaneInit
<1> QED BY <1>1, <1>2, <1>3, <1>4, <1>5 DEF LaneInit, LaneTyped, LaneTypeOK

\* Everything a lane keeps, keeps its type, and no bucket is ever ahead of the clock.
THEOREM LaneTypeCorrect == LaneSpec => []LaneTyped
<1>1. LaneTyped /\ GovTypeOK /\ [LaneNext]_laneAll => LaneTyped'
  BY TypedStep
<1> QED BY <1>1, TypedInit, LaneGoverned, PTL DEF LaneSpec

-----------------------------------------------------------------------------
(***************************************************************************)
(* Positions. The statement about two sets is unfolded into one about each *)
(* position and each pair of slots.                                        *)
(***************************************************************************)
Holds(held, id) == \E sl \in Slot : held[sl] = id
OneEach(held) == \A x, y \in Slot : held[x] = held[y] /\ held[x] # 0 => x = y
Accounted ==
  /\ \A id \in 1 .. Len(npm) : npm[id].holder = "lane" <=> Holds(slots, id)
  /\ OneEach(slots)

\* Both forms say the same.
LEMMA AccountedForms ==
  ASSUME LaneTypeOK
  PROVE  Accounted <=> PositionsAccounted
<1>1. Len(npm) \in Nat /\ DOMAIN npm = 1 .. Len(npm)
  BY DEF LaneTypeOK
<1>2. \A sl \in Slot : slots[sl] \in 0 .. Len(npm)
  BY DEF LaneTypeOK
<1>3. \A id \in 1 .. Len(npm) : Holds(slots, id) <=> id \in {slots[sl] : sl \in Occupied}
  BY DEF Holds, Occupied
<1>4. {slots[sl] : sl \in Occupied} \subseteq 1 .. Len(npm)
  BY <1>1, <1>2 DEF Occupied
<1>5. (\A id \in 1 .. Len(npm) : npm[id].holder = "lane" <=> Holds(slots, id))
        <=> {id \in DOMAIN npm : npm[id].holder = "lane"} = {slots[sl] : sl \in Occupied}
  BY <1>1, <1>3, <1>4
<1>6. OneEach(slots) <=> \A x, y \in Occupied : slots[x] = slots[y] => x = y
  BY DEF OneEach, Occupied
<1> QED BY <1>5, <1>6 DEF Accounted, PositionsAccounted

\* An unwind keeps the accounts: what it burns, no slot holds any more.
LEMMA UnwindAccounts ==
  ASSUME LaneTypeOK, Accounted, NEW untouched \in SUBSET Occupied,
         NEW kept \in SUBSET Occupied, untouched \cap kept = {}
  PROVE  LET held == SlotsAfter(untouched, kept)
             left == NpmAfter(untouched, kept)
         IN  /\ \A id \in 1 .. Len(npm) : left[id].holder = "lane" <=> Holds(held, id)
             /\ OneEach(held)
<1> DEFINE held == SlotsAfter(untouched, kept)
           left == NpmAfter(untouched, kept)
<1>1. \A sl \in Slot : held[sl] = IF sl \in untouched \cup kept THEN slots[sl] ELSE 0
  BY DEF SlotsAfter
<1>2. untouched \subseteq Slot /\ kept \subseteq Slot /\ \A sl \in Occupied : slots[sl] # 0
  BY DEF Occupied
<1>3. OneEach(held)
  <2> HIDE DEF held
  <2> QED BY <1>1 DEF OneEach, Accounted
<1>4. ASSUME NEW id \in 1 .. Len(npm)
      PROVE  left[id].holder = "lane" <=> Holds(held, id)
  <2>1. id # 0 /\ id \in DOMAIN npm
    BY DEF LaneTypeOK
  <2>2. left[id] = IF \E sl \in Slot \ untouched : slots[sl] = id
                   THEN [liq |-> 0, holder |-> IF \E sl \in kept : slots[sl] = id
                                               THEN "lane" ELSE "burned"]
                   ELSE npm[id]
    BY <2>1 DEF NpmAfter
  <2>3. Holds(held, id) <=> \E sl \in untouched \cup kept : slots[sl] = id
    <3> HIDE DEF held
    <3> QED BY <1>1, <1>2, <2>1 DEF Holds
  <2> HIDE DEF held, left
  <2>4. CASE \E sl \in Slot \ untouched : slots[sl] = id
    <3>1. PICK sl \in Slot \ untouched : slots[sl] = id
      BY <2>4
    <3>2. \A x \in untouched : slots[x] # id
      BY <1>2, <2>1, <3>1 DEF Accounted, OneEach
    <3>3. left[id].holder = "lane" <=> \E x \in kept : slots[x] = id
      BY <2>2, <2>4
    <3> QED BY <2>3, <3>2, <3>3
  <2>5. CASE ~\E sl \in Slot \ untouched : slots[sl] = id
    <3>1. left[id] = npm[id]
      BY <2>2, <2>5
    <3>2. npm[id].holder = "lane" <=> Holds(slots, id)
      BY DEF Accounted
    <3>3. Holds(slots, id) <=> \E sl \in untouched : slots[sl] = id
      BY <1>2, <2>5 DEF Holds
    <3>4. ~\E sl \in kept \ untouched : slots[sl] = id
      BY <1>2, <2>5
    <3> QED BY <2>3, <3>1, <3>2, <3>3, <3>4
  <2> QED BY <2>4, <2>5
<1> QED BY <1>3, <1>4

\* Minting keeps the accounts: each new position gets one slot, and one each.
LEMMA MintAccounts ==
  ASSUME NEW len \in Nat, NEW n \in Nat, NEW held \in [Slot -> 0 .. len], OneEach(held),
         NEW new, \A sl \in Slot : new[sl] = IF held[sl] = 0 /\ FreeUpTo(held, sl) <= n
                                            THEN len + FreeUpTo(held, sl) ELSE held[sl],
         n <= FreeUpTo(held, MaxSlots - 1)
  PROVE  /\ \A id \in 1 .. len : Holds(new, id) <=> Holds(held, id)
         /\ \A id \in len + 1 .. len + n : Holds(new, id)
         /\ OneEach(new)
<1>1. \A sl \in Slot : held[sl] \in 0 .. len /\ FreeUpTo(held, sl) \in Nat
  BY FreeUpToGrows
<1>2. ASSUME NEW sl \in Slot, held[sl] = 0
      PROVE  FreeUpTo(held, sl) >= 1
  BY <1>2, FreeUpToInjective
<1>3. ASSUME NEW id \in 1 .. len PROVE Holds(new, id) <=> Holds(held, id)
  <2>1. ASSUME NEW sl \in Slot PROVE new[sl] = id <=> held[sl] = id
    BY <1>1, <1>2
  <2> QED BY <2>1 DEF Holds
<1>4. ASSUME NEW id \in len + 1 .. len + n PROVE Holds(new, id)
  <2>1. id - len \in Nat \ {0} /\ id - len <= n /\ FreeUpTo(held, MaxSlots - 1) \in Nat
    <3>1. MaxSlots - 1 \in Slot \cup {-1}
      BY GovernanceAssumption DEF Slot
    <3> QED BY <3>1, FreeUpToGrows
  <2>2. \E sl \in Slot : held[sl] = 0 /\ FreeUpTo(held, sl) = id - len
    BY <2>1, FreeUpToSurjective
  <2>3. PICK sl \in Slot : held[sl] = 0 /\ FreeUpTo(held, sl) = id - len
    BY <2>2
  <2>4. new[sl] = id
    BY <2>1, <2>3
  <2> QED BY <2>4 DEF Holds
<1>5. ASSUME NEW x \in Slot, NEW y \in Slot, new[x] = new[y], new[x] # 0 PROVE x = y
  <2>1. CASE held[x] = 0 /\ held[y] = 0
    <3>1. FreeUpTo(held, x) = FreeUpTo(held, y)
      BY <1>1, <1>5, <2>1
    <3> QED BY <2>1, <3>1, FreeUpToInjective
  <2>2. CASE held[x] # 0 /\ held[y] # 0
    BY <1>5, <2>2 DEF OneEach
  <2>3. CASE held[x] = 0 /\ held[y] # 0
    BY <1>1, <1>2, <1>5, <2>3
  <2>4. CASE held[x] # 0 /\ held[y] = 0
    BY <1>1, <1>2, <1>5, <2>4
  <2> QED BY <2>1, <2>2, <2>3, <2>4
<1> QED BY <1>3, <1>4, <1>5 DEF OneEach

\* Every step keeps the accounts.
LEMMA AccountedStep ==
  ASSUME LaneTypeOK, Accounted, [LaneNext]_laneAll
  PROVE  Accounted'
<1>1. Len(npm) \in Nat
  BY DEF LaneTypeOK
<1>2. CASE UNCHANGED <<slots, npm>>
  BY <1>2 DEF Accounted, Holds, OneEach
<1>3. ASSUME NEW kept \in SUBSET Occupied, NEW untouched \in SUBSET (Occupied \ kept),
             slots' = SlotsAfter(untouched, kept), npm' = NpmAfter(untouched, kept)
      PROVE  Accounted'
  <2> DEFINE held == SlotsAfter(untouched, kept)
             left == NpmAfter(untouched, kept)
  <2>1. /\ \A id \in 1 .. Len(npm) : left[id].holder = "lane" <=> Holds(held, id)
        /\ OneEach(held)
    BY UnwindAccounts
  <2>2. Len(left) = Len(npm)
    BY Unwinds
  <2>3. slots' = held /\ npm' = left
    BY <1>3
  <2> HIDE DEF held, left
  <2> QED BY <2>1, <2>2, <2>3 DEF Accounted, Holds, OneEach
<1>4. ASSUME NEW s, NEW d, NEW kept \in SUBSET Occupied, NEW n \in Nat,
             NEW amounts \in [1 .. n -> Amount], Rerange(s, d, kept, amounts)
      PROVE  Accounted'
  <2> DEFINE held == SlotsAfter({}, kept)
             left == NpmAfter({}, kept)
  <2>1. /\ held \in [Slot -> 0 .. Len(npm)]
        /\ n <= FreeUpTo(held, MaxSlots - 1)
        /\ slots' = SlotsMinted(held, n)
        /\ Len(npm') = Len(npm) + n
        /\ \A id \in 1 .. Len(npm) : npm'[id] = left[id]
        /\ \A i \in 1 .. n : npm'[Len(npm) + i] = [liq |-> amounts[i], holder |-> "lane"]
    BY <1>4, RerangeMoves
  <2>2. /\ \A id \in 1 .. Len(npm) : left[id].holder = "lane" <=> Holds(held, id)
        /\ OneEach(held)
    BY UnwindAccounts
  <2> HIDE DEF held, left
  <2>3. \A sl \in Slot : slots'[sl] = IF held[sl] = 0 /\ FreeUpTo(held, sl) <= n
                                      THEN Len(npm) + FreeUpTo(held, sl) ELSE held[sl]
    BY <2>1 DEF SlotsMinted
  <2>4. /\ \A id \in 1 .. Len(npm) : Holds(slots', id) <=> Holds(held, id)
        /\ \A id \in Len(npm) + 1 .. Len(npm) + n : Holds(slots', id)
        /\ OneEach(slots')
    BY <1>1, <2>1, <2>2, <2>3, MintAccounts, ZenonT(40)
  <2>5. \A id \in Len(npm) + 1 .. Len(npm) + n : npm'[id].holder = "lane"
    <3> SUFFICES ASSUME NEW id \in Len(npm) + 1 .. Len(npm) + n PROVE npm'[id].holder = "lane"
      OBVIOUS
    <3>1. id - Len(npm) \in 1 .. n /\ Len(npm) + (id - Len(npm)) = id
      BY <1>1
    <3>2. npm'[id] = [liq |-> amounts[id - Len(npm)], holder |-> "lane"]
      BY <2>1, <3>1
    <3> QED BY <3>2
  <2>6. \A id \in 1 .. Len(npm') : npm'[id].holder = "lane" <=> Holds(slots', id)
    <3> SUFFICES ASSUME NEW id \in 1 .. Len(npm')
                 PROVE  npm'[id].holder = "lane" <=> Holds(slots', id)
      OBVIOUS
    <3>1. id \in 1 .. Len(npm) \/ id \in Len(npm) + 1 .. Len(npm) + n
      BY <1>1, <2>1
    <3> QED BY <2>1, <2>2, <2>4, <2>5, <3>1
  <2> QED BY <2>4, <2>6 DEF Accounted, Holds, OneEach
<1>5. ASSUME NEW sl, NEW pos, NEW to, OneSlotMoves(sl, pos, to) PROVE Accounted'
  <2>1. /\ sl \in Slot /\ slots[sl] \in 1 .. Len(npm) /\ slots[sl] # 0
    BY <1>5, OccupiedHolds DEF OneSlotMoves
  <2>2. to \in {0, slots[sl]} /\ (to = 0 <=> pos.holder # "lane")
    BY <1>5 DEF OneSlotMoves
  <2>3. /\ Len(npm') = Len(npm)
        /\ slots'[sl] = to /\ npm'[slots[sl]] = pos
        /\ \A x \in Slot \ {sl} : slots'[x] = slots[x]
        /\ \A i \in (1 .. Len(npm)) \ {slots[sl]} : npm'[i] = npm[i]
    BY <1>5, OneSlotType
  <2>4. OneEach(slots')
    BY <2>1, <2>2, <2>3 DEF OneEach, Accounted
  <2>5. ASSUME NEW id \in 1 .. Len(npm), id # slots[sl]
        PROVE  npm'[id].holder = "lane" <=> Holds(slots', id)
    <3>1. \A x \in Slot : slots'[x] = id <=> slots[x] = id
      BY <1>1, <2>1, <2>2, <2>3, <2>5
    <3>2. npm[id].holder = "lane" <=> Holds(slots, id)
      BY DEF Accounted
    <3> QED BY <2>3, <2>5, <3>1, <3>2 DEF Holds
  <2>6. pos.holder = "lane" <=> Holds(slots', slots[sl])
    <3>1. \A x \in Slot \ {sl} : slots'[x] # slots[sl]
      BY <2>1, <2>3 DEF Accounted, OneEach
    <3> QED BY <2>1, <2>2, <2>3, <3>1 DEF Holds
  <2>7. \A id \in 1 .. Len(npm') : npm'[id].holder = "lane" <=> Holds(slots', id)
    BY <2>1, <2>3, <2>5, <2>6
  <2> QED BY <2>4, <2>7 DEF Accounted, Holds, OneEach
<1>6. ASSUME NEW s, NEW d, SignalOrCollect(s, d) PROVE Accounted'
  BY <1>2, <1>6 DEF SignalOrCollect
<1>7. ASSUME NEW s, NEW d, NEW kept \in SUBSET Occupied, UnwindAndHold(s, d, kept)
      PROVE  Accounted'
  BY <1>3, <1>7 DEF UnwindAndHold
<1>8. ASSUME NEW s, NEW d, NEW kept \in SUBSET Occupied,
             NEW untouched \in SUBSET (Occupied \ kept), ExitAll(s, d, untouched, kept)
      PROVE  Accounted'
  BY <1>3, <1>8 DEF ExitAll
<1>9. ASSUME NEW s, NEW d, NEW sl \in Slot, NEW want \in Nat, NEW collected \in BOOLEAN,
             Reduce(s, d, sl, want, collected)
      PROVE  Accounted'
  BY <1>5, <1>9, ReduceMoves
<1>10. ASSUME NEW s, NEW sl \in Slot, WithdrawPosition(s, sl) PROVE Accounted'
  BY <1>5, <1>10, WithdrawMoves
<1>11. FenceMoves \/ UNCHANGED laneVars => Accounted'
  BY <1>2 DEF FenceMoves, laneVars
<1> QED BY <1>4, <1>6, <1>7, <1>8, <1>9, <1>10, <1>11, LaneSteps, Zenon

\* Every position the lane minted is in exactly one slot until it is burned or the owner
\* takes it, for any number of slots and whatever fails (_remove, _freeSlot).
THEOREM PositionsAreAccounted == LaneSpec => []PositionsAccounted
<1>1. LaneInit => Accounted
  <2>1. LaneInit => Len(npm) = 0 /\ \A sl \in Slot : slots[sl] = 0
    BY DEF LaneInit
  <2> QED BY <2>1 DEF Accounted, OneEach
<1>2. LaneTyped /\ Accounted /\ [LaneNext]_laneAll => Accounted'
  BY AccountedStep DEF LaneTyped
<1>3. LaneTyped /\ Accounted => PositionsAccounted
  BY AccountedForms DEF LaneTyped
<1>4. LaneSpec => []Accounted
  BY <1>1, <1>2, LaneTypeCorrect, PTL DEF LaneSpec
<1> QED BY <1>3, <1>4, LaneTypeCorrect, PTL

\* What the owner gets from an exitAll in which nothing fails: no slot is taken and the lane
\* holds no position, whatever calls failed before and whatever they left in the slots.
ExitLeavesNothing ==
  [][\A s \in Address, d \in Decision : ExitAll(s, d, {}, {}) =>
       /\ slots' = [sl \in Slot |-> 0]
       /\ \A id \in DOMAIN npm' : npm'[id].holder # "lane"]_laneAll

\* No position the lane minted can hide from an exit: exitAll goes by the slots, and every
\* position the lane still holds is in one (exitAll, _remove).
THEOREM ExitsLeaveNothing == LaneSpec => ExitLeavesNothing
<1>1. ASSUME LaneTyped, PositionsAccounted, NEW s, NEW d, ExitAll(s, d, {}, {})
      PROVE  /\ slots' = [sl \in Slot |-> 0]
             /\ \A id \in DOMAIN npm' : npm'[id].holder # "lane"
  <2>1. slots' = SlotsAfter({}, {}) /\ npm' = NpmAfter({}, {})
    BY <1>1 DEF ExitAll
  <2>2. slots' = [sl \in Slot |-> 0]
    BY <2>1 DEF SlotsAfter
  <2>3. DOMAIN npm' = DOMAIN npm
    BY <2>1 DEF NpmAfter
  <2>4. ASSUME NEW id \in DOMAIN npm PROVE npm'[id].holder # "lane"
    <3>1. CASE \E sl \in Slot : slots[sl] = id
      <4>1. npm'[id].holder = "burned"
        BY <2>1, <3>1 DEF NpmAfter
      <4> QED BY <4>1
    <3>2. CASE ~ \E sl \in Slot : slots[sl] = id
      <4>1. npm'[id] = npm[id]
        BY <2>1, <3>2 DEF NpmAfter
      <4>2. npm[id].holder = "lane" => \E sl \in Slot : slots[sl] = id
        BY <1>1 DEF PositionsAccounted, Occupied
      <4> QED BY <3>2, <4>1, <4>2
    <3> QED BY <3>1, <3>2
  <2> QED BY <2>2, <2>3, <2>4
<1>2. LaneTyped /\ PositionsAccounted /\ [LaneNext]_laneAll =>
        [\A s \in Address, d \in Decision : ExitAll(s, d, {}, {}) =>
           /\ slots' = [sl \in Slot |-> 0]
           /\ \A id \in DOMAIN npm' : npm'[id].holder # "lane"]_laneAll
  BY <1>1
<1> QED BY <1>2, LaneTypeCorrect, PositionsAreAccounted, PTL DEF LaneSpec, ExitLeavesNothing

-----------------------------------------------------------------------------
(***************************************************************************)
(* Budgets. What was spent since some time and what is left in a bucket    *)
(* are together no more than a full bucket and the refill since then, all  *)
(* at the rate of the ceiling: that the caps move under it changes nothing.*)
(***************************************************************************)
Owes(b, ceil, period, spent, start) ==
  spent * Scale * period + b.level * period <= ceil * Scale * (period + b.at - start)

\* Multiplication by a natural number keeps the order.
LEMMA TimesMonotone ==
  ASSUME NEW x \in Nat, NEW y \in Nat, NEW z \in Nat, x <= y
  PROVE  x * z \in Nat /\ y * z \in Nat /\ x * z <= y * z /\ z * x <= z * y
OBVIOUS

\* Division rounds down.
LEMMA DivTimes ==
  ASSUME NEW x \in Nat, NEW p \in Nat \ {0}
  PROVE  x \div p \in Nat /\ (x \div p) * p <= x
OBVIOUS

\* Sums multiply term by term.
LEMMA Distributes ==
  ASSUME NEW x \in Int, NEW y \in Int, NEW z \in Int
  PROVE  (x + y) * z = x * z + y * z /\ z * (x + y) = z * x + z * y
         /\ (x - y) * z = x * z - y * z
OBVIOUS

\* A bucket that is read later has at most refilled at the ceiling's rate.
LEMMA RefillBound ==
  ASSUME NEW b \in Bucket, NEW cap \in Nat, NEW ceil \in Nat, cap <= ceil,
         NEW period \in Nat \ {0}, NEW t \in Nat, b.at <= t
  PROVE  LET avail == Available(b, cap, period, t)
         IN  /\ avail \in Nat /\ avail * period <= ceil * Scale * period
             /\ t - b.at < period =>
                  avail * period <= b.level * period + ceil * Scale * (t - b.at)
<1> DEFINE avail == Available(b, cap, period, t)
           full == cap * Scale
           top == ceil * Scale
           gap == t - b.at
<1>1. avail \in Nat /\ avail <= full
  BY AvailableType
<1>2. full \in Nat /\ top \in Nat /\ full <= top /\ gap \in Nat /\ b.level \in Nat
  BY TimesMonotone, LaneAssumption DEF Bucket
<1>3. gap < period => avail <= b.level + (full * gap) \div period
  <2>1. (full * gap) \div period \in Nat
    <3>1. full * gap \in Nat
      <4> HIDE DEF full, gap
      <4> QED BY <1>2
    <3> HIDE DEF full, gap
    <3> QED BY <3>1, DivTimes
  <2> DEFINE refill == (full * gap) \div period
  <2>2. gap < period => avail = Smaller(full, b.level + refill)
    BY <1>2 DEF Available
  <2> HIDE DEF refill, full, gap, avail
  <2>3. refill \in Nat
    BY <2>1 DEF refill
  <2> QED BY <1>2, <2>2, <2>3 DEF Smaller, refill
<1> HIDE DEF avail, full, top, gap
<1>4. avail <= top
  BY <1>1, <1>2
<1>5. avail * period <= top * period
  BY <1>1, <1>2, <1>4, TimesMonotone
<1>6. gap < period => avail * period <= b.level * period + top * gap
  <2> SUFFICES ASSUME gap < period PROVE avail * period <= b.level * period + top * gap
    OBVIOUS
  <2> DEFINE refill == (full * gap) \div period
  <2>1. full * gap \in Nat /\ top * gap \in Nat /\ full * gap <= top * gap
    BY <1>2, TimesMonotone
  <2>2. refill \in Nat /\ refill * period <= full * gap
    BY <2>1, DivTimes
  <2>3. avail <= b.level + refill
    BY <1>3
  <2> HIDE DEF refill
  <2>4. avail * period <= (b.level + refill) * period
    BY <1>1, <1>2, <2>2, <2>3, TimesMonotone
  <2>5. (b.level + refill) * period = b.level * period + refill * period
    BY <1>2, <2>2, Distributes
  <2>6. avail * period \in Nat /\ b.level * period \in Nat /\ refill * period \in Nat
    BY <1>1, <1>2, <2>2, TimesMonotone
  <2> QED BY <2>1, <2>2, <2>4, <2>5, <2>6
<1> QED BY <1>1, <1>5, <1>6 DEF avail, top, gap

\* A charge keeps what is owed: since any earlier time, and since now.
LEMMA TakeOwes ==
  ASSUME NEW b \in Bucket, NEW cap \in Nat, NEW ceil \in Nat, cap <= ceil,
         NEW period \in Nat \ {0}, NEW a \in Nat, now \in Nat, b.at <= now,
         CanTake(b, cap, period, a)
  PROVE  /\ Owes(Take(b, cap, period, a), ceil, period, a, now)
         /\ \A spent, start \in Nat : start <= b.at /\ Owes(b, ceil, period, spent, start) =>
              Owes(Take(b, cap, period, a), ceil, period, spent + a, start)
<1> DEFINE avail == Available(b, cap, period, now)
           top == ceil * Scale
           rest == avail - a * Scale
           charged == a * Scale
           gap == now - b.at
<1>1. /\ avail \in Nat /\ avail * period <= top * period
      /\ gap < period => avail * period <= b.level * period + top * gap
  BY RefillBound
<1>2. /\ top \in Nat /\ charged \in Nat /\ gap \in Nat /\ b.level \in Nat /\ b.at \in Nat
      /\ rest = avail - charged
  BY LaneAssumption DEF Bucket
<1>3. rest \in Nat
  BY <1>1, <1>2 DEF CanTake
<1>4. Take(b, cap, period, a) = [level |-> rest, at |-> now]
  BY DEF Take
<1> HIDE DEF avail, top, rest, charged, gap
<1>5. rest * period = avail * period - charged * period
  BY <1>1, <1>2, Distributes
<1>6. /\ avail * period \in Nat /\ charged * period \in Nat /\ rest * period \in Nat
      /\ top * period \in Nat /\ top * gap \in Nat /\ b.level * period \in Nat
  BY <1>1, <1>2, <1>3, TimesMonotone
<1>7. Owes(Take(b, cap, period, a), ceil, period, a, now)
  <2>1. charged * period + rest * period <= top * period
    BY <1>1, <1>5, <1>6
  <2>2. a * Scale * period + rest * period <= ceil * Scale * period
    BY <2>1 DEF charged, top
  <2>3. period + now - now = period
    OBVIOUS
  <2> QED BY <1>4, <2>2, <2>3 DEF Owes
<1>8. ASSUME NEW spent \in Nat, NEW start \in Nat, start <= b.at, Owes(b, ceil, period, spent, start)
      PROVE  Owes(Take(b, cap, period, a), ceil, period, spent + a, start)
  <2> DEFINE before == spent * Scale
             span == period + b.at - start
  <2>1. before \in Nat /\ span \in Nat
    BY <1>2, <1>8, LaneAssumption
  <2>2. before * period + b.level * period <= top * span
    BY <1>8 DEF Owes, top
  <2>3. (spent + a) * Scale = before + charged
    BY LaneAssumption, Distributes DEF charged
  <2>4. period + now - start = span + gap
    BY <1>2, <1>8 DEF gap
  <2> HIDE DEF before, span
  <2>5. (before + charged) * period = before * period + charged * period
    BY <1>2, <2>1, Distributes
  <2>6. top * (span + gap) = top * span + top * gap
    BY <1>2, <2>1, Distributes
  <2>7. before * period \in Nat /\ top * span \in Nat
    BY <1>2, <2>1, TimesMonotone
  <2>8. period <= gap => top * period <= top * gap
    BY <1>2, TimesMonotone
  <2>9. before * period + avail * period <= top * span + top * gap
    <3>1. CASE gap < period
      BY <1>1, <1>6, <2>2, <2>7, <3>1
    <3>2. CASE period <= gap
      BY <1>1, <1>6, <2>2, <2>7, <2>8, <3>2
    <3> QED BY <1>2, <3>1, <3>2
  <2>10. (before + charged) * period + rest * period <= top * (span + gap)
    BY <1>5, <1>6, <2>5, <2>6, <2>7, <2>9
  <2>11. (spent + a) * Scale * period + rest * period <= ceil * Scale * (period + now - start)
    BY <2>3, <2>4, <2>10 DEF top
  <2> QED BY <1>4, <2>11 DEF Owes
<1> QED BY <1>7, <1>8

\* What is owed bounds what was spent.
LEMMA OwesBounds ==
  ASSUME NEW b \in Bucket, NEW ceil \in Nat, NEW period \in Nat \ {0}, NEW spent \in Nat,
         NEW start \in Nat, start <= b.at, Owes(b, ceil, period, spent, start)
  PROVE  spent * period <= ceil * (period + b.at - start)
<1> DEFINE span == period + b.at - start
           x == spent * period
           y == ceil * span
<1>1. span \in Nat /\ b.level \in Nat
  BY DEF Bucket
<1>2. spent * Scale * period + b.level * period <= ceil * Scale * span
  BY DEF Owes
<1> HIDE DEF span
<1>3. x \in Nat /\ y \in Nat /\ b.level * period \in Nat
  BY <1>1, TimesMonotone
<1>4. spent * Scale * period = x * Scale /\ ceil * Scale * span = y * Scale
  BY <1>1, LaneAssumption
<1>5. x * Scale <= y * Scale
  <2>1. x * Scale \in Nat /\ y * Scale \in Nat
    BY <1>3, TimesMonotone, LaneAssumption
  <2> HIDE DEF x, y
  <2> QED BY <1>2, <1>3, <1>4, <2>1
<1> HIDE DEF x, y
<1>6. x <= y
  <2> SUFFICES ASSUME y + 1 <= x PROVE FALSE
    BY <1>3
  <2>1. (y + 1) * Scale <= x * Scale
    BY <1>3, TimesMonotone, LaneAssumption
  <2>2. (y + 1) * Scale = y * Scale + Scale
    BY <1>3, LaneAssumption
  <2>3. x * Scale \in Nat /\ y * Scale \in Nat /\ Scale \in Nat \ {0}
    BY <1>3, TimesMonotone, LaneAssumption
  <2> QED BY <1>5, <2>1, <2>2, <2>3
<1> QED BY <1>6 DEF x, y, span

\* What is owed since each rerange of the log.
RerangeOwes(i) ==
  /\ log[i].at <= turnover.at /\ log[i].at <= rr1h.at /\ log[i].at <= rr24h.at
  /\ log[i].before <= Charged
  /\ Owes(turnover, Ceiling["turnoverUsd6PerDay"], Day, Charged - log[i].before, log[i].at)
  /\ Owes(rr1h, Ceiling["reranges1h"], Hour, Len(log) - i + 1, log[i].at)
  /\ Owes(rr24h, Ceiling["reranges24h"], Day, Len(log) - i + 1, log[i].at)

BudgetInv == (\A i \in 1 .. Len(log) : RerangeOwes(i)) /\ BudgetsBounded

\* A limit in force is no looser than its ceiling.
LEMMA CapsUnderCeiling ==
  ASSUME GovTypeOK, CapsWithinCeilings, NEW f \in Field \ MinField
  PROVE  caps[f] \in Nat /\ Ceiling[f] \in Nat /\ caps[f] <= Ceiling[f]
BY CapsAreNat DEF CapsWithinCeilings, NoLooser, Looser

\* What a rerange owes: since itself, and since each rerange before it.
LEMMA RerangeKeepsOwing ==
  ASSUME LaneTyped, GovTypeOK, CapsWithinCeilings, \A i \in 1 .. Len(log) : RerangeOwes(i),
         NEW n \in Nat, NEW amounts \in [1 .. n -> Amount],
         NEW s, NEW d, NEW kept, Rerange(s, d, kept, amounts)
  PROVE  \A i \in 1 .. Len(log') : RerangeOwes(i)'
<1> DEFINE usd == Total(amounts)
           e == [at |-> now, before |-> Charged, after |-> Charged + usd]
<1>1. /\ usd \in Nat /\ Charged \in Nat /\ now \in Nat /\ Len(log) \in Nat
      /\ Day \in Nat \ {0} /\ Hour \in Nat \ {0}
  BY TotalType, LogType, LaneAssumption DEF LaneTyped, GovTypeOK
<1>2. \A f \in {"turnoverUsd6PerDay", "reranges1h", "reranges24h"} :
        caps[f] \in Nat /\ Ceiling[f] \in Nat /\ caps[f] <= Ceiling[f]
  BY CapsUnderCeiling DEF Field, MinField
<1>3. /\ turnover \in Bucket /\ rr1h \in Bucket /\ rr24h \in Bucket
      /\ turnover.at <= now /\ rr1h.at <= now /\ rr24h.at <= now
  BY DEF LaneTyped, LaneTypeOK
<1>4. /\ turnover'.at = now /\ rr1h'.at = now /\ rr24h'.at = now
      /\ Len(log') = Len(log) + 1 /\ log'[Len(log) + 1] = e
      /\ \A i \in 1 .. Len(log) : log'[i] = log[i]
      /\ Charged' = Charged + usd
  <2>1. e \in [at : Nat, before : Nat, after : Nat]
    BY <1>1
  <2>2. log' = Append(log, e)
    BY DEF Rerange
  <2>3. turnover'.at = now /\ rr1h'.at = now /\ rr24h'.at = now
    BY RerangeCharges
  <2>4. e.after = Charged + usd
    OBVIOUS
  <2> HIDE DEF e, usd
  <2> QED BY <2>1, <2>2, <2>3, <2>4, LogGrows DEF LaneTyped
<1>5. /\ CanTake(turnover, caps["turnoverUsd6PerDay"], Day, usd)
      /\ turnover' = Take(turnover, caps["turnoverUsd6PerDay"], Day, usd)
      /\ CanTake(rr1h, caps["reranges1h"], Hour, 1) /\ rr1h' = Take(rr1h, caps["reranges1h"], Hour, 1)
      /\ CanTake(rr24h, caps["reranges24h"], Day, 1)
      /\ rr24h' = Take(rr24h, caps["reranges24h"], Day, 1)
  BY DEF Rerange, ChargeNotional, AdmitRiskAdding
<1> HIDE DEF usd
<1>6. /\ Owes(turnover', Ceiling["turnoverUsd6PerDay"], Day, usd, now)
      /\ \A spent, start \in Nat :
           start <= turnover.at /\ Owes(turnover, Ceiling["turnoverUsd6PerDay"], Day, spent, start) =>
             Owes(turnover', Ceiling["turnoverUsd6PerDay"], Day, spent + usd, start)
  BY <1>1, <1>2, <1>3, <1>5, TakeOwes
<1>7. /\ Owes(rr1h', Ceiling["reranges1h"], Hour, 1, now)
      /\ \A spent, start \in Nat :
           start <= rr1h.at /\ Owes(rr1h, Ceiling["reranges1h"], Hour, spent, start) =>
             Owes(rr1h', Ceiling["reranges1h"], Hour, spent + 1, start)
  BY <1>1, <1>2, <1>3, <1>5, TakeOwes
<1>8. /\ Owes(rr24h', Ceiling["reranges24h"], Day, 1, now)
      /\ \A spent, start \in Nat :
           start <= rr24h.at /\ Owes(rr24h, Ceiling["reranges24h"], Day, spent, start) =>
             Owes(rr24h', Ceiling["reranges24h"], Day, spent + 1, start)
  BY <1>1, <1>2, <1>3, <1>5, TakeOwes
<1>9. ASSUME NEW i \in 1 .. Len(log) PROVE RerangeOwes(i)'
  <2>1. log[i].at \in Nat /\ log[i].before \in Nat
    BY LogType DEF LaneTyped
  <2>2. RerangeOwes(i)
    OBVIOUS
  <2>3. /\ log[i].at <= turnover.at /\ log[i].at <= rr1h.at /\ log[i].at <= rr24h.at
        /\ Charged - log[i].before \in Nat
    BY <1>1, <2>1, <2>2 DEF RerangeOwes
  <2>4. log[i].at <= now /\ log[i].before <= Charged + usd
    <3>1. turnover.at \in Nat
      BY <1>3 DEF Bucket
    <3> QED BY <1>1, <1>3, <2>1, <2>3, <3>1, SMTT(30)
  <2>5. Owes(turnover', Ceiling["turnoverUsd6PerDay"], Day, (Charged - log[i].before) + usd, log[i].at)
    BY <1>6, <2>1, <2>2, <2>3 DEF RerangeOwes
  <2>6. Len(log) - i + 1 \in Nat
    BY <1>1
  <2>7. Owes(rr1h', Ceiling["reranges1h"], Hour, (Len(log) - i + 1) + 1, log[i].at)
    BY <1>7, <2>1, <2>2, <2>3, <2>6 DEF RerangeOwes
  <2>8. Owes(rr24h', Ceiling["reranges24h"], Day, (Len(log) - i + 1) + 1, log[i].at)
    BY <1>8, <2>1, <2>2, <2>3, <2>6 DEF RerangeOwes
  <2>9. log'[i] = log[i]
    BY <1>4
  <2>10. (Charged - log[i].before) + usd = Charged' - log'[i].before
    BY <1>1, <1>4, <2>1, <2>9
  <2>11. (Len(log) - i + 1) + 1 = Len(log') - i + 1
    BY <1>1, <1>4
  <2> QED BY <1>4, <2>4, <2>5, <2>7, <2>8, <2>9, <2>10, <2>11 DEF RerangeOwes, Owes
<1>10. ASSUME NEW i, i = Len(log) + 1 PROVE RerangeOwes(i)'
  <2>1. log'[i] = e /\ e.at = now /\ e.before = Charged
    BY <1>4, <1>10
  <2>2. Charged' - log'[i].before = usd /\ Len(log') - i + 1 = 1 /\ Charged <= Charged'
    BY <1>1, <1>4, <1>10, <2>1
  <2> HIDE DEF e
  <2> QED BY <1>1, <1>4, <1>6, <1>7, <1>8, <2>1, <2>2 DEF RerangeOwes, Owes
<1>11. \A i \in 1 .. Len(log') : i \in 1 .. Len(log) \/ i = Len(log) + 1
  BY <1>1, <1>4
<1> QED BY <1>9, <1>10, <1>11

\* Every step keeps the budgets.
LEMMA BudgetStep ==
  ASSUME LaneTyped, GovTypeOK, CapsWithinCeilings, BudgetInv, [LaneNext]_laneAll
  PROVE  BudgetInv'
<1>1. CASE UNCHANGED <<turnover, rr1h, rr24h, log>>
  BY <1>1 DEF BudgetInv, RerangeOwes, BudgetsBounded, TurnoverBounded, RerangesBounded, Owes, Charged
<1>2. ASSUME NEW s, NEW d, NEW kept \in SUBSET Occupied, NEW n \in Nat,
             NEW amounts \in [1 .. n -> Amount], Rerange(s, d, kept, amounts)
      PROVE  BudgetInv'
  <2> DEFINE last == Len(log) + 1
  <2>1. \A i \in 1 .. Len(log') : RerangeOwes(i)'
    BY <1>2, RerangeKeepsOwing DEF BudgetInv
  <2>2. /\ {turnover', rr1h', rr24h'} \subseteq Bucket
        /\ turnover'.at = now /\ rr1h'.at = now /\ rr24h'.at = now
    BY <1>2, RerangeCharges
  <2>3. LaneTyped' /\ Len(log) \in Nat
    BY TypedStep, LogType DEF LaneTyped
  <2>4. /\ Len(log') = last /\ log'[last].at = now /\ log'[last].after = Charged'
        /\ \A i \in 1 .. Len(log) : log'[i] = log[i]
    <3> DEFINE e == [at |-> now, before |-> Charged, after |-> Charged + Total(amounts)]
    <3>1. e \in [at : Nat, before : Nat, after : Nat] /\ e.at = now
      BY TotalType, LogType DEF LaneTyped, GovTypeOK
    <3>2. log' = Append(log, e)
      BY <1>2 DEF Rerange
    <3> HIDE DEF e
    <3> QED BY <3>1, <3>2, LogGrows DEF LaneTyped
  <2>5. ASSUME NEW i \in 1 .. last
        PROVE  /\ (log'[last].after - log'[i].before) * Day
                    <= Ceiling["turnoverUsd6PerDay"] * (Day + log'[last].at - log'[i].at)
               /\ (last - i + 1) * Hour
                    <= Ceiling["reranges1h"] * (Hour + log'[last].at - log'[i].at)
               /\ (last - i + 1) * Day
                    <= Ceiling["reranges24h"] * (Day + log'[last].at - log'[i].at)
    <3>1. RerangeOwes(i)'
      BY <2>1, <2>4
    <3>2. log'[i].at \in Nat /\ log'[i].before \in Nat /\ Charged' \in Nat
      <4>1. log' \in Seq([at : Nat, before : Nat, after : Nat])
        BY <1>2, RerangeCharges
      <4>2. last \in 1 .. last
        BY <2>3
      <4> HIDE DEF last
      <4>3. log'[i] \in [at : Nat, before : Nat, after : Nat]
            /\ log'[last] \in [at : Nat, before : Nat, after : Nat]
        BY <2>4, <4>1, <4>2, ElementOfSeq
      <4> QED BY <2>4, <4>3
    <3>3. last - i + 1 \in Nat
      BY <2>3
    <3>4. Charged' - log'[i].before \in Nat
      BY <3>1, <3>2 DEF RerangeOwes
    <3>5. \A f \in {"turnoverUsd6PerDay", "reranges1h", "reranges24h"} : Ceiling[f] \in Nat
      BY CapsAreNat DEF Field
    <3>6. Day \in Nat \ {0} /\ Hour \in Nat \ {0}
      BY LaneAssumption
    <3>7. (Charged' - log'[i].before) * Day
            <= Ceiling["turnoverUsd6PerDay"] * (Day + turnover'.at - log'[i].at)
      BY <2>2, <3>1, <3>2, <3>4, <3>5, <3>6, OwesBounds DEF RerangeOwes, Owes
    <3>8. (last - i + 1) * Hour <= Ceiling["reranges1h"] * (Hour + rr1h'.at - log'[i].at)
      BY <2>2, <2>4, <3>1, <3>2, <3>3, <3>5, <3>6, OwesBounds DEF RerangeOwes, Owes
    <3>9. (last - i + 1) * Day <= Ceiling["reranges24h"] * (Day + rr24h'.at - log'[i].at)
      BY <2>2, <2>4, <3>1, <3>2, <3>3, <3>5, <3>6, OwesBounds DEF RerangeOwes, Owes
    <3> QED BY <2>2, <2>4, <3>7, <3>8, <3>9
  <2>6. DOMAIN log = 1 .. Len(log) /\ DOMAIN log' = 1 .. last
    BY <2>3, <2>4 DEF LaneTyped, LaneTypeOK
  <2>7. ASSUME NEW i \in DOMAIN log', NEW j \in DOMAIN log', i <= j
        PROVE  /\ (log'[j].after - log'[i].before) * Day
                    <= Ceiling["turnoverUsd6PerDay"] * (Day + log'[j].at - log'[i].at)
               /\ (j - i + 1) * Hour
                    <= Ceiling["reranges1h"] * (Hour + log'[j].at - log'[i].at)
               /\ (j - i + 1) * Day
                    <= Ceiling["reranges24h"] * (Day + log'[j].at - log'[i].at)
    <3>1. CASE j = last
      <4>1. i \in 1 .. last
        BY <2>6
      <4> HIDE DEF last
      <4> QED BY <2>5, <3>1, <4>1
    <3>2. CASE j # last
      <4>1. i \in DOMAIN log /\ j \in DOMAIN log
        BY <2>3, <2>6, <2>7, <3>2
      <4>2. log'[i] = log[i] /\ log'[j] = log[j]
        BY <2>4, <2>6, <4>1
      <4> QED BY <2>7, <4>1, <4>2 DEF BudgetInv, BudgetsBounded, TurnoverBounded, RerangesBounded
    <3> QED BY <3>1, <3>2
  <2>8. BudgetsBounded'
    BY <2>7 DEF BudgetsBounded, TurnoverBounded, RerangesBounded
  <2> QED BY <2>1, <2>8 DEF BudgetInv
<1>3. ASSUME NEW s, NEW d, SignalOrCollect(s, d) PROVE BudgetInv'
  BY <1>1, <1>3 DEF SignalOrCollect, budgetVars
<1>4. ASSUME NEW s, NEW d, NEW kept, UnwindAndHold(s, d, kept) PROVE BudgetInv'
  BY <1>1, <1>4 DEF UnwindAndHold, budgetVars
<1>5. ASSUME NEW s, NEW d, NEW kept, NEW untouched, ExitAll(s, d, untouched, kept) PROVE BudgetInv'
  BY <1>1, <1>5 DEF ExitAll, budgetVars
<1>6. ASSUME NEW s, NEW d, NEW sl, NEW want, NEW collected, Reduce(s, d, sl, want, collected)
      PROVE  BudgetInv'
  BY <1>1, <1>6 DEF Reduce, budgetVars
<1>7. ASSUME NEW s, NEW sl, WithdrawPosition(s, sl) PROVE BudgetInv'
  BY <1>1, <1>7 DEF WithdrawPosition, budgetVars
<1>8. FenceMoves \/ UNCHANGED laneVars => BudgetInv'
  BY <1>1 DEF FenceMoves, laneVars, budgetVars
<1> QED BY <1>2, <1>3, <1>4, <1>5, <1>6, <1>7, <1>8, LaneSteps, Zenon

\* Over any stretch of time, for every caps and however they move under the ceilings, the
\* reranges spend at most a full bucket and what it refills in that time (TokenBucket).
THEOREM BudgetsAreBounded == LaneSpec => []BudgetsBounded
<1>1. LaneInit => BudgetInv
  <2>1. LaneInit => Len(log) = 0 /\ DOMAIN log = {}
    BY DEF LaneInit
  <2> QED BY <2>1 DEF BudgetInv, BudgetsBounded, TurnoverBounded, RerangesBounded
<1>2. LaneTyped /\ GovTypeOK /\ CapsWithinCeilings /\ BudgetInv /\ [LaneNext]_laneAll => BudgetInv'
  BY BudgetStep
<1>3. BudgetInv => BudgetsBounded
  BY DEF BudgetInv
<1> QED BY <1>1, <1>2, <1>3, LaneTypeCorrect, LaneGoverned, PTL DEF LaneSpec

-----------------------------------------------------------------------------
(***************************************************************************)
(* What the slots hold. Only a rerange adds to it, and after its unwind    *)
(* every slot it had to keep is without liquidity: what the slots hold is  *)
(* then what it minted, summed along the free slots.                       *)
(***************************************************************************)

\* What a slot holds is a natural number.
LEMMA NotionalType ==
  ASSUME LaneTypeOK
  PROVE  \A k \in 1 .. MaxSlots :
           /\ k - 1 \in Slot
           /\ Notional[k] \in Nat
           /\ Notional[k] = IF slots[k - 1] = 0 THEN 0 ELSE npm[slots[k - 1]].liq
<1> SUFFICES ASSUME NEW k \in 1 .. MaxSlots
             PROVE  /\ k - 1 \in Slot
                    /\ Notional[k] \in Nat
                    /\ Notional[k] = IF slots[k - 1] = 0 THEN 0 ELSE npm[slots[k - 1]].liq
  OBVIOUS
<1>1. k - 1 \in Slot
  BY GovernanceAssumption DEF Slot
<1>2. slots[k - 1] # 0 => npm[slots[k - 1]].liq \in Nat
  BY <1>1, OccupiedHolds DEF Occupied
<1> QED BY <1>1, <1>2 DEF Notional

\* When no slot gains, the bound stays.
LEMMA LiveShrinks ==
  ASSUME LaneTypeOK, LiveNotionalBounded,
         \A k \in 1 .. MaxSlots : Notional'[k] \in Nat /\ Notional'[k] <= Notional[k]
  PROVE  LiveNotionalBounded'
<1>1. \A k \in 1 .. MaxSlots : Notional[k] \in Nat
  BY NotionalType
<1>2. MaxSlots \in Nat /\ Ceiling["maxDeployUsd6"] \in Nat
  BY GovernanceAssumption DEF Caps, Field
<1>3. Sums(Notional', MaxSlots)[MaxSlots] <= Sums(Notional, MaxSlots)[MaxSlots]
  BY <1>1, <1>2, SumsMonotone
<1>4. Sums(Notional', MaxSlots)[MaxSlots] \in Nat /\ Sums(Notional, MaxSlots)[MaxSlots] \in Nat
  BY <1>1, <1>2, SumsStep
<1> QED BY <1>2, <1>3, <1>4 DEF LiveNotionalBounded

\* After a rerange the slots hold what it minted, in the order of the free slots.
LEMMA RerangeHolds ==
  ASSUME LaneTypeOK, LaneTypeOK', NEW n \in Nat, NEW amounts \in [1 .. n -> Amount],
         NEW s, NEW d, NEW kept \in SUBSET Occupied, Rerange(s, d, kept, amounts)
  PROVE  Sums(Notional', MaxSlots)[MaxSlots] = Total(amounts)
<1> DEFINE held == SlotsAfter({}, kept)
           left == NpmAfter({}, kept)
           f == Notional'
<1>1. /\ held \in [Slot -> 0 .. Len(npm)]
      /\ n <= FreeUpTo(held, MaxSlots - 1)
      /\ slots' = SlotsMinted(held, n)
      /\ \A id \in 1 .. Len(npm) : npm'[id] = left[id]
      /\ \A i \in 1 .. n : npm'[Len(npm) + i] = [liq |-> amounts[i], holder |-> "lane"]
  BY RerangeMoves
<1>2. /\ Len(npm) \in Nat /\ DOMAIN npm = 1 .. Len(npm) /\ MaxSlots \in Nat
      /\ Len(amounts) = n /\ \A k \in 1 .. n : amounts[k] \in Nat
  <2>1. Len(amounts) = n /\ \A k \in 1 .. n : amounts[k] \in Nat
    BY TotalType
  <2>2. Len(npm) \in Nat /\ DOMAIN npm = 1 .. Len(npm)
    BY DEF LaneTypeOK
  <2> QED BY <2>1, <2>2, GovernanceAssumption
<1>3. \A k \in 1 .. MaxSlots :
        /\ k - 1 \in Slot /\ f[k] \in Nat
        /\ f[k] = IF slots'[k - 1] = 0 THEN 0 ELSE npm'[slots'[k - 1]].liq
  <2> SUFFICES ASSUME NEW k \in 1 .. MaxSlots
               PROVE  /\ k - 1 \in Slot /\ f[k] \in Nat
                      /\ f[k] = IF slots'[k - 1] = 0 THEN 0 ELSE npm'[slots'[k - 1]].liq
    OBVIOUS
  <2>1. k - 1 \in Slot
    BY GovernanceAssumption DEF Slot
  <2>2. /\ npm' \in Seq(Position) /\ slots'[k - 1] \in 0 .. Len(npm')
    BY <2>1 DEF LaneTypeOK
  <2>3. slots'[k - 1] # 0 => npm'[slots'[k - 1]] \in Position
    BY <2>2, ElementOfSeq
  <2>4. f[k] = IF slots'[k - 1] = 0 THEN 0 ELSE npm'[slots'[k - 1]].liq
    BY DEF Notional
  <2> QED BY <2>1, <2>3, <2>4 DEF Position
<1>4. ASSUME NEW sl \in Slot, held[sl] # 0 PROVE npm'[held[sl]].liq = 0
  <2>1. held[sl] = slots[sl]
    BY <1>4 DEF SlotsAfter
  <2>2. held[sl] \in 1 .. Len(npm)
    BY <1>1, <1>2, <1>4
  <2>3. left[held[sl]].liq = 0
    BY <1>2, <2>1, <2>2 DEF NpmAfter
  <2> QED BY <1>1, <2>2, <2>3
<1> HIDE DEF f, held, left
<1>5. /\ \A k \in 0 .. MaxSlots : Sums(f, MaxSlots)[k] \in Nat
      /\ Sums(f, MaxSlots)[0] = 0
      /\ \A k \in 1 .. MaxSlots : Sums(f, MaxSlots)[k] = Sums(f, MaxSlots)[k - 1] + f[k]
  BY <1>2, <1>3, SumsStep
<1>6. /\ \A k \in 0 .. n : Sums(amounts, n)[k] \in Nat
      /\ Sums(amounts, n)[0] = 0
      /\ \A k \in 1 .. n : Sums(amounts, n)[k] = Sums(amounts, n)[k - 1] + amounts[k]
  BY <1>2, SumsStep
<1>7. \A x \in Slot \cup {-1} : FreeUpTo(held, x) \in Nat
  BY FreeUpToGrows
<1> DEFINE filled(k) == Smaller(n, FreeUpTo(held, k - 1))
           S == {k \in Nat : k <= MaxSlots => Sums(f, MaxSlots)[k] = Sums(amounts, n)[filled(k)]}
<1>8. 0 \in S
  <2>1. FreeUpTo(held, 0 - 1) = 0
    BY FreeUpToGrows
  <2>2. filled(0) = 0
    BY <2>1 DEF Smaller
  <2> HIDE DEF filled
  <2> QED BY <1>5, <1>6, <2>2
<1>9. ASSUME NEW k \in Nat, k \in S PROVE k + 1 \in S
  <2> SUFFICES ASSUME k + 1 <= MaxSlots
               PROVE  Sums(f, MaxSlots)[k + 1] = Sums(amounts, n)[filled(k + 1)]
    OBVIOUS
  <2>1. /\ k \in Slot /\ k - 1 \in Slot \cup {-1} /\ k + 1 \in 1 .. MaxSlots /\ k <= MaxSlots
        /\ (k + 1) - 1 = k
    BY <1>2 DEF Slot
  <2> DEFINE free == FreeUpTo(held, k)
             prev == FreeUpTo(held, k - 1)
  <2>2. free \in Nat /\ prev \in Nat /\ free = prev + (IF held[k] = 0 THEN 1 ELSE 0)
    BY <1>7, <2>1, FreeUpToStep
  <2>3. filled(k) = Smaller(n, prev) /\ filled(k + 1) = Smaller(n, free)
    BY <2>1
  <2>4. Sums(f, MaxSlots)[k] = Sums(amounts, n)[filled(k)]
    BY <1>9, <2>1
  <2>5. Sums(f, MaxSlots)[k + 1] = Sums(amounts, n)[filled(k)] + f[k + 1]
    BY <1>5, <2>1, <2>4
  <2>6. f[k + 1] = IF slots'[k] = 0 THEN 0 ELSE npm'[slots'[k]].liq
    BY <1>3, <2>1
  <2>7. slots'[k] = IF held[k] = 0 /\ free <= n THEN Len(npm) + free ELSE held[k]
    BY <1>1, <2>1 DEF SlotsMinted
  <2> HIDE DEF free, prev, filled
  <2>8. CASE held[k] = 0 /\ free <= n
    <3>1. filled(k) = free - 1 /\ filled(k + 1) = free /\ free \in 1 .. n
      BY <2>2, <2>3, <2>8 DEF Smaller
    <3>2. slots'[k] = Len(npm) + free /\ slots'[k] # 0
      BY <1>2, <2>7, <2>8, <3>1
    <3>3. npm'[slots'[k]].liq = amounts[free]
      <4>1. npm'[Len(npm) + free] = [liq |-> amounts[free], holder |-> "lane"]
        BY <1>1, <3>1
      <4> QED BY <3>2, <4>1
    <3>4. Sums(amounts, n)[free] = Sums(amounts, n)[free - 1] + amounts[free]
      BY <1>6, <3>1
    <3> QED BY <2>5, <2>6, <3>1, <3>2, <3>3, <3>4
  <2>9. CASE ~(held[k] = 0 /\ free <= n)
    <3>1. f[k + 1] = 0
      BY <1>4, <2>1, <2>6, <2>7, <2>9
    <3>2. filled(k + 1) = filled(k) /\ filled(k) \in 0 .. n
      BY <2>2, <2>3, <2>9 DEF Smaller
    <3>3. Sums(amounts, n)[filled(k)] \in Nat
      BY <1>6, <3>2
    <3> QED BY <2>5, <3>1, <3>2, <3>3
  <2> QED BY <2>8, <2>9
<1>10. MaxSlots \in S
  <2>1. \A k \in Nat : k \in S
    <3> HIDE DEF S
    <3> QED BY <1>8, <1>9, Induction
  <2> HIDE DEF S
  <2> QED BY <1>2, <2>1
<1>11. filled(MaxSlots) = n
  <2>1. MaxSlots - 1 \in Slot \cup {-1}
    BY <1>2 DEF Slot
  <2>2. FreeUpTo(held, MaxSlots - 1) \in Nat
    BY <1>7, <2>1
  <2> QED BY <1>1, <2>2 DEF Smaller
<1>12. Sums(f, MaxSlots)[MaxSlots] = Sums(amounts, n)[n]
  BY <1>2, <1>10, <1>11
<1> QED BY <1>2, <1>12 DEF Total, f

\* An unwind adds nothing to any slot.
LEMMA UnwindShrinks ==
  ASSUME LaneTypeOK, LaneTypeOK', NEW untouched \in SUBSET Occupied, NEW kept \in SUBSET Occupied,
         slots' = SlotsAfter(untouched, kept), npm' = NpmAfter(untouched, kept)
  PROVE  \A k \in 1 .. MaxSlots : Notional'[k] \in Nat /\ Notional'[k] <= Notional[k]
<1> SUFFICES ASSUME NEW k \in 1 .. MaxSlots
             PROVE  Notional'[k] \in Nat /\ Notional'[k] <= Notional[k]
  OBVIOUS
<1> DEFINE id == slots[k - 1]
<1>1. /\ k - 1 \in Slot /\ Notional[k] \in Nat
      /\ Notional[k] = IF id = 0 THEN 0 ELSE npm[id].liq
  BY NotionalType
<1>2. Notional'[k] = IF slots'[k - 1] = 0 THEN 0 ELSE npm'[slots'[k - 1]].liq
  BY DEF Notional
<1>3. slots'[k - 1] \in {0, id}
  BY <1>1 DEF SlotsAfter
<1>4. ASSUME id # 0 PROVE npm'[id].liq \in {0, npm[id].liq}
  <2>1. id \in DOMAIN npm
    BY <1>1, <1>4, OccupiedHolds DEF Occupied
  <2>2. npm'[id].liq \in {0, npm[id].liq}
    BY <2>1 DEF NpmAfter
  <2> QED BY <2>2
<1> HIDE DEF id
<1> QED BY <1>1, <1>2, <1>3, <1>4

\* Nor does a call that moves one slot: no other slot holds the same position.
LEMMA OneSlotShrinks ==
  ASSUME LaneTypeOK, Accounted, NEW sl, NEW pos, NEW to, OneSlotMoves(sl, pos, to)
  PROVE  \A k \in 1 .. MaxSlots : Notional'[k] \in Nat /\ Notional'[k] <= Notional[k]
<1> SUFFICES ASSUME NEW k \in 1 .. MaxSlots
             PROVE  Notional'[k] \in Nat /\ Notional'[k] <= Notional[k]
  OBVIOUS
<1>1. /\ k - 1 \in Slot /\ Notional[k] \in Nat
      /\ Notional[k] = IF slots[k - 1] = 0 THEN 0 ELSE npm[slots[k - 1]].liq
  BY NotionalType
<1>2. Notional'[k] = IF slots'[k - 1] = 0 THEN 0 ELSE npm'[slots'[k - 1]].liq
  BY DEF Notional
<1>3. /\ sl \in Slot /\ slots[sl] # 0 /\ pos.liq \in Nat /\ pos.liq <= npm[slots[sl]].liq
      /\ to \in {0, slots[sl]}
  BY OccupiedHolds DEF OneSlotMoves, Position
<1>4. /\ slots'[sl] = to /\ npm'[slots[sl]] = pos
      /\ \A x \in Slot \ {sl} : slots'[x] = slots[x]
      /\ \A i \in (1 .. Len(npm)) \ {slots[sl]} : npm'[i] = npm[i]
  BY OneSlotType
<1>5. CASE k - 1 = sl
  BY <1>1, <1>2, <1>3, <1>4, <1>5
<1>6. CASE k - 1 # sl
  <2>1. slots'[k - 1] = slots[k - 1]
    BY <1>1, <1>4, <1>6
  <2>2. slots[k - 1] # 0 => slots[k - 1] \in 1 .. Len(npm) /\ slots[k - 1] # slots[sl]
    BY <1>1, <1>3, <1>6, OccupiedHolds DEF Occupied, Accounted, OneEach
  <2>3. slots[k - 1] # 0 => npm'[slots[k - 1]] = npm[slots[k - 1]]
    BY <1>4, <2>2
  <2> QED BY <1>1, <1>2, <2>1, <2>3
<1> QED BY <1>5, <1>6

\* Every step keeps the bound.
LEMMA LiveStep ==
  ASSUME LaneTyped, GovTypeOK, CapsWithinCeilings, Accounted, LiveNotionalBounded, [LaneNext]_laneAll
  PROVE  LiveNotionalBounded'
<1>1. LaneTypeOK /\ LaneTypeOK'
  BY TypedStep DEF LaneTyped
<1>2. CASE UNCHANGED <<slots, npm>>
  BY <1>2 DEF LiveNotionalBounded, Notional
<1>3. ASSUME NEW untouched \in SUBSET Occupied, NEW kept \in SUBSET Occupied,
             slots' = SlotsAfter(untouched, kept), npm' = NpmAfter(untouched, kept)
      PROVE  LiveNotionalBounded'
  BY <1>1, <1>3, UnwindShrinks, LiveShrinks
<1>4. ASSUME NEW sl, NEW pos, NEW to, OneSlotMoves(sl, pos, to) PROVE LiveNotionalBounded'
  BY <1>1, <1>4, OneSlotShrinks, LiveShrinks
<1>5. ASSUME NEW s, NEW d, NEW kept \in SUBSET Occupied, NEW n \in Nat,
             NEW amounts \in [1 .. n -> Amount], Rerange(s, d, kept, amounts)
      PROVE  LiveNotionalBounded'
  <2>1. Sums(Notional', MaxSlots)[MaxSlots] = Total(amounts)
    BY <1>1, <1>5, RerangeHolds
  <2>2. Total(amounts) <= caps["maxDeployUsd6"] /\ Total(amounts) \in Nat
    BY <1>5, TotalType DEF Rerange, ChargeNotional
  <2>3. /\ caps["maxDeployUsd6"] \in Nat /\ Ceiling["maxDeployUsd6"] \in Nat
        /\ caps["maxDeployUsd6"] <= Ceiling["maxDeployUsd6"]
    BY CapsUnderCeiling DEF Field, MinField
  <2> QED BY <2>1, <2>2, <2>3 DEF LiveNotionalBounded
<1>6. ASSUME NEW s, NEW d, SignalOrCollect(s, d) PROVE LiveNotionalBounded'
  BY <1>2, <1>6 DEF SignalOrCollect
<1>7. ASSUME NEW s, NEW d, NEW kept \in SUBSET Occupied, UnwindAndHold(s, d, kept)
      PROVE  LiveNotionalBounded'
  BY <1>3, <1>7 DEF UnwindAndHold
<1>8. ASSUME NEW s, NEW d, NEW kept \in SUBSET Occupied,
             NEW untouched \in SUBSET (Occupied \ kept), ExitAll(s, d, untouched, kept)
      PROVE  LiveNotionalBounded'
  BY <1>3, <1>8 DEF ExitAll
<1>9. ASSUME NEW s, NEW d, NEW sl \in Slot, NEW want \in Nat, NEW collected \in BOOLEAN,
             Reduce(s, d, sl, want, collected)
      PROVE  LiveNotionalBounded'
  BY <1>1, <1>4, <1>9, ReduceMoves
<1>10. ASSUME NEW s, NEW sl \in Slot, WithdrawPosition(s, sl) PROVE LiveNotionalBounded'
  BY <1>1, <1>4, <1>10, WithdrawMoves
<1>11. FenceMoves \/ UNCHANGED laneVars => LiveNotionalBounded'
  BY <1>2 DEF FenceMoves, laneVars
<1> QED BY <1>5, <1>6, <1>7, <1>8, <1>9, <1>10, <1>11, LaneSteps, Zenon

\* What the slots hold was never valued above the ceiling of a single rerange, however many
\* there have been and whichever unwinds were cut short (rerange, _remove, _chargeNotional).
THEOREM LiveNotionalIsBounded == LaneSpec => []LiveNotionalBounded
<1>1. LaneInit => LiveNotionalBounded
  <2> SUFFICES ASSUME LaneInit PROVE LiveNotionalBounded
    OBVIOUS
  <2> DEFINE S == {m \in Nat : m <= MaxSlots => Sums(Notional, MaxSlots)[m] = 0}
  <2>1. \A k \in 1 .. MaxSlots : Notional[k] = 0
    BY NotionalType, TypedInit DEF LaneTyped, LaneInit
  <2>2. MaxSlots \in Nat /\ Ceiling["maxDeployUsd6"] \in Nat
    BY GovernanceAssumption DEF Caps, Field
  <2>3. /\ Sums(Notional, MaxSlots)[0] = 0
        /\ \A k \in 1 .. MaxSlots :
             Sums(Notional, MaxSlots)[k] = Sums(Notional, MaxSlots)[k - 1] + Notional[k]
    BY <2>1, <2>2, SumsStep
  <2>4. 0 \in S
    BY <2>3
  <2>5. ASSUME NEW m \in Nat, m \in S PROVE m + 1 \in S
    <3> SUFFICES ASSUME m + 1 <= MaxSlots PROVE Sums(Notional, MaxSlots)[m + 1] = 0
      OBVIOUS
    <3>1. m + 1 \in 1 .. MaxSlots /\ (m + 1) - 1 = m /\ Sums(Notional, MaxSlots)[m] = 0
      BY <2>2, <2>5
    <3> QED BY <2>1, <2>3, <3>1
  <2>6. \A m \in Nat : m \in S
    <3> HIDE DEF S
    <3> QED BY <2>4, <2>5, Induction
  <2>7. MaxSlots \in S
    <3> HIDE DEF S
    <3> QED BY <2>2, <2>6
  <2> QED BY <2>2, <2>7 DEF LiveNotionalBounded
<1>2. LaneTyped /\ GovTypeOK /\ CapsWithinCeilings /\ Accounted /\ LiveNotionalBounded
        /\ [LaneNext]_laneAll => LiveNotionalBounded'
  BY LiveStep
<1>3. LaneTyped /\ PositionsAccounted => Accounted
  BY AccountedForms DEF LaneTyped
<1> QED BY <1>1, <1>2, <1>3, LaneTypeCorrect, LaneGoverned, PositionsAreAccounted, PTL DEF LaneSpec
=============================================================================
