---------------------------- MODULE MarketProofs ----------------------------
(***************************************************************************)
(* What is decided from the market, for every spacing, band, gate, dwell   *)
(* and bound. Placement: what is minted offers neither token worse than    *)
(* the band at the reference of its block, and a signed rerange reverts    *)
(* only if the market moved after the guard looked. Gates and signals: no  *)
(* gate turns off before its dwell, no signal repeats the one before it,   *)
(* what is signed is the lane's state by then, and an owner is asked once  *)
(* per transition, across denials, late answers, drops and crashes.        *)
(***************************************************************************)
EXTENDS MCMarket, SetupWizardProofs, LaneLogProofs, SequenceTheorems

-----------------------------------------------------------------------------
(* Ranges.                                                                 *)

\* Snapping down never raises a tick and snapping up never lowers one
\* (units.ts floorToSpacing, ceilToSpacing).
LEMMA Snapped ==
  ASSUME NEW t \in Int
  PROVE  /\ FloorTo(t) \in Int /\ FloorTo(t) <= t
         /\ CeilTo(t) \in Int /\ CeilTo(t) >= t
<1>1. Spacing \in Nat /\ Spacing > 0
  BY PlacementAssumption
<1>2. \A x \in Int : x % Spacing \in Int /\ x % Spacing >= 0
  BY <1>1, SMT
<1>3. t % Spacing \in Int /\ t % Spacing >= 0 /\ 0 - t \in Int
  BY <1>2
<1>4. (0 - t) % Spacing \in Int /\ (0 - t) % Spacing >= 0
  BY <1>2, <1>3
<1> QED
  BY <1>3, <1>4 DEF FloorTo, CeilTo

\* The two comparisons of RangeRules.check bound every tick at which the range offers
\* a token, whatever the range.
LEMMA FenceBoundsOffers ==
  ASSUME NEW r \in TickRange, NEW tick \in Int, NEW ref \in Int, FenceAllows(r, tick, ref)
  PROVE  OffersWithinBand(r, tick, ref)
<1>1. Band \in Nat
  BY PlacementAssumption
<1>2. ASSUME NEW t \in tick..(r.tu - 1), r.tl <= t
      PROVE  t >= ref - Band
  BY <1>1, <1>2 DEF FenceAllows, Greater, TickRange
<1>3. ASSUME NEW t \in r.tl..(r.tu - 1), t <= tick
      PROVE  t <= ref + Band
  BY <1>1, <1>3 DEF FenceAllows, Lesser, TickRange
<1> QED
  BY <1>2, <1>3 DEF OffersWithinBand

\* Whatever range is planned, on every tick it may land at it needs no token it does
\* not offer.
StaysFunded(r, tick) == \A t \in Window(tick) : Needs(r, t) \subseteq r.offers

\* The width of the bands is a number of ticks (bands.ts, width).
LEMMA WidthInt == Width \in Int
<1>1. 2 * HalfWidth \in Int
  BY PlacementAssumption
<1> QED
  BY <1>1, Snapped DEF Width

\* The asks of a plan end below every tick they may land at, so they need no token 0
\* there (bands.ts: an NVDA ask below the window).
LEMMA AsksStayBelow ==
  ASSUME NEW m \in Market
  PROVE  /\ Asks(m) \in TickRange
         /\ Asks(m).offers = {1} /\ Asks(m).tu <= m.tick - Delta
<1>1. m.tick \in Int /\ m.fair \in Int /\ m.ref \in Int
  BY DEF Market
<1>2. Delta \in Nat /\ Band \in Nat /\ Width \in Int
  BY PlacementAssumption, WidthInt
<1> DEFINE a == Lesser(m.fair, m.tick - Delta)
           tu == Lesser(FloorTo(a), FloorTo(m.ref + Band))
<1>3. a \in Int /\ a <= m.tick - Delta
  BY <1>1, <1>2 DEF Lesser
<1>4. FloorTo(a) \in Int /\ FloorTo(a) <= a
  BY <1>3, Snapped
<1>5. FloorTo(m.ref + Band) \in Int
  <2>1. m.ref + Band \in Int
    BY <1>1, <1>2
  <2> QED
    BY <2>1, Snapped
<1>6. tu \in Int /\ tu <= FloorTo(a)
  BY <1>4, <1>5 DEF Lesser
<1>7. Asks(m) = [tl |-> tu - Width, tu |-> tu, offers |-> {1}]
  BY DEF Asks
<1>8. tu - Width \in Int /\ tu <= m.tick - Delta
  BY <1>1, <1>2, <1>3, <1>4, <1>6
<1> HIDE DEF tu, a
<1> QED
  BY <1>6, <1>7, <1>8 DEF TickRange, Token

\* The bids of a plan begin above every tick they may land at, so they need no token 1
\* there (bands.ts: a USDG bid above the window).
LEMMA BidsStayAbove ==
  ASSUME NEW m \in Market
  PROVE  /\ Bids(m) \in TickRange
         /\ Bids(m).offers = {0} /\ Bids(m).tl >= m.tick + Delta + 1
<1>1. m.tick \in Int /\ m.fair \in Int /\ m.ref \in Int
  BY DEF Market
<1>2. Delta \in Nat /\ Band \in Nat /\ Width \in Int
  BY PlacementAssumption, WidthInt
<1> DEFINE b == Greater(m.fair, m.tick + Delta + 1)
           tl == Greater(CeilTo(b), CeilTo(m.ref - Band))
<1>3. b \in Int /\ b >= m.tick + Delta + 1
  BY <1>1, <1>2 DEF Greater
<1>4. CeilTo(b) \in Int /\ CeilTo(b) >= b
  BY <1>3, Snapped
<1>5. CeilTo(m.ref - Band) \in Int
  <2>1. m.ref - Band \in Int
    BY <1>1, <1>2
  <2> QED
    BY <2>1, Snapped
<1>6. tl \in Int /\ tl >= CeilTo(b)
  BY <1>4, <1>5 DEF Greater
<1>7. Bids(m) = [tl |-> tl, tu |-> tl + Width, offers |-> {0}]
  BY DEF Bids
<1>8. tl + Width \in Int /\ tl >= m.tick + Delta + 1
  BY <1>1, <1>2, <1>3, <1>4, <1>6
<1> HIDE DEF tl, b
<1> QED
  BY <1>6, <1>7, <1>8 DEF TickRange, Token

\* A straddle is a range, and offers both tokens (bands.ts, straddle).
LEMMA StraddleTyped ==
  ASSUME NEW m \in Market
  PROVE  Straddle(m) \in TickRange /\ Straddle(m).offers = Token
<1>1. m.fair - HalfWidth \in Int /\ m.fair + HalfWidth \in Int
  BY PlacementAssumption DEF Market
<1>2. FloorTo(m.fair - HalfWidth) \in Int /\ CeilTo(m.fair + HalfWidth) \in Int
  BY <1>1, Snapped
<1> QED
  BY <1>2 DEF Straddle, TickRange

\* A range needs token 0 only if it ends above the tick, token 1 only if it begins at
\* or below it (bands.ts rangeNeeds).
LEMMA NeedsTokens ==
  ASSUME NEW r, NEW t
  PROVE  /\ Needs(r, t) \subseteq Token
         /\ 0 \in Needs(r, t) => r.tu > t
         /\ 1 \in Needs(r, t) => r.tl <= t
  BY DEF Needs, Token

\* A planned range, widened or not, stays funded by what it offers: the overlay
\* widens a single-sided range only away from the pool.
LEMMA WidenedStaysFunded ==
  ASSUME NEW m \in Market, NEW r \in PlanBands(m), NEW w \in Widenings
  PROVE  /\ Widened(r, m.tick, w) \in TickRange
         /\ StaysFunded(Widened(r, m.tick, w), m.tick)
<1> DEFINE q == Widened(r, m.tick, w)
<1>1. m.tick \in Int /\ Delta \in Nat
  BY PlacementAssumption DEF Market
<1>2. r \in {Straddle(m), Asks(m), Bids(m)}
  BY DEF PlanBands
<1>3. r \in TickRange
  BY <1>2, AsksStayBelow, BidsStayAbove, StraddleTyped
<1>4. q \in TickRange /\ q.offers = r.offers
  <2>1. w \in Int
    BY PlacementAssumption
  <2>2. r.tl - w \in Int /\ r.tu + w \in Int /\ r.tl \in Int /\ r.tu \in Int
    BY <1>3, <2>1 DEF TickRange
  <2>3. FloorTo(r.tl - w) \in Int /\ CeilTo(r.tu + w) \in Int
    BY <2>2, Snapped
  <2> QED
    BY <1>3, <2>2, <2>3 DEF Widened, TickRange
<1>5. r.tu <= m.tick => q.tu = r.tu
  BY <1>3 DEF Widened, TickRange
<1>6. r.tl >= m.tick => q.tl = r.tl
  BY <1>3 DEF Widened, TickRange
<1>7. ASSUME NEW t \in Window(m.tick)
      PROVE  Needs(q, t) \subseteq q.offers
  <2>1. t \in Int /\ m.tick - Delta <= t /\ t <= m.tick + Delta
    BY <1>1 DEF Window
  <2>2. CASE r = Straddle(m)
    BY <2>2, <1>4, StraddleTyped, NeedsTokens
  <2>3. CASE r = Asks(m)
    <3>1. q.offers = {1} /\ r.tu <= m.tick - Delta /\ r.tu \in Int
      BY <2>3, <1>3, <1>4, AsksStayBelow DEF TickRange
    <3>2. q.tu <= t
      BY <3>1, <2>1, <1>1, <1>5
    <3>3. 0 \notin Needs(q, t)
      BY <3>1, <3>2, <2>1, <1>4, NeedsTokens DEF TickRange
    <3> HIDE DEF q
    <3> QED
      BY <3>1, <3>3, NeedsTokens DEF Token
  <2>4. CASE r = Bids(m)
    <3>1. q.offers = {0} /\ r.tl >= m.tick + Delta + 1 /\ r.tl \in Int
      BY <2>4, <1>3, <1>4, BidsStayAbove DEF TickRange
    <3>2. q.tl > t
      BY <3>1, <2>1, <1>1, <1>6
    <3>3. 1 \notin Needs(q, t)
      BY <3>1, <3>2, <2>1, <1>4, NeedsTokens DEF TickRange
    <3> HIDE DEF q
    <3> QED
      BY <3>1, <3>3, NeedsTokens DEF Token
  <2> QED
    BY <1>2, <2>2, <2>3, <2>4
<1> QED
  BY <1>4, <1>7 DEF StaysFunded

-----------------------------------------------------------------------------
(* The steps.                                                              *)

\* What holds of a rerange under way: it was planned on a market, and stays funded on
\* every tick it may land at; on its snapshot, once a critic judged it, it sits beyond F
\* if it is single-sided; once signed, the guard allowed it.
Underway ==
  /\ phase # "idle" => StaysFunded(range, expected)
  /\ phase # "idle" /\ ~later => BeyondFair(range, seen)
  /\ phase = "signed" => GuardAllows(seen) /\ BeyondFair(range, seen)

IInv ==
  /\ PlacementTypeOK /\ Underway
  /\ MintedWithinBand /\ RevertMeansMarketMoved /\ SingleSidedBeyondFair

\* The range and the snapshot of no decision are a range and a market.
LEMMA NothingTyped == NoRange \in TickRange /\ Nowhere \in Market
  BY DEF NoRange, Nowhere, At, TickRange, Market, Token

\* A lane on which nothing landed has a landing all the same.
LEMMA NotPlacedTyped == NotPlaced \in Landing
  BY NothingTyped DEF NotPlaced, Landing

\* Nothing is under way and nothing has landed at first.
LEMMA InitInv == PlacementInit => IInv
<1> SUFFICES ASSUME PlacementInit PROVE IInv
  OBVIOUS
<1>1. market \in Market
  <2>1. /\ market.tick \in Int /\ market.ref \in Int /\ market.fair \in Int
        /\ market.near \in BOOLEAN /\ market.holds \in SUBSET Token
        /\ market = [tick |-> market.tick, ref |-> market.ref, fair |-> market.fair,
                     near |-> market.near, holds |-> market.holds]
    BY PlacementAssumption DEF PlacementInit
  <2> QED
    BY <2>1 DEF Market
<1>2. placed = NotPlaced
  BY DEF PlacementInit
<1>3. NotPlaced \in Landing
  BY NotPlacedTyped
<1>4. PlacementTypeOK
  <2>1. moves \in Nat /\ phase = "idle" /\ expected \in Int
    BY DEF PlacementInit
  <2>2. /\ range = NoRange /\ seen = Nowhere /\ later = FALSE
        /\ range \in TickRange /\ seen \in Market /\ later \in BOOLEAN
    BY NothingTyped, Zenon DEF PlacementInit
  <2> QED
    BY <1>1, <1>2, <1>3, <2>1, <2>2, Zenon DEF PlacementTypeOK
<1> QED
  BY <1>2, <1>4 DEF PlacementInit, IInv, Underway, MintedWithinBand, RevertMeansMarketMoved,
                          SingleSidedBeyondFair, NotPlaced

\* A decision that ends leaves nothing under way.
LEMMA OverTyped ==
  ASSUME PlacementTypeOK, Over, UNCHANGED <<market, moves>>, placed' \in Landing
  PROVE  PlacementTypeOK' /\ Underway'
<1>1. PlacementTypeOK'
  <2>1. market' \in Market /\ moves' \in Nat /\ phase' = "idle" /\ expected' \in Int
    BY DEF PlacementTypeOK, Over
  <2>2. /\ range' = NoRange /\ seen' = Nowhere /\ later' = FALSE
        /\ range' \in TickRange /\ seen' \in Market /\ later' \in BOOLEAN
    BY NothingTyped, Zenon DEF Over
  <2> QED
    BY <2>1, <2>2, Zenon DEF PlacementTypeOK
<1>2. Underway'
  BY DEF Over, Underway
<1> QED
  BY <1>1, <1>2

\* What the lane admits is within the band.
LEMMA LandsWithinBand ==
  ASSUME NEW r \in TickRange, NEW m \in Market, Ends(r, m) = "minted"
  PROVE  OffersWithinBand(r, m.tick, m.ref)
<1>1. FenceAllows(r, m.tick, m.ref)
  BY DEF Ends
<1>2. m.tick \in Int /\ m.ref \in Int
  BY DEF Market
<1> QED
  BY <1>1, <1>2, FenceBoundsOffers

\* A rerange ends as one of the outcomes of the lane's checks (DeskLaneV3 rerange).
LEMMA EndsTyped ==
  ASSUME NEW r, NEW m
  PROVE  Ends(r, m) \in {"minted", "tick", "shape", "fence", "empty"}
  BY DEF Ends

\* A tick the tick guard admits is in the window the plan was judged over.
LEMMA ApartWindow ==
  ASSUME NEW t \in Int, NEW e \in Int, ~(Apart(t, e) > Delta)
  PROVE  t \in Window(e)
  BY PlacementAssumption DEF Apart, Window

\* If the guard allowed it on a snapshot and the lane refuses it now, the market moved.
LEMMA RefusalNeedsMove ==
  ASSUME NEW m \in Market, PlacementTypeOK, StaysFunded(range, expected), GuardAllows(seen)
  PROVE  /\ Ends(range, m) # "shape"
         /\ Ends(range, m) = "tick" => m.tick # seen.tick
         /\ Ends(range, m) = "fence" => m.ref # seen.ref
         /\ Ends(range, m) = "empty" => m.holds # seen.holds
<1>1. /\ m.tick \in Int /\ seen.tick \in Int /\ expected \in Int /\ Delta \in Nat
      /\ ShapeOk(range)
      /\ Apart(expected, seen.tick) <= Delta
      /\ FenceAllowsAcross(range, expected, seen.ref)
      /\ range.offers \subseteq seen.holds
  BY PlacementAssumption DEF PlacementTypeOK, Market, GuardAllows
<1>2. Ends(range, m) # "shape"
  BY <1>1 DEF Ends
<1>3. ASSUME Ends(range, m) = "tick"
      PROVE  m.tick # seen.tick
  <2>1. Apart(m.tick, expected) > Delta
    BY <1>3 DEF Ends
  <2> QED
    BY <1>1, <2>1 DEF Apart
<1>4. ASSUME Ends(range, m) = "fence"
      PROVE  m.ref # seen.ref
  <2>1. ~(Apart(m.tick, expected) > Delta) /\ ~FenceAllows(range, m.tick, m.ref)
    BY <1>4 DEF Ends
  <2>2. m.tick \in Window(expected)
    BY <1>1, <2>1, ApartWindow
  <2> QED
    BY <1>1, <2>1, <2>2 DEF FenceAllowsAcross
<1>5. ASSUME Ends(range, m) = "empty"
      PROVE  m.holds # seen.holds
  <2>1. ~(Apart(m.tick, expected) > Delta) /\ ~(Needs(range, m.tick) \subseteq range.offers \cap m.holds)
    BY <1>5 DEF Ends
  <2>2. m.tick \in Window(expected)
    BY <1>1, <2>1, ApartWindow
  <2>3. Needs(range, m.tick) \subseteq range.offers
    BY <2>2 DEF StaysFunded
  <2> QED
    BY <1>1, <2>1, <2>3
<1> QED
  BY <1>2, <1>3, <1>4, <1>5

\* A range that offers one token needs exactly that one on the snapshot the guard
\* allowed, so the critic's rule for single-sided ranges applies to it.
LEMMA OneSidedNeeds ==
  ASSUME PlacementTypeOK, StaysFunded(range, expected), GuardAllows(seen),
         NEW k \in Token, range.offers = {k}
  PROVE  Needs(range, seen.tick) = {k}
<1>1. /\ seen.tick \in Int /\ expected \in Int /\ range.tl \in Int /\ range.tu \in Int
      /\ Delta \in Nat
      /\ Apart(expected, seen.tick) <= Delta /\ range.tl < range.tu
  BY PlacementAssumption DEF PlacementTypeOK, Market, TickRange, GuardAllows, ShapeOk
<1>2. seen.tick \in Window(expected)
  BY <1>1 DEF Apart, Window
<1>3. Needs(range, seen.tick) \subseteq {k}
  BY <1>2 DEF StaysFunded
<1>4. Needs(range, seen.tick) # {}
  BY <1>1 DEF Needs
<1> QED
  BY <1>3, <1>4

\* Every step keeps the invariant.
LEMMA StepInv == IInv /\ [PlacementNext]_placementVars => IInv'
<1> SUFFICES ASSUME IInv, [PlacementNext]_placementVars PROVE IInv'
  OBVIOUS
<1> USE DEF IInv
<1>1. CASE PlanRerange
  <2>1. PICK r \in PlanBands(market), w \in Widenings : range' = Widened(r, market.tick, w)
    BY <1>1 DEF PlanRerange
  <2>2. market \in Market
    BY DEF PlacementTypeOK
  <2>3. range' \in TickRange /\ StaysFunded(range', market.tick)
    BY <2>1, <2>2, WidenedStaysFunded
  <2>4. market.tick \in Int
    BY <2>2 DEF Market
  <2>5. PlacementTypeOK'
    BY <1>1, <2>2, <2>3, <2>4, NotPlacedTyped DEF PlanRerange, PlacementTypeOK
  <2>6. Underway'
    <3>1. BeyondFair(range', seen')
      BY <1>1 DEF PlanRerange, Criticised
    <3> QED
      BY <1>1, <2>3, <3>1 DEF PlanRerange, Underway, StaysFunded
  <2> QED
    BY <1>1, <2>5, <2>6 DEF PlanRerange, MintedWithinBand, RevertMeansMarketMoved,
                             SingleSidedBeyondFair, NotPlaced
<1>2. CASE Resense
  <2>1. PlacementTypeOK' /\ Underway'
    BY <1>2 DEF Resense, PlacementTypeOK, Underway
  <2> QED
    BY <1>2, <2>1 DEF Resense, MintedWithinBand, RevertMeansMarketMoved, SingleSidedBeyondFair
<1>3. CASE Simulate
  <2>1. PlacementTypeOK' /\ Underway'
    <3>1. CASE Over /\ UNCHANGED <<market, moves, placed>>
      BY <3>1, OverTyped DEF PlacementTypeOK
    <3>2. CASE phase' = "simulated" /\ UNCHANGED <<range, expected, seen, later, market, moves, placed>>
      <4>1. BeyondFair(range, seen)' <=> BeyondFair(range, seen)
        BY <3>2 DEF BeyondFair
      <4> QED
        BY <1>3, <3>2, <4>1 DEF Simulate, PlacementTypeOK, Underway
    <3> QED
      BY <1>3, <3>1, <3>2 DEF Simulate
  <2> QED
    BY <1>3, <2>1 DEF Simulate, MintedWithinBand, RevertMeansMarketMoved,
                           SingleSidedBeyondFair
<1>4. CASE SignRerange
  <2>1. PlacementTypeOK' /\ Underway'
    <3>1. CASE Over /\ UNCHANGED <<market, moves, placed>>
      BY <3>1, OverTyped DEF PlacementTypeOK
    <3>2. CASE /\ CriticAgrees(seen) /\ GuardAllows(seen) /\ phase' = "signed"
               /\ UNCHANGED <<range, expected, seen, later, market, moves, placed>>
      <4>1. GuardAllows(seen)'
        BY <3>2 DEF GuardAllows
      <4>2. StaysFunded(range, expected)'
        BY <1>4, <3>2 DEF SignRerange, Underway
      <4>3. BeyondFair(range, seen)
        <5>1. CASE later
          BY <3>2, <5>1 DEF CriticAgrees, Criticised
        <5>2. CASE ~later
          BY <1>4, <5>2 DEF SignRerange, Underway
        <5> QED
          BY <5>1, <5>2 DEF PlacementTypeOK
      <4>4. BeyondFair(range, seen)'
        BY <3>2, <4>3 DEF BeyondFair
      <4> QED
        BY <1>4, <3>2, <4>1, <4>2, <4>4 DEF SignRerange, PlacementTypeOK, Underway
    <3> QED
      BY <1>4, <3>1, <3>2 DEF SignRerange
  <2> QED
    BY <1>4, <2>1 DEF SignRerange, MintedWithinBand, RevertMeansMarketMoved,
                           SingleSidedBeyondFair
<1>5. CASE LandRerange
  <2>1. market \in Market /\ range \in TickRange /\ seen \in Market
    BY DEF PlacementTypeOK
  <2>2. StaysFunded(range, expected) /\ GuardAllows(seen) /\ BeyondFair(range, seen)
    BY <1>5 DEF LandRerange, Underway
  <2>3. placed' = [range |-> range, at |-> market, judged |-> seen, end |-> Ends(range, market)]
    BY <1>5 DEF LandRerange
  <2>4. placed' \in Landing
    BY <2>1, <2>3, EndsTyped DEF Landing
  <2>5. PlacementTypeOK' /\ Underway'
    BY <1>5, <2>4, OverTyped DEF LandRerange
  <2>6. MintedWithinBand'
    BY <2>1, <2>3, LandsWithinBand DEF MintedWithinBand
  <2>7. RevertMeansMarketMoved'
    BY <2>1, <2>2, <2>3, RefusalNeedsMove DEF RevertMeansMarketMoved
  <2>8. SingleSidedBeyondFair'
    <3>1. \A k \in Token : range.offers = {k} => Needs(range, seen.tick) = {k}
      BY <2>2, OneSidedNeeds
    <3>2. /\ range.offers = {1} => range.tu <= seen.fair + Spacing
          /\ range.offers = {0} => range.tl >= seen.fair - Spacing
      BY <2>2, <3>1 DEF BeyondFair, Token
    <3>3. placed'.judged = seen /\ placed'.range = range
      BY <2>3
    <3> QED
      BY <3>2, <3>3 DEF SingleSidedBeyondFair
  <2> QED
    BY <2>4, <2>5, <2>6, <2>7, <2>8
<1>6. CASE LoseRerange
  <2>1. PlacementTypeOK' /\ Underway'
    BY <1>6, OverTyped DEF LoseRerange, PlacementTypeOK
  <2> QED
    BY <1>6, <2>1 DEF LoseRerange, MintedWithinBand, RevertMeansMarketMoved,
                           SingleSidedBeyondFair
<1>7. CASE RerangeByOthers
  <2>1. PICK tl \in (-Spread - Width)..(Spread + Width), tu \in (-Spread - Width)..(Spread + Width),
             offers \in SUBSET Token \ {{}} :
          /\ FenceAllows([tl |-> tl, tu |-> tu, offers |-> offers], market.tick, market.ref)
          /\ placed' = [range |-> [tl |-> tl, tu |-> tu, offers |-> offers], at |-> market,
                        judged |-> Nowhere, end |-> "minted"]
    BY <1>7 DEF RerangeByOthers
  <2> DEFINE r == [tl |-> tl, tu |-> tu, offers |-> offers]
  <2>2. market \in Market /\ market.tick \in Int /\ market.ref \in Int
    BY DEF PlacementTypeOK, Market
  <2>3. r \in TickRange
    BY <2>1, WidthInt, PlacementAssumption DEF TickRange
  <2>4. OffersWithinBand(r, market.tick, market.ref)
    BY <2>1, <2>2, <2>3, FenceBoundsOffers
  <2>5. PlacementTypeOK' /\ Underway'
    BY <1>7, <2>1, <2>2, <2>3, NothingTyped DEF RerangeByOthers, PlacementTypeOK, Underway, Landing
  <2>6. MintedWithinBand'
    BY <2>1, <2>4 DEF MintedWithinBand
  <2>7. RevertMeansMarketMoved' /\ SingleSidedBeyondFair'
    BY <2>1 DEF RevertMeansMarketMoved, SingleSidedBeyondFair
  <2> QED
    BY <2>5, <2>6, <2>7
<1>8. CASE MarketMoves
  <2>1. market' \in Market /\ moves' \in Nat
    <3>1. market \in Market /\ moves \in Nat /\ FairStep \in Int
      BY PlacementAssumption DEF PlacementTypeOK
    <3>2. \A t, r, f \in Int, n \in BOOLEAN, h \in SUBSET Token : At(t, r, f, n, h) \in Market
      BY DEF At, Market
    <3>3. /\ market.tick \in Int /\ market.ref \in Int /\ market.fair \in Int
          /\ market.near \in BOOLEAN /\ market.holds \in SUBSET Token
      BY <3>1 DEF Market
    <3>4. /\ \A d \in {-1, 1} : market.tick + d \in Int /\ market.ref + d \in Int
          /\ \A d \in {-FairStep, FairStep} : market.fair + d \in Int
      BY <3>1, <3>3
    <3>5. market' \in Market
      BY <1>8, <3>2, <3>3, <3>4, SMTT(30) DEF MarketMoves
    <3> QED
      BY <1>8, <3>1, <3>5 DEF MarketMoves
  <2>2. PlacementTypeOK'
    BY <1>8, <2>1 DEF MarketMoves, PlacementTypeOK
  <2>3. /\ GuardAllows(seen)' <=> GuardAllows(seen)
        /\ BeyondFair(range, seen)' <=> BeyondFair(range, seen)
    BY <1>8 DEF MarketMoves, GuardAllows, BeyondFair
  <2>4. Underway'
    BY <1>8, <2>3 DEF MarketMoves, Underway
  <2> QED
    BY <1>8, <2>2, <2>4 DEF MarketMoves, MintedWithinBand, RevertMeansMarketMoved,
                               SingleSidedBeyondFair
<1>9. CASE UNCHANGED placementVars
  <2>1. /\ GuardAllows(seen)' <=> GuardAllows(seen)
        /\ BeyondFair(range, seen)' <=> BeyondFair(range, seen)
    BY <1>9 DEF placementVars, GuardAllows, BeyondFair
  <2> QED
    BY <1>9, <2>1 DEF placementVars, PlacementTypeOK, Underway, MintedWithinBand,
                      RevertMeansMarketMoved, SingleSidedBeyondFair
<1> QED
  BY <1>1, <1>2, <1>3, <1>4, <1>5, <1>6, <1>7, <1>8, <1>9 DEF PlacementNext, HoldTick

\* The invariant: what is under way stays funded on its window, and what was signed
\* the guard allowed on the snapshot before it.
THEOREM Invariant == PlacementSpec => []IInv
<1>1. IInv /\ [PlacementNext]_placementVars => IInv'
  BY StepInv
<1> QED
  BY <1>1, InitInv, PTL DEF PlacementSpec

\* Typed state; nothing of a decision outlives it.
THEOREM Typed == PlacementSpec => []PlacementTypeOK
  BY Invariant, PTL DEF IInv

\* Whatever was planned, judged and moved, what is minted offers neither token worse
\* than the band at the reference of its block (RangeRules.check).
THEOREM WithinBand == PlacementSpec => []MintedWithinBand
  BY Invariant, PTL DEF IInv

\* A signed rerange reverts only if the market moved after the guard looked, and for
\* the thing that moved (bands.ts, guard.ts fence-precheck against DeskLaneV3).
THEOREM MovedBeforeRevert == PlacementSpec => []RevertMeansMarketMoved
  BY Invariant, PTL DEF IInv

\* A single-sided range that mints sits beyond the F of the snapshot it was signed on,
\* however long the approval took (plan-critic.ts at execution, behind guard.ts).
THEOREM BeyondFairWhenSigned == PlacementSpec => []SingleSidedBeyondFair
  BY Invariant, PTL DEF IInv

-----------------------------------------------------------------------------
(* The gates of one lane.                                                  *)

Whys == {"off", "held", "triggered"}
Ages == Nat \cup {Never}

\* While a gate is on, its machine counts what this process saw.
GateInv ==
  /\ gates \in [Gate -> [why : Whys, ticks : Nat, age : Ages]]
  /\ clear \in [Gate -> [ticks : Nat, age : Ages]]
  /\ \A g \in Gate : On(g) => gates[g].ticks = clear[g].ticks /\ gates[g].age = clear[g].age
  /\ deaths \in Nat

\* One more clear tick counts the same for both.
LEMMA MoreClearType ==
  ASSUME SignalAssumption, NEW g \in Gate, NEW c, c.ticks \in Nat, c.age \in Ages,
         \/ c \in [why : Whys, ticks : Nat, age : Ages]
         \/ c \in [ticks : Nat, age : Ages]
  PROVE  /\ MoreClear(g, c).ticks = Upto(c.ticks + 1, ClearTicks[g])
         /\ MoreClear(g, c).age = IF c.age = Never THEN 0 ELSE c.age
         /\ MoreClear(g, c).ticks \in Nat /\ MoreClear(g, c).age \in Ages
         /\ c \in [why : Whys, ticks : Nat, age : Ages] =>
              /\ MoreClear(g, c) \in [why : Whys, ticks : Nat, age : Ages]
              /\ MoreClear(g, c).why = c.why
         /\ c \in [ticks : Nat, age : Ages] => MoreClear(g, c) \in [ticks : Nat, age : Ages]
<1>1. ClearTicks[g] \in Nat
  BY DEF SignalAssumption
<1>2. Upto(c.ticks + 1, ClearTicks[g]) \in Nat
  BY <1>1 DEF Upto
<1>3. (IF c.age = Never THEN 0 ELSE c.age) \in Ages
  BY DEF Ages
<1> DEFINE up == Upto(c.ticks + 1, ClearTicks[g])
           at == IF c.age = Never THEN 0 ELSE c.age
<1>4. MoreClear(g, c) = [c EXCEPT !.ticks = up, !.age = at]
  BY DEF MoreClear
<1> HIDE DEF up, at
<1>5. up \in Nat /\ at \in Ages
  BY <1>2, <1>3 DEF up, at
<1>6. ASSUME c \in [why : Whys, ticks : Nat, age : Ages]
      PROVE  /\ MoreClear(g, c) = [why |-> c.why, ticks |-> up, age |-> at]
             /\ MoreClear(g, c) \in [why : Whys, ticks : Nat, age : Ages]
  BY <1>4, <1>5, <1>6
<1>7. ASSUME c \in [ticks : Nat, age : Ages]
      PROVE  /\ MoreClear(g, c) = [ticks |-> up, age |-> at]
             /\ MoreClear(g, c) \in [ticks : Nat, age : Ages]
  BY <1>4, <1>5, <1>7
<1> QED BY <1>5, <1>6, <1>7 DEF up, at

\* The counts of one gate, in a tick.
LEMMA GateStepCounts ==
  ASSUME SignalAssumption, GateInv, NEW g \in Gate, NEW trig \in BOOLEAN
  PROVE  LET new == GateStep(g, trig)
             counted == ClearSeen(g, trig)
         IN  /\ new \in [why : Whys, ticks : Nat, age : Ages]
             /\ counted \in [ticks : Nat, age : Ages]
             /\ new.why # "off" => new.ticks = counted.ticks /\ new.age = counted.age
             /\ On(g) /\ new.why = "off" => ClearEnough(g, counted)
<1>1. /\ gates[g] \in [why : Whys, ticks : Nat, age : Ages]
      /\ clear[g] \in [ticks : Nat, age : Ages]
      /\ On(g) => gates[g].ticks = clear[g].ticks /\ gates[g].age = clear[g].age
  BY DEF GateInv
<1>2. /\ gates[g].ticks \in Nat /\ gates[g].age \in Ages /\ clear[g].ticks \in Nat /\ clear[g].age \in Ages
  BY <1>1
<1>5. /\ MoreClear(g, gates[g]).ticks = Upto(gates[g].ticks + 1, ClearTicks[g])
      /\ MoreClear(g, gates[g]).age = (IF gates[g].age = Never THEN 0 ELSE gates[g].age)
      /\ MoreClear(g, gates[g]) \in [why : Whys, ticks : Nat, age : Ages]
      /\ MoreClear(g, gates[g]).why = gates[g].why
  BY <1>1, <1>2, MoreClearType
<1>6. /\ MoreClear(g, clear[g]).ticks = Upto(clear[g].ticks + 1, ClearTicks[g])
      /\ MoreClear(g, clear[g]).age = (IF clear[g].age = Never THEN 0 ELSE clear[g].age)
      /\ MoreClear(g, clear[g]) \in [ticks : Nat, age : Ages]
  BY <1>1, <1>2, MoreClearType
<1>3. /\ MoreClear(g, gates[g]) \in [why : Whys, ticks : Nat, age : Ages]
      /\ MoreClear(g, gates[g]).why = gates[g].why
      /\ MoreClear(g, clear[g]) \in [ticks : Nat, age : Ages]
      /\ On(g) => /\ MoreClear(g, gates[g]).ticks = MoreClear(g, clear[g]).ticks
                  /\ MoreClear(g, gates[g]).age = MoreClear(g, clear[g]).age
  BY <1>1, <1>5, <1>6
<1>4. /\ [why |-> "triggered", ticks |-> 0, age |-> Never] \in [why : Whys, ticks : Nat, age : Ages]
      /\ [why |-> "off", ticks |-> 0, age |-> Never] \in [why : Whys, ticks : Nat, age : Ages]
      /\ [ticks |-> 0, age |-> Never] \in [ticks : Nat, age : Ages]
  BY DEF Whys, Ages
<1> QED BY <1>3, <1>4 DEF GateStep, ClearSeen, ClearEnough, On

\* A tick steps every gate; nothing else but time and a crash touches them.
LEMMA GateStepInv ==
  ASSUME SignalAssumption, GateInv, [SignalNext]_signalVars
  PROVE  /\ GateInv'
         /\ \A g \in Gate : On(g) /\ gates'[g].why = "off" /\ deaths' = deaths
              => ClearEnough(g, clear'[g])
<1>1. ASSUME NEW trig \in SUBSET Gate, NEW regime, NEW busy, LaneTick(trig, regime, busy)
      PROVE  /\ GateInv'
             /\ \A g \in Gate : On(g) /\ gates'[g].why = "off" => ClearEnough(g, clear'[g])
  <2>1. /\ gates' = [g \in Gate |-> GateStep(g, g \in trig)]
        /\ clear' = [g \in Gate |-> ClearSeen(g, g \in trig)] /\ deaths' = deaths
    BY <1>1 DEF LaneTick
  <2>2. ASSUME NEW g \in Gate
        PROVE  /\ gates'[g] \in [why : Whys, ticks : Nat, age : Ages]
               /\ clear'[g] \in [ticks : Nat, age : Ages]
               /\ gates'[g].why # "off" =>
                    gates'[g].ticks = clear'[g].ticks /\ gates'[g].age = clear'[g].age
               /\ On(g) /\ gates'[g].why = "off" => ClearEnough(g, clear'[g])
    <3>1. (g \in trig) \in BOOLEAN
      OBVIOUS
    <3> QED BY <2>1, <3>1, GateStepCounts
  <2>3. gates' \in [Gate -> [why : Whys, ticks : Nat, age : Ages]]
    BY <2>1, <2>2
  <2>4. clear' \in [Gate -> [ticks : Nat, age : Ages]]
    BY <2>1, <2>2
  <2> QED BY <2>1, <2>2, <2>3, <2>4 DEF GateInv, On
<1>2. CASE SignalTime
  <2>1. /\ gates' = [g \in Gate |-> [gates[g] EXCEPT !.age = Older(gates[g].age, ClearTime[g])]]
        /\ clear' = [g \in Gate |-> [clear[g] EXCEPT !.age = Older(clear[g].age, ClearTime[g])]]
        /\ deaths' = deaths
    BY <1>2 DEF SignalTime
  <2>2. ASSUME NEW g \in Gate
        PROVE  /\ gates'[g] \in [why : Whys, ticks : Nat, age : Ages]
               /\ clear'[g] \in [ticks : Nat, age : Ages]
               /\ gates'[g].why = gates[g].why
               /\ On(g) => gates'[g].ticks = clear'[g].ticks /\ gates'[g].age = clear'[g].age
    <3>1. ASSUME NEW a \in Ages PROVE Older(a, ClearTime[g]) \in Ages
      <4>1. ClearTime[g] \in Nat
        BY DEF SignalAssumption
      <4> QED BY <4>1 DEF Older, Upto, Ages, Never
    <3>2. /\ gates[g] \in [why : Whys, ticks : Nat, age : Ages]
          /\ clear[g] \in [ticks : Nat, age : Ages]
          /\ On(g) => gates[g].ticks = clear[g].ticks /\ gates[g].age = clear[g].age
      BY DEF GateInv
    <3>3. Older(gates[g].age, ClearTime[g]) \in Ages /\ Older(clear[g].age, ClearTime[g]) \in Ages
      BY <3>1, <3>2
    <3> QED BY <2>1, <3>2, <3>3
  <2>3. gates' \in [Gate -> [why : Whys, ticks : Nat, age : Ages]]
    BY <2>1, <2>2
  <2>4. clear' \in [Gate -> [ticks : Nat, age : Ages]]
    BY <2>1, <2>2
  <2> QED BY <2>1, <2>2, <2>3, <2>4, ZenonT(40) DEF GateInv, On
<1>3. CASE ProcessCrash
  <2>1. gates' = GatesAtStart /\ clear' = NotYetClear /\ deaths' = deaths + 1
    BY <1>3 DEF ProcessCrash
  <2>2. GateInv' /\ deaths' # deaths
    BY <2>1 DEF GateInv, GatesAtStart, NotYetClear, Whys, Ages, On
  <2> QED BY <2>2
<1>4. CASE UNCHANGED <<gates, clear, deaths>>
  BY <1>4 DEF GateInv, On
<1>5. ASSUME NEW a, SignalAnswer(a) PROVE UNCHANGED <<gates, clear, deaths>>
  BY <1>5 DEF SignalAnswer, history
<1>6. SignSignal \/ SignalRefused => UNCHANGED <<gates, clear, deaths>>
  BY DEF SignSignal, SignalRefused, history
<1>7. ASSUME NEW st, SignalReturns(st) PROVE UNCHANGED <<gates, clear, deaths>>
  BY <1>7 DEF SignalReturns, history
<1>8. ASSUME NEW i, NEW st, SignalResolved(i, st) PROVE UNCHANGED <<gates, clear, deaths>>
  BY <1>8 DEF SignalResolved, history
<1>9. UNCHANGED signalVars => UNCHANGED <<gates, clear, deaths>>
  BY DEF signalVars, history
<1> QED BY <1>1, <1>2, <1>3, <1>4, <1>5, <1>6, <1>7, <1>8, <1>9 DEF SignalNext

\* The gates' counts hold from the start.
LEMMA GateInvHolds == SignalSpec => []GateInv
<1>1. SignalInit => GateInv
  BY DEF SignalInit, GateInv, GatesAtStart, NotYetClear, Whys, Ages, On
<1>2. GateInv /\ [SignalNext]_signalVars => GateInv'
  BY GateStepInv, SignalAssumption
<1> QED BY <1>1, <1>2, PTL DEF SignalSpec

\* A gate turns off in a tick only after this process itself saw it clear for the whole
\* dwell without a break (machine.ts).
THEOREM DwellIsServed == SignalSpec => DwellServed
<1>1. GateInv /\ [SignalNext]_signalVars =>
        [\A g \in Gate : On(g) /\ gates'[g].why = "off" /\ deaths' = deaths
           => ClearEnough(g, clear'[g])]_signalVars
  BY GateStepInv, SignalAssumption
<1> QED BY <1>1, GateInvHolds, PTL DEF SignalSpec, DwellServed

-----------------------------------------------------------------------------
(* The signals.                                                            *)

Statuses == {"pending", "sent", "confirmed", "failed", "declined", "not_sent"}
Row      == [to : State, signed : Ages, status : Statuses]

\* The newest signal is still to be sent: nothing else can land meanwhile, and what
\* was last announced is another state.
Unsent ==
  /\ signals[Latest].signed = Never /\ signals[Latest].status = "pending"
  /\ \A i \in DOMAIN signals : signals[i].status # "sent"
  /\ \A i \in Emitted : (\A j \in Emitted : j <= i) => signals[i].to # signals[Latest].to

\* One signal at a time: only the newest waits, runs or can still land, and while it
\* runs unsigned no tick moves the lane's state.
SignalInv ==
  /\ signals \in Seq(Row)
  /\ "id" \in DOMAIN asked /\ asked.id \in {0, Latest} /\ running \in {0, Latest}
  /\ running # 0 => asked.id = 0
  /\ asked.id # 0 => Unsent
  /\ running # 0 /\ signals[running].signed = Never => Unsent /\ watch.key = signals[running].to
  /\ \A i \in DOMAIN signals : signals[i].status = "sent" => i = Latest
  /\ SignalsDiffer

\* The rows of a sequence of signals, one by one.
LEMMA Rows ==
  ASSUME signals \in Seq(Row)
  PROVE  /\ Latest \in Nat /\ DOMAIN signals = 1..Latest
         /\ \A i \in 1..Latest : /\ signals[i] \in Row
                                 /\ signals[i].to \in State /\ signals[i].signed \in Ages
                                 /\ signals[i].status \in Statuses
<1>1. Latest \in Nat /\ DOMAIN signals = 1..Latest
  BY LenProperties DEF Latest
<1>2. \A i \in 1..Latest : signals[i] \in Row
  BY ElementOfSeq DEF Latest
<1> QED BY <1>1, <1>2 DEF Row

\* A new row leaves the others alone.
LEMMA RowAdded ==
  ASSUME signals \in Seq(Row), NEW key \in State, NEW st \in Statuses, NewSignal(key, st)
  PROVE  /\ signals' \in Seq(Row) /\ Latest' = Latest + 1 /\ Latest \in Nat
         /\ DOMAIN signals = 1..Latest /\ DOMAIN signals' = 1..(Latest + 1)
         /\ \A i \in 1..Latest : signals'[i] = signals[i]
         /\ signals'[Latest + 1].to = key /\ signals'[Latest + 1].status = st
         /\ signals'[Latest + 1].signed = Never
<1> DEFINE r == [to |-> key, status |-> st, signed |-> Never]
<1>1. r \in Row
  BY DEF Row, Ages
<1>2. signals' = Append(signals, r)
  BY DEF NewSignal
<1>4. r.to = key /\ r.status = st /\ r.signed = Never
  OBVIOUS
<1> HIDE DEF r
<1>3. /\ signals' \in Seq(Row) /\ Len(signals') = Len(signals) + 1
      /\ \A i \in 1..Len(signals) : signals'[i] = signals[i]
      /\ signals'[Len(signals) + 1] = r
  BY <1>1, <1>2, AppendProperties
<1>5. DOMAIN signals' = 1..Len(signals')
  BY <1>3, LenProperties
<1> QED BY <1>3, <1>4, <1>5, Rows DEF Latest

\* A changed row keeps its place, and the others theirs.
LEMMA RowChanged ==
  ASSUME signals \in Seq(Row), NEW i \in 1..Latest, NEW r \in Row,
         signals' = [signals EXCEPT ![i] = r]
  PROVE  /\ signals' \in Seq(Row) /\ Latest' = Latest /\ DOMAIN signals' = 1..Latest
         /\ signals'[i] = r
         /\ \A j \in 1..Latest : j # i => signals'[j] = signals[j]
<1>1. /\ signals' \in Seq(Row) /\ Len(signals') = Len(signals)
      /\ \A j \in 1..Len(signals) : signals'[j] = IF j = i THEN r ELSE signals[j]
  BY ExceptSeq DEF Latest
<1>2. DOMAIN signals' = 1..Len(signals')
  BY <1>1, LenProperties
<1> QED BY <1>1, <1>2 DEF Latest

\* What a change of one row's status does.
LEMMA StatusChanged ==
  ASSUME signals \in Seq(Row), NEW i \in 1..Latest, NEW st \in Statuses, Became(i, st)
  PROVE  /\ signals' \in Seq(Row) /\ Latest' = Latest /\ DOMAIN signals' = 1..Latest
         /\ DOMAIN signals = 1..Latest /\ Latest \in Nat
         /\ signals'[i].status = st
         /\ \A j \in 1..Latest : /\ signals'[j].to = signals[j].to
                                 /\ signals'[j].signed = signals[j].signed
                                 /\ j # i => signals'[j].status = signals[j].status
<1> DEFINE r == [signals[i] EXCEPT !.status = st]
<1>1. r \in Row /\ r.to = signals[i].to /\ r.signed = signals[i].signed /\ r.status = st
  BY Rows DEF Row
<1>2. signals' = [signals EXCEPT ![i] = r]
  BY DEF Became
<1> HIDE DEF r
<1>3. /\ signals' \in Seq(Row) /\ Latest' = Latest /\ DOMAIN signals' = 1..Latest
      /\ signals'[i] = r
      /\ \A j \in 1..Latest : j # i => signals'[j] = signals[j]
  BY <1>1, <1>2, RowChanged
<1> QED BY <1>1, <1>3, Rows

\* While what is emitted stays the same, consecutive signals still differ.
LEMMA EmittedKept ==
  ASSUME SignalsDiffer, Emitted' = Emitted,
         \A i \in Emitted : signals'[i].to = signals[i].to
  PROVE  SignalsDiffer'
  BY DEF SignalsDiffer

\* A state that is not on the chain is not the last one emitted.
LEMMA NotOnChain ==
  ASSUME signals \in Seq(Row), NEW key, ~OnChain(key),
         NEW i \in Emitted, \A j \in Emitted : j <= i
  PROVE  signals[i].to # key
<1>1. Emitted \subseteq Int
  BY Rows DEF Emitted
<1>2. LastEmitted \in Emitted /\ \A j \in Emitted : j <= LastEmitted
  BY DEF LastEmitted
<1>3. LastEmitted = i
  <2>1. i <= LastEmitted /\ LastEmitted <= i /\ i \in Int /\ LastEmitted \in Int
    BY <1>1, <1>2
  <2> HIDE DEF LastEmitted
  <2> QED BY <2>1
<1> QED BY <1>3 DEF OnChain

\* A row that was only planned announces nothing yet.
LEMMA PlannedNotEmitted ==
  ASSUME SignalInv, NEW key \in State, NEW st \in {"pending", "not_sent"}, NewSignal(key, st)
  PROVE  Emitted' = Emitted /\ SignalsDiffer'
<1>1. /\ Latest' = Latest + 1 /\ Latest \in Nat
      /\ DOMAIN signals = 1..Latest /\ DOMAIN signals' = 1..(Latest + 1)
      /\ \A i \in 1..Latest : signals'[i] = signals[i]
      /\ signals'[Latest + 1].status = st
  BY RowAdded DEF SignalInv, Statuses
<1>2. Emitted' = Emitted
  <2>1. Emitted' = {i \in 1..(Latest + 1) : signals'[i].status \in {"sent", "confirmed"}}
    BY <1>1 DEF Emitted
  <2>2. Emitted = {i \in 1..Latest : signals[i].status \in {"sent", "confirmed"}}
    BY <1>1 DEF Emitted
  <2> QED BY <1>1, <2>1, <2>2
<1>3. \A i \in Emitted : signals'[i].to = signals[i].to
  BY <1>1 DEF Emitted
<1> QED BY <1>2, <1>3, EmittedKept DEF SignalInv

\* Nor does a signal announce anything whose status changes without being sent.
LEMMA UnsentNotEmitted ==
  ASSUME SignalInv, NEW i \in 1..Latest, i = Latest, Unsent,
         NEW st \in {"declined", "not_sent"}, Became(i, st)
  PROVE  /\ signals' \in Seq(Row) /\ Latest' = Latest
         /\ \A j \in DOMAIN signals' : signals'[j].status # "sent"
         /\ SignalsDiffer'
<1>1. /\ signals' \in Seq(Row) /\ Latest' = Latest /\ DOMAIN signals' = 1..Latest
      /\ DOMAIN signals = 1..Latest /\ Latest \in Nat
      /\ signals'[i].status = st
      /\ \A j \in 1..Latest : /\ signals'[j].to = signals[j].to
                              /\ j # i => signals'[j].status = signals[j].status
  BY StatusChanged DEF SignalInv, Statuses
<1>2. \A j \in 1..Latest : signals'[j].status # "sent" /\ signals[j].status # "sent"
  BY <1>1 DEF Unsent
<1>3. Emitted' = Emitted
  <2>1. signals[i].status = "pending"
    BY DEF Unsent
  <2>2. Emitted' = {j \in 1..Latest : signals'[j].status \in {"sent", "confirmed"}}
    BY <1>1 DEF Emitted
  <2>3. Emitted = {j \in 1..Latest : signals[j].status \in {"sent", "confirmed"}}
    BY <1>1 DEF Emitted
  <2> QED BY <1>1, <2>1, <2>2, <2>3
<1>4. \A j \in Emitted : signals'[j].to = signals[j].to
  BY <1>1 DEF Emitted
<1> QED BY <1>1, <1>2, <1>3, <1>4, EmittedKept DEF SignalInv

\* The watch, as a process keeps it.
WatchTyped ==
  watch \in [key : State \cup {NoState}, age : Ages, settled : BOOLEAN,
             away : State \cup {NoState}, left : BOOLEAN]

\* What a tick watches is the state it sees.
LEMMA WatchesKey ==
  ASSUME WatchTyped, NEW key \in State, NEW settled \in BOOLEAN
  PROVE  /\ Watched(key, settled) \in [key : State, age : Ages, settled : BOOLEAN,
                                       away : State \cup {NoState}, left : BOOLEAN]
         /\ Watched(key, settled).key = key
  BY DEF WatchTyped, Watched, Ages

\* The state a tick sees, what it keeps watching, and what it may start.
LEMMA TickSees ==
  ASSUME WatchTyped, NEW trig \in SUBSET Gate, NEW regime \in Regime, NEW busy \in BOOLEAN,
         LaneTick(trig, regime, busy)
  PROVE  \E key \in State, settled \in BOOLEAN :
           LET w == Watched(key, settled)
           IN  /\ SignalPart(key, w, busy) /\ running = 0
               /\ w.key = key /\ watch'.key = key
               /\ IF Len(signals') > Latest
                  THEN watch' = [w EXCEPT !.left = FALSE] /\ elsewhere' = FALSE
                  ELSE watch' = w /\ elsewhere' = (elsewhere \/ LeavesHeld(key))
<1> DEFINE gs == [g \in Gate |-> GateStep(g, g \in trig)]
           key == StateIn(gs, regime)
           settled == SettledIn(gs)
<1>1. key \in State /\ settled \in BOOLEAN
  BY DEF StateIn, State, SettledIn
<1>2. /\ running = 0 /\ SignalPart(key, Watched(key, settled), busy)
      /\ IF Len(signals') > Latest
         THEN watch' = [Watched(key, settled) EXCEPT !.left = FALSE] /\ elsewhere' = FALSE
         ELSE watch' = Watched(key, settled) /\ elsewhere' = (elsewhere \/ LeavesHeld(key))
  BY DEF LaneTick
<1> HIDE DEF key, settled
<1>3. /\ Watched(key, settled) \in [key : State, age : Ages, settled : BOOLEAN,
                                    away : State \cup {NoState}, left : BOOLEAN]
      /\ Watched(key, settled).key = key
  BY <1>1, WatchesKey
<1>4. watch'.key = key
  BY <1>2, <1>3
<1> QED BY <1>1, <1>2, <1>3, <1>4

\* A step that leaves the signals alone leaves all that is said of them alone.
LEMMA SignalsKept ==
  ASSUME signals' = signals
  PROVE  Latest' = Latest /\ (Unsent <=> Unsent') /\ (SignalsDiffer <=> SignalsDiffer')
<1>1. Latest' = Latest /\ Emitted' = Emitted
  BY DEF Latest, Emitted
<1> QED BY <1>1 DEF Unsent, SignalsDiffer

\* A tick plans, asks, starts or gives up one signal at most.
LEMMA TickKeepsSignals ==
  ASSUME SignalInv, WatchTyped, NEW key \in State, NEW w, NEW busy \in BOOLEAN,
         SignalPart(key, w, busy), running = 0, watch'.key = key
  PROVE  SignalInv'
<1>0. /\ Latest \in Nat /\ DOMAIN signals = 1..Latest /\ asked.id \in {0, Latest}
      /\ asked.id # 0 => asked.id \in 1..Latest /\ asked.id = Latest
  BY Rows DEF SignalInv
<1>1. ASSUME UNCHANGED <<signals, answering, holdOff>>
      PROVE  SignalInv'
  <2>1. signals' = signals /\ asked' = asked /\ running' = 0
    BY <1>1 DEF answering
  <2> QED BY <2>1, SignalsKept DEF SignalInv
<1>2. ASSUME asked.id = 0, Announce(key, w), PlanSignal(key)
      PROVE  SignalInv'
  <2>1. PICK st \in {"pending", "not_sent"} :
          /\ NewSignal(key, st)
          /\ \/ asked' = asked /\ running' = 0
             \/ st = "pending" /\ asked' = asked /\ running' = Latest + 1
             \/ st = "pending" /\ asked' = [id |-> Latest + 1, answer |-> "none"] /\ running' = 0
    <3>1. CASE NewSignal(key, "not_sent") /\ HoldOff /\ UNCHANGED answering
      BY <3>1 DEF answering
    <3>2. CASE NewSignal(key, "pending") /\ running' = Latest + 1 /\ UNCHANGED <<holdOff, asked>>
      BY <3>2
    <3>3. CASE /\ NewSignal(key, "pending") /\ asked' = [id |-> Latest + 1, answer |-> "none"]
               /\ UNCHANGED <<holdOff, running>>
      BY <3>3
    <3> QED BY <1>2, <3>1, <3>2, <3>3 DEF PlanSignal
  <2>2. /\ signals' \in Seq(Row) /\ Latest' = Latest + 1 /\ Latest \in Nat
        /\ DOMAIN signals' = 1..(Latest + 1)
        /\ \A i \in 1..Latest : signals'[i] = signals[i]
        /\ signals'[Latest + 1].to = key /\ signals'[Latest + 1].status = st
        /\ signals'[Latest + 1].signed = Never
    BY <2>1, RowAdded DEF SignalInv, Statuses
  <2>3. Emitted' = Emitted /\ SignalsDiffer'
    BY <2>1, PlannedNotEmitted
  <2>4. /\ \A i \in DOMAIN signals : signals[i].status # "sent"
        /\ ~OnChain(key)
    BY <1>2 DEF Announce
  <2>5. \A i \in DOMAIN signals' : signals'[i].status # "sent"
    BY <1>0, <2>2, <2>4
  <2>6. ASSUME NEW i \in Emitted, \A j \in Emitted : j <= i
        PROVE  signals'[i].to # key
    <3>1. signals[i].to # key
      BY <2>4, <2>6, NotOnChain DEF SignalInv
    <3>2. i \in 1..Latest
      BY <1>0 DEF Emitted
    <3> QED BY <2>2, <3>1, <3>2
  <2>7. st = "pending" => Unsent'
    BY <2>2, <2>3, <2>5, <2>6 DEF Unsent
  <2>8. /\ "id" \in DOMAIN asked' /\ asked'.id \in {0, Latest'} /\ running' \in {0, Latest'}
        /\ running' # 0 => asked'.id = 0 /\ st = "pending"
        /\ asked'.id # 0 => st = "pending"
        /\ running' # 0 => running' = Latest + 1
    BY <1>2, <2>1, <2>2 DEF SignalInv
  <2> QED BY <2>2, <2>3, <2>5, <2>7, <2>8 DEF SignalInv
<1>3. ASSUME NEW st \in {"declined", "not_sent"}, asked.id # 0,
             asked' = NoAsk, Became(asked.id, st), UNCHANGED running
      PROVE  SignalInv'
  <2>1. Unsent /\ asked.id \in 1..Latest /\ asked.id = Latest
    BY <1>0, <1>3 DEF SignalInv
  <2>2. /\ signals' \in Seq(Row) /\ Latest' = Latest
        /\ \A j \in DOMAIN signals' : signals'[j].status # "sent"
        /\ SignalsDiffer'
    BY <1>3, <2>1, UnsentNotEmitted
  <2>3. "id" \in DOMAIN asked' /\ asked'.id = 0 /\ running' = 0
    BY <1>3 DEF NoAsk
  <2> QED BY <2>2, <2>3 DEF SignalInv
<1>4. ASSUME asked.id # 0, Settled(asked.id, key)
      PROVE  SignalInv'
  <2>1. CASE /\ asked.answer = "approved" /\ signals[asked.id].to = key
             /\ running' = asked.id /\ UNCHANGED <<signals, holdOff>>
    <3>1. /\ "id" \in DOMAIN asked' /\ asked'.id = 0
          /\ running' = Latest /\ signals' = signals
      BY <1>0, <1>4, <2>1 DEF Settled, NoAsk
    <3>2. Unsent /\ watch'.key = signals[Latest].to
      BY <1>0, <1>4, <2>1 DEF SignalInv
    <3> QED BY <3>1, <3>2, SignalsKept DEF SignalInv
  <2>2. CASE /\ Became(asked.id, IF asked.answer = "denied" THEN "declined" ELSE "not_sent")
             /\ HoldOff /\ UNCHANGED running
    <3> DEFINE st == IF asked.answer = "denied" THEN "declined" ELSE "not_sent"
    <3>1. st \in {"declined", "not_sent"}
      OBVIOUS
    <3>2. Became(asked.id, st) /\ UNCHANGED running /\ asked' = NoAsk
      BY <1>4, <2>2 DEF Settled
    <3> HIDE DEF st
    <3> QED BY <1>3, <1>4, <3>1, <3>2
  <2> QED BY <1>4, <2>1, <2>2 DEF Settled
<1> QED BY <1>1, <1>2, <1>3, <1>4 DEF SignalPart

\* Signing sends the newest; nothing else was sent, so what it follows is another state.
LEMMA SignKeepsSignals ==
  ASSUME SignalInv, SignSignal
  PROVE  SignalInv'
<1>1. /\ running # 0 /\ running = Latest /\ signals[running].signed = Never /\ Unsent
      /\ asked' = asked /\ running' = running /\ asked.id = 0
  BY DEF SignalInv, SignSignal, answering
<1>2. Latest \in Nat /\ DOMAIN signals = 1..Latest /\ running \in 1..Latest
  BY <1>1, Rows DEF SignalInv
<1> DEFINE r == [signals[running] EXCEPT !.signed = 0, !.status = "sent"]
<1>3. r \in Row /\ r.to = signals[running].to /\ r.status = "sent" /\ r.signed = 0
  <2>1. signals[running] \in Row
    BY <1>2, Rows DEF SignalInv
  <2> QED BY <2>1 DEF Row, Ages, Statuses
<1>4. signals' = [signals EXCEPT ![running] = r]
  BY DEF SignSignal
<1> HIDE DEF r
<1>5. /\ signals' \in Seq(Row) /\ Latest' = Latest /\ DOMAIN signals' = 1..Latest
      /\ signals'[running] = r
      /\ \A j \in 1..Latest : j # running => signals'[j] = signals[j]
  BY <1>2, <1>3, <1>4, RowChanged DEF SignalInv
<1>6. \A j \in 1..Latest : signals'[j].to = signals[j].to
  BY <1>3, <1>5
<1>7. Emitted' = Emitted \cup {Latest}
  <2>1. Emitted' = {j \in 1..Latest : signals'[j].status \in {"sent", "confirmed"}}
    BY <1>5 DEF Emitted
  <2>2. Emitted = {j \in 1..Latest : signals[j].status \in {"sent", "confirmed"}}
    BY <1>2 DEF Emitted
  <2> QED BY <1>1, <1>2, <1>3, <1>5, <2>1, <2>2
<1>8. SignalsDiffer'
  <2>1. ASSUME NEW i \in Emitted', NEW j \in Emitted', i < j,
               \A k \in Emitted' : ~(i < k /\ k < j)
        PROVE  signals'[i].to # signals'[j].to
    <3>1. Emitted \subseteq 1..Latest
      BY <1>2 DEF Emitted
    <3>2. i \in 1..Latest /\ j \in 1..Latest
      BY <1>2, <1>7, <2>1, <3>1
    <3>3. i # Latest
      BY <1>2, <2>1, <3>2
    <3>4. CASE j = Latest
      <4>1. i \in Emitted /\ \A k \in Emitted : k <= i
        <5>1. i \in Emitted
          BY <1>7, <3>3
        <5>2. signals[Latest].status = "pending"
          BY <1>1 DEF Unsent
        <5>3. Latest \notin Emitted
          BY <5>2 DEF Emitted
        <5>4. ASSUME NEW k \in Emitted PROVE k <= i
          <6>1. k \in 1..Latest /\ k # Latest /\ k \in Emitted'
            BY <1>7, <3>1, <5>3, <5>4
          <6>2. ~(i < k /\ k < Latest)
            BY <2>1, <3>4, <6>1
          <6> QED BY <1>2, <3>2, <6>1, <6>2
        <5> QED BY <5>1, <5>4
      <4>2. signals[i].to # signals[Latest].to
        BY <1>1, <4>1 DEF Unsent
      <4> QED BY <1>6, <3>2, <3>4, <4>2
    <3>5. CASE j # Latest
      <4>1. i \in Emitted /\ j \in Emitted /\ \A k \in Emitted : ~(i < k /\ k < j)
        BY <1>7, <2>1, <3>3, <3>5
      <4>2. signals[i].to # signals[j].to
        BY <2>1, <4>1 DEF SignalInv, SignalsDiffer
      <4> QED BY <1>6, <3>2, <4>2
    <3> QED BY <3>4, <3>5
  <2> QED BY <2>1 DEF SignalsDiffer
<1>9. \A i \in DOMAIN signals' : signals'[i].status = "sent" => i = Latest
  BY <1>1, <1>2, <1>5 DEF Unsent
<1>10. signals'[running].signed # Never
  BY <1>3, <1>5 DEF Never
<1> QED BY <1>1, <1>5, <1>8, <1>9, <1>10 DEF SignalInv

\* One in flight that settles is the newest, so leaving the chain it uncovers no pair.
LEMMA SettleKeepsSignals ==
  ASSUME SignalInv, NEW i \in 1..Latest, signals[i].status = "sent",
         NEW st \in {"sent", "confirmed", "failed", "not_sent"}, Became(i, st),
         asked' = asked, running' \in {0, running}
  PROVE  SignalInv'
<1>1. /\ signals' \in Seq(Row) /\ Latest' = Latest /\ DOMAIN signals' = 1..Latest
      /\ DOMAIN signals = 1..Latest /\ Latest \in Nat
      /\ signals'[i].status = st
      /\ \A j \in 1..Latest : /\ signals'[j].to = signals[j].to
                              /\ signals'[j].signed = signals[j].signed
                              /\ j # i => signals'[j].status = signals[j].status
  BY StatusChanged DEF SignalInv, Statuses
<1>2. i = Latest
  BY <1>1 DEF SignalInv
<1>3. ~Unsent
  BY <1>1 DEF Unsent
<1>4. asked.id = 0 /\ (running # 0 => signals[running].signed # Never)
  BY <1>3 DEF SignalInv
<1>5. running \in {0, Latest}
  BY DEF SignalInv
<1>6. \A j \in 1..Latest : signals'[j].status = "sent" => j = Latest
  BY <1>1, <1>2 DEF SignalInv
<1>7. running' # 0 => signals'[running'].signed # Never
  BY <1>1, <1>2, <1>4, <1>5
<1>8. SignalsDiffer'
  <2>1. Emitted' = {j \in 1..Latest : signals'[j].status \in {"sent", "confirmed"}}
    BY <1>1 DEF Emitted
  <2>2. Emitted = {j \in 1..Latest : signals[j].status \in {"sent", "confirmed"}}
    BY <1>1 DEF Emitted
  <2>3. Emitted' \in {Emitted, Emitted \ {Latest}}
    BY <1>1, <1>2, <2>1, <2>2
  <2>4. ASSUME NEW m \in Emitted', NEW n \in Emitted', m < n,
               \A k \in Emitted' : ~(m < k /\ k < n)
        PROVE  signals'[m].to # signals'[n].to
    <3>1. m \in Emitted /\ n \in Emitted /\ m \in 1..Latest /\ n \in 1..Latest
      BY <2>1, <2>2, <2>3, <2>4
    <3>2. ASSUME NEW k \in Emitted PROVE ~(m < k /\ k < n)
      <4>1. k \in Emitted' \/ k = Latest
        BY <2>3
      <4>2. ~(Latest < n)
        BY <1>1, <3>1
      <4> QED BY <2>4, <4>1, <4>2
    <3>3. signals[m].to # signals[n].to
      BY <2>4, <3>1, <3>2 DEF SignalInv, SignalsDiffer
    <3> QED BY <1>1, <3>1, <3>3
  <2> QED BY <2>4 DEF SignalsDiffer
<1> QED BY <1>1, <1>4, <1>5, <1>6, <1>7, <1>8 DEF SignalInv

\* An age that counts stays one that counts.
LEMMA OlderAge ==
  ASSUME NEW a \in Ages, NEW bound \in Nat
  PROVE  Older(a, bound) \in Ages /\ (Older(a, bound) = Never <=> a = Never)
  BY DEF Older, Upto, Ages, Never

\* Two sequences over the same indices are as long.
LEMMA SameLength ==
  ASSUME NEW m \in Nat, NEW n \in Nat, 1..m = 1..n
  PROVE  m = n
<1>1. (m > 0 => m \in 1..n) /\ (n > 0 => n \in 1..m)
  OBVIOUS
<1> QED BY <1>1

\* Time changes only ages, and makes none of a signal that was not signed.
LEMMA TimeKeepsSignals ==
  ASSUME SignalAssumption, SignalInv, WatchTyped, SignalTime
  PROVE  /\ SignalInv' /\ WatchTyped' /\ Latest' = Latest
         /\ watch'.left = watch.left /\ watch'.away = watch.away
         /\ \A i \in DOMAIN signals : /\ signals'[i].to = signals[i].to
                                      /\ signals[i].signed = Never => signals'[i].signed = Never
<1>1. SignalHour + 1 \in Nat /\ MinDwell \in Nat
  BY DEF SignalAssumption
<1>2. Latest \in Nat /\ DOMAIN signals = 1..Latest
  BY Rows DEF SignalInv
<1>3. signals' = [i \in 1..Latest |->
                    [signals[i] EXCEPT !.signed = Older(signals[i].signed, SignalHour + 1)]]
  BY <1>2 DEF SignalTime
<1>4. ASSUME NEW i \in 1..Latest
      PROVE  /\ signals'[i] \in Row /\ signals'[i].to = signals[i].to
             /\ signals'[i].status = signals[i].status
             /\ signals'[i].signed = Never <=> signals[i].signed = Never
  <2>1. signals[i] \in Row /\ signals[i].signed \in Ages
    BY Rows DEF SignalInv
  <2> DEFINE old == Older(signals[i].signed, SignalHour + 1)
  <2>2. old \in Ages /\ (old = Never <=> signals[i].signed = Never)
    BY <1>1, <2>1, OlderAge
  <2>3. signals'[i] = [signals[i] EXCEPT !.signed = old]
    BY <1>3
  <2> HIDE DEF old
  <2> QED BY <2>1, <2>2, <2>3 DEF Row
<1>5. signals' \in Seq(Row) /\ Latest' = Latest /\ DOMAIN signals' = 1..Latest
  <2>1. signals' \in [1..Latest -> Row]
    BY <1>3, <1>4
  <2>2. signals' \in Seq(Row)
    BY <1>2, <2>1, SeqDef
  <2>3. Len(signals') \in Nat /\ DOMAIN signals' = 1..Len(signals')
    BY <2>2, LenProperties
  <2>4. 1..Len(signals') = 1..Latest
    BY <2>1, <2>3
  <2>5. Len(signals') = Latest
    BY <1>2, <2>3, <2>4, SameLength
  <2> QED BY <2>1, <2>2, <2>5 DEF Latest
<1>6. Emitted' = Emitted
  BY <1>2, <1>4, <1>5 DEF Emitted
<1>7. SignalsDiffer'
  <2>1. \A i \in Emitted : signals'[i].to = signals[i].to
    BY <1>2, <1>4 DEF Emitted
  <2> QED BY <1>6, <2>1, EmittedKept DEF SignalInv
<1>8. Latest # 0 /\ Unsent => Unsent'
  <2> SUFFICES ASSUME Latest # 0, Unsent PROVE Unsent'
    OBVIOUS
  <2>1. Latest \in 1..Latest
    BY <1>2
  <2>2. \A i \in Emitted : signals'[i].to = signals[i].to
    BY <1>2, <1>4 DEF Emitted
  <2> QED BY <1>2, <1>4, <1>5, <1>6, <2>1, <2>2 DEF Unsent
<1>9. /\ watch' \in [key : State \cup {NoState}, age : Ages, settled : BOOLEAN,
                     away : State \cup {NoState}, left : BOOLEAN]
      /\ watch'.key = watch.key /\ watch'.left = watch.left /\ watch'.away = watch.away
  <2>1. watch.age \in Ages
    BY DEF WatchTyped
  <2> DEFINE old == Older(watch.age, MinDwell)
  <2>2. old \in Ages
    BY <1>1, <2>1, OlderAge
  <2>3. watch' = IF watch = NoWatch THEN watch ELSE [watch EXCEPT !.age = old]
    BY DEF SignalTime
  <2> HIDE DEF old
  <2> QED BY <2>2, <2>3 DEF WatchTyped
<1>10. asked' = asked /\ running' = running
  BY DEF SignalTime, answering
<1>11. SignalInv'
  <2>1. running # 0 /\ signals'[running].signed = Never =>
          Unsent' /\ watch'.key = signals'[running].to
    <3> SUFFICES ASSUME running # 0, signals'[running].signed = Never
                 PROVE  Unsent' /\ watch'.key = signals'[running].to
      OBVIOUS
    <3>1. running = Latest /\ running \in 1..Latest
      BY <1>2 DEF SignalInv
    <3>2. Unsent /\ watch.key = signals[running].to
      BY <1>4, <3>1 DEF SignalInv
    <3> QED BY <1>4, <1>8, <1>9, <3>1, <3>2
  <2>2. asked.id # 0 => Unsent'
    BY <1>8 DEF SignalInv
  <2>3. \A i \in DOMAIN signals' : signals'[i].status = "sent" => i = Latest
    BY <1>2, <1>4, <1>5 DEF SignalInv
  <2> QED BY <1>5, <1>7, <1>10, <2>1, <2>2, <2>3 DEF SignalInv
<1> QED BY <1>2, <1>4, <1>5, <1>9, <1>11 DEF WatchTyped

\* Has the lane been elsewhere since the newest signal was planned, as the watch tells
\* it, then this process saw it leave a state it had held there.
WatchInv ==
  /\ WatchTyped
  /\ Latest > 0 /\ watch.left /\ watch.away \notin {NoState, signals[Latest].to} => elsewhere

\* What a tick leaves, the watch remembers until the next signal is planned.
LEMMA TickKeepsWatch ==
  ASSUME SignalInv, WatchInv, NEW key \in State, NEW settled \in BOOLEAN, NEW busy \in BOOLEAN,
         SignalPart(key, Watched(key, settled), busy), running = 0,
         IF Len(signals') > Latest
         THEN watch' = [Watched(key, settled) EXCEPT !.left = FALSE] /\ elsewhere' = FALSE
         ELSE watch' = Watched(key, settled) /\ elsewhere' = (elsewhere \/ LeavesHeld(key)),
         Latest' \in Nat, Latest \in Nat, Latest' >= Latest,
         \A i \in 1..Latest : signals'[i].to = signals[i].to
  PROVE  WatchInv'
<1> DEFINE w == Watched(key, settled)
<1>1. w \in [key : State, age : Ages, settled : BOOLEAN,
             away : State \cup {NoState}, left : BOOLEAN]
  BY WatchesKey DEF WatchInv
<1>2. watch \in [key : State \cup {NoState}, age : Ages, settled : BOOLEAN,
                 away : State \cup {NoState}, left : BOOLEAN]
  BY DEF WatchInv, WatchTyped
<1>3. Len(signals') = Latest'
  BY DEF Latest
<1>4. ASSUME Latest > 0, w.left, w.away \notin {NoState, signals[Latest].to}
      PROVE  elsewhere \/ LeavesHeld(key)
  <2>1. CASE watch.key = key
    <3>1. w.left = watch.left /\ w.away = watch.away
      BY <1>2, <2>1 DEF Watched
    <3> QED BY <1>4, <3>1 DEF WatchInv
  <2>2. CASE watch.key # key /\ watch.settled /\ watch.age >= MinDwell
    <3>1. w.away = watch.key
      BY <2>2 DEF Watched
    <3> QED BY <1>4, <2>2, <3>1 DEF LeavesHeld
  <2>3. CASE watch.key # key /\ ~(watch.settled /\ watch.age >= MinDwell)
    <3>1. w.left = watch.left /\ w.away = watch.away
      BY <1>2, <2>3 DEF Watched
    <3> QED BY <1>4, <3>1 DEF WatchInv
  <2> QED BY <2>1, <2>2, <2>3
<1> HIDE DEF w
<1>5. CASE Latest' > Latest
  <2>1. watch' = [w EXCEPT !.left = FALSE]
    BY <1>3, <1>5 DEF w
  <2>2. watch' \in [key : State \cup {NoState}, age : Ages, settled : BOOLEAN,
                    away : State \cup {NoState}, left : BOOLEAN] /\ ~watch'.left
    BY <1>1, <2>1
  <2> QED BY <2>2 DEF WatchInv, WatchTyped
<1>6. CASE ~(Latest' > Latest)
  <2>1. watch' = w /\ elsewhere' = (elsewhere \/ LeavesHeld(key)) /\ Latest' = Latest
    BY <1>3, <1>6 DEF w
  <2>2. watch' \in [key : State \cup {NoState}, age : Ages, settled : BOOLEAN,
                    away : State \cup {NoState}, left : BOOLEAN]
    BY <1>1, <2>1
  <2>3. Latest > 0 => signals'[Latest].to = signals[Latest].to
    OBVIOUS
  <2> QED BY <1>4, <2>1, <2>2, <2>3 DEF WatchInv, WatchTyped
<1> QED BY <1>5, <1>6

\* An owner that declined, or a signal that was signed in vain, is followed by one of the
\* same state only if the lane has been elsewhere.
LEMMA TickAsksOnce ==
  ASSUME SignalInv, WatchInv, NEW key \in State, NEW settled \in BOOLEAN,
         Announce(key, Watched(key, settled)), Latest > 0,
         signals[Latest].status \in {"declined", "failed"}, key = signals[Latest].to
  PROVE  elsewhere \/ LeavesHeld(key)
<1> DEFINE w == Watched(key, settled)
<1>1. w.left /\ w.away \notin {NoState, key}
  BY DEF Announce, AskAgain
<1>2. watch \in [key : State \cup {NoState}, age : Ages, settled : BOOLEAN,
                 away : State \cup {NoState}, left : BOOLEAN]
  BY DEF WatchInv, WatchTyped
<1>3. CASE watch.key = key
  <2>1. w.left = watch.left /\ w.away = watch.away
    BY <1>2, <1>3 DEF Watched
  <2> QED BY <1>1, <2>1 DEF WatchInv
<1>4. CASE watch.key # key /\ watch.settled /\ watch.age >= MinDwell
  <2>1. w.away = watch.key
    BY <1>4 DEF Watched
  <2> QED BY <1>1, <1>4, <2>1 DEF LeavesHeld
<1>5. CASE watch.key # key /\ ~(watch.settled /\ watch.age >= MinDwell)
  <2>1. w.left = watch.left /\ w.away = watch.away
    BY <1>2, <1>5 DEF Watched
  <2> QED BY <1>1, <2>1 DEF WatchInv
<1> QED BY <1>3, <1>4, <1>5

\* What a tick does to the rows: it signs none, moves none, and adds one at most, of a
\* state it may announce.
LEMMA TickRows ==
  ASSUME SignalInv, NEW key \in State, NEW w, NEW busy \in BOOLEAN, SignalPart(key, w, busy)
  PROVE  /\ Latest \in Nat /\ Latest' \in {Latest, Latest + 1} /\ DOMAIN signals = 1..Latest
         /\ \A i \in 1..Latest : /\ signals'[i].to = signals[i].to
                                 /\ signals'[i].signed = signals[i].signed
         /\ DOMAIN signals' = 1..Latest'
         /\ Len(signals') > Latest => /\ Announce(key, w) /\ signals'[Latest + 1].to = key
                                      /\ signals'[Latest + 1].signed = Never
<1>0. /\ Latest \in Nat /\ DOMAIN signals = 1..Latest
      /\ asked.id # 0 => asked.id \in 1..Latest
  BY Rows DEF SignalInv
<1>1. CASE signals' = signals
  BY <1>0, <1>1 DEF Latest
<1>2. ASSUME NEW st \in {"pending", "not_sent"}, NewSignal(key, st), Announce(key, w)
      PROVE  /\ Latest' = Latest + 1 /\ signals'[Latest + 1].to = key /\ Announce(key, w)
             /\ signals'[Latest + 1].signed = Never /\ DOMAIN signals' = 1..Latest'
             /\ \A i \in 1..Latest : /\ signals'[i].to = signals[i].to
                                     /\ signals'[i].signed = signals[i].signed
  <2>1. /\ Latest' = Latest + 1 /\ signals'[Latest + 1].to = key
        /\ signals'[Latest + 1].signed = Never /\ DOMAIN signals' = 1..(Latest + 1)
        /\ \A i \in 1..Latest : signals'[i] = signals[i]
    BY <1>2, RowAdded DEF SignalInv, Statuses
  <2> QED BY <1>2, <2>1
<1>3. ASSUME NEW st \in {"declined", "not_sent"}, asked.id # 0, Became(asked.id, st)
      PROVE  /\ Latest' = Latest /\ DOMAIN signals' = 1..Latest'
             /\ \A i \in 1..Latest : /\ signals'[i].to = signals[i].to
                                     /\ signals'[i].signed = signals[i].signed
  BY <1>0, <1>3, StatusChanged DEF SignalInv, Statuses
<1>4. \/ signals' = signals
      \/ Announce(key, w) /\ \E st \in {"pending", "not_sent"} : NewSignal(key, st)
      \/ asked.id # 0 /\ \E st \in {"declined", "not_sent"} : Became(asked.id, st)
  BY DEF SignalPart, PlanSignal, Settled
<1>5. Len(signals') = Latest'
  BY DEF Latest
<1> QED BY <1>0, <1>1, <1>2, <1>3, <1>4, <1>5

\* What signals may be, whatever happens.
SignalsInv == SignalInv /\ WatchInv

\* A step keeps what signals may be; it signs only the lane's state, and asks an owner
\* again only about a lane that has been elsewhere.
LEMMA SignalStep ==
  ASSUME SignalAssumption, SignalsInv, [SignalNext]_signalVars
  PROVE  /\ SignalsInv'
         /\ \A i \in DOMAIN signals : signals[i].signed = Never /\ signals'[i].signed # Never =>
              watch.key = signals[i].to
         /\ Len(signals') > Latest /\ signals # <<>>
              /\ signals[Latest].status \in {"declined", "failed"}
              /\ signals'[Latest + 1].to = signals[Latest].to
            => elsewhere \/ LeavesHeld(signals[Latest].to)
<1> DEFINE SignsCurrent ==
             \A i \in DOMAIN signals : signals[i].signed = Never /\ signals'[i].signed # Never =>
               watch.key = signals[i].to
           AsksOnce ==
             Len(signals') > Latest /\ signals # <<>>
               /\ signals[Latest].status \in {"declined", "failed"}
               /\ signals'[Latest + 1].to = signals[Latest].to
             => elsewhere \/ LeavesHeld(signals[Latest].to)
           Watches == UNCHANGED <<watch, elsewhere>>
<1>0. SignalInv /\ WatchInv /\ WatchTyped /\ Latest \in Nat /\ DOMAIN signals = 1..Latest
  BY Rows DEF SignalsInv, WatchInv, SignalInv
<1>a. ASSUME Latest' = Latest PROVE AsksOnce
  BY <1>0, <1>a DEF Latest
<1>b. ASSUME Latest' = Latest, Watches, \A i \in 1..Latest : signals'[i].to = signals[i].to
      PROVE  WatchInv'
  <2>1. Latest > 0 => signals'[Latest].to = signals[Latest].to
    BY <1>0, <1>b
  <2> QED BY <1>0, <1>b, <2>1 DEF WatchInv, WatchTyped
<1>1. ASSUME NEW trig \in SUBSET Gate, NEW regime \in Regime, NEW busy \in BOOLEAN,
             LaneTick(trig, regime, busy)
      PROVE  SignalsInv' /\ SignsCurrent /\ AsksOnce
  <2>1. PICK key \in State, settled \in BOOLEAN :
          /\ SignalPart(key, Watched(key, settled), busy) /\ running = 0
          /\ Watched(key, settled).key = key /\ watch'.key = key
          /\ IF Len(signals') > Latest
             THEN watch' = [Watched(key, settled) EXCEPT !.left = FALSE] /\ elsewhere' = FALSE
             ELSE watch' = Watched(key, settled) /\ elsewhere' = (elsewhere \/ LeavesHeld(key))
    BY <1>0, <1>1, TickSees
  <2>2. SignalInv'
    BY <1>0, <2>1, TickKeepsSignals
  <2>3. /\ Latest' \in {Latest, Latest + 1}
        /\ \A i \in 1..Latest : /\ signals'[i].to = signals[i].to
                                /\ signals'[i].signed = signals[i].signed
        /\ Len(signals') > Latest =>
             Announce(key, Watched(key, settled)) /\ signals'[Latest + 1].to = key
    BY <1>0, <2>1, TickRows
  <2>4. WatchInv'
    <3>1. Latest' \in Nat /\ Latest' >= Latest
      BY <1>0, <2>3
    <3> QED BY <1>0, <2>1, <2>3, <3>1, TickKeepsWatch
  <2>5. SignsCurrent
    BY <1>0, <2>3
  <2>6. AsksOnce
    <3> SUFFICES ASSUME Len(signals') > Latest, signals # <<>>,
                        signals[Latest].status \in {"declined", "failed"},
                        signals'[Latest + 1].to = signals[Latest].to
                 PROVE  elsewhere \/ LeavesHeld(signals[Latest].to)
      OBVIOUS
    <3>1. Latest > 0
      BY <1>0, EmptySeq DEF SignalInv, Latest
    <3>2. Announce(key, Watched(key, settled)) /\ key = signals[Latest].to
      BY <2>3
    <3>3. elsewhere \/ LeavesHeld(key)
      BY <1>0, <3>1, <3>2, TickAsksOnce
    <3> QED BY <3>2, <3>3
  <2> QED BY <2>2, <2>4, <2>5, <2>6 DEF SignalsInv
<1>2. ASSUME NEW a, SignalAnswer(a)
      PROVE  SignalsInv' /\ SignsCurrent /\ AsksOnce
  <2>1. /\ signals' = signals /\ running' = running /\ Watches
        /\ asked' = [asked EXCEPT !.answer = a]
    BY <1>2 DEF SignalAnswer, history
  <2>2. asked'.id = asked.id /\ "id" \in DOMAIN asked'
    BY <1>0, <2>1 DEF SignalInv
  <2> QED BY <1>0, <1>a, <1>b, <2>1, <2>2, SignalsKept DEF SignalsInv, SignalInv
<1>3. CASE SignSignal
  <2>1. SignalInv'
    BY <1>0, <1>3, SignKeepsSignals
  <2>2. Watches /\ running = Latest /\ running # 0 /\ watch.key = signals[running].to
    BY <1>0, <1>3 DEF SignSignal, history, SignalInv
  <2>3. signals' = [signals EXCEPT ![running].signed = 0, ![running].status = "sent"]
    BY <1>3 DEF SignSignal
  <2>4. /\ Latest' = Latest
        /\ \A i \in 1..Latest : /\ signals'[i].to = signals[i].to
                                /\ i # running => signals'[i] = signals[i]
    <3>1. running \in 1..Latest /\ signals[running] \in Row
      BY <1>0, <2>2, Rows DEF SignalInv
    <3> DEFINE r == [signals[running] EXCEPT !.signed = 0, !.status = "sent"]
    <3>2. r \in Row /\ r.to = signals[running].to
      BY <3>1 DEF Row, Ages, Statuses
    <3>3. signals' = [signals EXCEPT ![running] = r]
      BY <2>3
    <3> HIDE DEF r
    <3> QED BY <1>0, <3>1, <3>2, <3>3, RowChanged DEF SignalInv
  <2>5. SignsCurrent
    BY <1>0, <2>2, <2>4
  <2> QED BY <1>a, <1>b, <2>1, <2>2, <2>4, <2>5 DEF SignalsInv
<1>4. CASE SignalRefused
  <2>1. /\ running = Latest /\ running \in 1..Latest /\ Unsent /\ asked.id = 0
        /\ Became(running, "not_sent") /\ running' = 0 /\ asked' = asked /\ Watches
    BY <1>0, <1>4 DEF SignalRefused, SignalInv, history
  <2>2. /\ signals' \in Seq(Row) /\ Latest' = Latest
        /\ \A j \in DOMAIN signals' : signals'[j].status # "sent"
        /\ SignalsDiffer'
    BY <1>0, <2>1, UnsentNotEmitted
  <2>3. \A j \in 1..Latest : /\ signals'[j].to = signals[j].to
                             /\ signals'[j].signed = signals[j].signed
    BY <1>0, <2>1, StatusChanged DEF SignalInv, Statuses
  <2>4. SignalInv'
    BY <1>0, <2>1, <2>2 DEF SignalInv
  <2> QED BY <1>0, <1>a, <1>b, <2>1, <2>2, <2>3, <2>4 DEF SignalsInv
<1>5. ASSUME NEW i \in 1..Latest, signals[i].status = "sent",
             NEW st \in {"sent", "confirmed", "failed", "not_sent"}, Became(i, st),
             asked' = asked, running' \in {0, running}, Watches
      PROVE  SignalsInv' /\ SignsCurrent /\ AsksOnce
  <2>1. SignalInv'
    BY <1>0, <1>5, SettleKeepsSignals
  <2>2. Latest' = Latest /\ \A j \in 1..Latest : /\ signals'[j].to = signals[j].to
                                                 /\ signals'[j].signed = signals[j].signed
    BY <1>0, <1>5, StatusChanged DEF SignalInv, Statuses
  <2> QED BY <1>0, <1>5, <1>a, <1>b, <2>1, <2>2 DEF SignalsInv
<1>6. ASSUME NEW st \in {"sent", "confirmed", "failed", "not_sent"}, SignalReturns(st)
      PROVE  SignalsInv' /\ SignsCurrent /\ AsksOnce
  <2>1. /\ running # 0 /\ running = Latest /\ running \in 1..Latest /\ asked.id = 0
        /\ running' = 0 /\ asked' = asked /\ Watches
    BY <1>0, <1>6 DEF SignalReturns, SignalInv, history
  <2>2. CASE signals[running].status = "sent" /\ Became(running, st)
    BY <1>5, <2>1, <2>2
  <2>3. CASE signals' = signals
    BY <1>0, <1>a, <1>b, <2>1, <2>3, SignalsKept DEF SignalsInv, SignalInv
  <2> QED BY <1>6, <2>2, <2>3 DEF SignalReturns
<1>7. ASSUME NEW i, NEW st \in {"confirmed", "failed", "not_sent"}, SignalResolved(i, st)
      PROVE  SignalsInv' /\ SignsCurrent /\ AsksOnce
  <2>1. /\ i \in 1..Latest /\ signals[i].status = "sent" /\ Became(i, st)
        /\ asked' = asked /\ running' = running /\ Watches
    BY <1>0, <1>7 DEF SignalResolved, answering, history
  <2> QED BY <1>5, <2>1
<1>8. CASE ProcessCrash
  <2>1. /\ signals' = signals /\ asked' = NoAsk /\ running' = 0 /\ watch' = NoWatch
        /\ elsewhere' = FALSE
    BY <1>8 DEF ProcessCrash
  <2>2. "id" \in DOMAIN asked' /\ asked'.id = 0
    BY <2>1 DEF NoAsk
  <2>3. WatchInv'
    BY <2>1 DEF WatchInv, WatchTyped, NoWatch, NoState, Ages
  <2> QED BY <1>0, <1>a, <2>1, <2>2, <2>3, SignalsKept DEF SignalsInv, SignalInv
<1>9. CASE SignalTime
  <2>1. /\ SignalInv' /\ WatchTyped' /\ Latest' = Latest
        /\ watch'.left = watch.left /\ watch'.away = watch.away
        /\ \A i \in DOMAIN signals : /\ signals'[i].to = signals[i].to
                                     /\ signals[i].signed = Never => signals'[i].signed = Never
    BY <1>0, <1>9, TimeKeepsSignals
  <2>2. elsewhere' = elsewhere
    BY <1>9 DEF SignalTime
  <2>3. Latest > 0 => signals'[Latest].to = signals[Latest].to
    BY <1>0, <2>1
  <2>4. WatchInv'
    BY <1>0, <2>1, <2>2, <2>3 DEF WatchInv
  <2> QED BY <1>a, <2>1, <2>4 DEF SignalsInv
<1>10. CASE UNCHANGED signalVars
  <2>1. signals' = signals /\ asked' = asked /\ running' = running /\ Watches
    BY <1>10 DEF signalVars, answering, history
  <2> QED BY <1>0, <1>a, <1>b, <2>1, SignalsKept DEF SignalsInv, SignalInv
<1> QED
  BY <1>1, <1>2, <1>3, <1>4, <1>6, <1>7, <1>8, <1>9, <1>10 DEF SignalNext

\* The signals are as said from the start.
LEMMA SignalsInvHolds == SignalSpec => []SignalsInv
<1>1. SignalInit => SignalsInv
  <2> SUFFICES ASSUME SignalInit PROVE SignalsInv
    OBVIOUS
  <2>1. /\ signals = <<>> /\ "id" \in DOMAIN asked /\ asked.id = 0 /\ running = 0
        /\ watch = NoWatch
    BY DEF SignalInit, NoAsk
  <2>2. signals \in Seq(Row) /\ Latest = 0
    BY <2>1, EmptySeq DEF Latest
  <2>3. DOMAIN signals = {}
    BY <2>1
  <2>4. Emitted = {}
    BY <2>3 DEF Emitted
  <2>5. WatchInv
    BY <2>1, <2>2 DEF WatchInv, WatchTyped, NoWatch, NoState, Ages
  <2> QED BY <2>1, <2>2, <2>3, <2>4, <2>5 DEF SignalsInv, SignalInv, SignalsDiffer
<1>2. SignalsInv /\ [SignalNext]_signalVars => SignalsInv'
  BY SignalStep, SignalAssumption
<1> QED BY <1>1, <1>2, PTL DEF SignalSpec

\* What is or may be on the chain never repeats the state announced before it, across
\* denials, reverts, drops and restarts (signal.ts detectGateSignal).
THEOREM SignalsAlternate == SignalSpec => []SignalsDiffer
<1>1. SignalsInv => SignalsDiffer
  BY DEF SignalsInv, SignalInv
<1> QED BY <1>1, SignalsInvHolds, PTL

\* The state signed is the lane's at the latest tick, however late the answer came
\* (daemon.ts settle).
THEOREM SignedIsCurrent == SignalSpec => SignedStateIsCurrent
<1>1. SignalsInv /\ [SignalNext]_signalVars =>
        [\A i \in DOMAIN signals : signals[i].signed = Never /\ signals'[i].signed # Never =>
           watch.key = signals[i].to]_signalVars
  BY SignalStep, SignalAssumption
<1> QED BY <1>1, SignalsInvHolds, PTL DEF SignalSpec, SignedStateIsCurrent

\* An owner that declined a signal, or one whose signal was signed in vain, is not asked
\* about that state again while the lane has been nowhere else (signal.ts).
THEOREM AskedOncePerTransition == SignalSpec => OnePerTransition
<1>1. SignalsInv /\ [SignalNext]_signalVars =>
        [Len(signals') > Latest /\ signals # <<>>
         /\ signals[Latest].status \in {"declined", "failed"}
         /\ signals'[Latest + 1].to = signals[Latest].to
           => elsewhere \/ LeavesHeld(signals[Latest].to)]_signalVars
  BY SignalStep, SignalAssumption
<1> QED BY <1>1, SignalsInvHolds, PTL DEF SignalSpec, OnePerTransition

-----------------------------------------------------------------------------
(***************************************************************************)
(* Why no count and no age outgrows what the code can tell apart.          *)
(***************************************************************************)

\* The counts of a gate, and of what was seen of it, stop at the dwell.
GatesBounded ==
  \A g \in Gate : /\ gates[g].ticks <= ClearTicks[g] /\ gates[g].age <= ClearTime[g]
                  /\ clear[g].ticks <= ClearTicks[g] /\ clear[g].age <= ClearTime[g]

\* So do the ages of the watch and of the signals; who is asked is asked about a signal.
AgesBounded ==
  /\ watch = NoWatch \/ (watch.key \in State /\ watch.age \in 0..MinDwell)
  /\ \A i \in DOMAIN signals : signals[i].signed <= SignalHour + 1

AskedOK ==
  /\ asked \in [id : Nat, answer : {"none", "approved", "denied", "timeout"}]
  /\ asked.id = 0 => asked = NoAsk
  /\ newest \in 0..RetryAfter /\ holdOff \in 0..HoldTime
  /\ ticked \in BOOLEAN /\ deaths \in 0..MaxDeaths /\ elsewhere \in BOOLEAN

SignalTyped == GateInv /\ SignalsInv /\ GatesBounded /\ AgesBounded /\ AskedOK

\* An age stops at its bound.
LEMMA OlderStops ==
  ASSUME NEW a \in Ages, NEW bound \in Nat
  PROVE  Older(a, bound) <= bound
BY DEF Older, Upto, Ages, Never

\* No step of a gate counts past its dwell.
LEMMA GateStepStops ==
  ASSUME SignalAssumption, GateInv, GatesBounded, NEW g \in Gate, NEW trig \in BOOLEAN
  PROVE  /\ GateStep(g, trig).ticks <= ClearTicks[g] /\ GateStep(g, trig).age <= ClearTime[g]
         /\ ClearSeen(g, trig).ticks <= ClearTicks[g] /\ ClearSeen(g, trig).age <= ClearTime[g]
<1>1. ClearTicks[g] \in Nat /\ ClearTime[g] \in Nat
  BY DEF SignalAssumption
<1>2. ASSUME NEW c, c.ticks \in Nat, c.age \in Ages, c.age <= ClearTime[g],
             \/ c \in [why : Whys, ticks : Nat, age : Ages]
             \/ c \in [ticks : Nat, age : Ages]
      PROVE  MoreClear(g, c).ticks <= ClearTicks[g] /\ MoreClear(g, c).age <= ClearTime[g]
  <2>1. /\ MoreClear(g, c).ticks = Upto(c.ticks + 1, ClearTicks[g])
        /\ MoreClear(g, c).age = IF c.age = Never THEN 0 ELSE c.age
    BY <1>2, MoreClearType
  <2>2. Upto(c.ticks + 1, ClearTicks[g]) <= ClearTicks[g]
    BY <1>1, <1>2 DEF Upto
  <2>3. (IF c.age = Never THEN 0 ELSE c.age) <= ClearTime[g]
    BY <1>1, <1>2
  <2> QED BY <2>1, <2>2, <2>3
<1>3. /\ gates[g] \in [why : Whys, ticks : Nat, age : Ages] /\ clear[g] \in [ticks : Nat, age : Ages]
      /\ gates[g].ticks \in Nat /\ gates[g].age \in Ages /\ gates[g].age <= ClearTime[g]
      /\ clear[g].ticks \in Nat /\ clear[g].age \in Ages /\ clear[g].age <= ClearTime[g]
  BY DEF GateInv, GatesBounded
<1>4. /\ MoreClear(g, gates[g]).ticks <= ClearTicks[g] /\ MoreClear(g, gates[g]).age <= ClearTime[g]
      /\ MoreClear(g, clear[g]).ticks <= ClearTicks[g] /\ MoreClear(g, clear[g]).age <= ClearTime[g]
  BY <1>2, <1>3
<1>5. 0 <= ClearTicks[g] /\ Never <= ClearTime[g]
  BY <1>1 DEF Never
<1> QED BY <1>4, <1>5 DEF GateStep, ClearSeen

\* No step of the agent does.
LEMMA GatesStop ==
  ASSUME SignalAssumption, GateInv, GatesBounded, [SignalNext]_signalVars
  PROVE  GatesBounded'
<1>1. ASSUME NEW trig \in SUBSET Gate, NEW regime, NEW busy, LaneTick(trig, regime, busy)
      PROVE  GatesBounded'
  <2>1. /\ gates' = [g \in Gate |-> GateStep(g, g \in trig)]
        /\ clear' = [g \in Gate |-> ClearSeen(g, g \in trig)]
    BY <1>1 DEF LaneTick
  <2> SUFFICES ASSUME NEW g \in Gate
               PROVE  /\ gates'[g].ticks <= ClearTicks[g] /\ gates'[g].age <= ClearTime[g]
                      /\ clear'[g].ticks <= ClearTicks[g] /\ clear'[g].age <= ClearTime[g]
    BY DEF GatesBounded
  <2>2. (g \in trig) \in BOOLEAN
    OBVIOUS
  <2>3. gates'[g] = GateStep(g, g \in trig) /\ clear'[g] = ClearSeen(g, g \in trig)
    BY <2>1
  <2> QED BY <2>2, <2>3, GateStepStops
<1>2. CASE SignalTime
  <2> SUFFICES ASSUME NEW g \in Gate
               PROVE  /\ gates'[g].ticks <= ClearTicks[g] /\ gates'[g].age <= ClearTime[g]
                      /\ clear'[g].ticks <= ClearTicks[g] /\ clear'[g].age <= ClearTime[g]
    BY DEF GatesBounded
  <2>1. /\ gates'[g] = [gates[g] EXCEPT !.age = Older(gates[g].age, ClearTime[g])]
        /\ clear'[g] = [clear[g] EXCEPT !.age = Older(clear[g].age, ClearTime[g])]
    BY <1>2 DEF SignalTime
  <2>2. /\ gates[g] \in [why : Whys, ticks : Nat, age : Ages] /\ clear[g] \in [ticks : Nat, age : Ages]
        /\ gates[g].ticks <= ClearTicks[g] /\ clear[g].ticks <= ClearTicks[g]
    BY DEF GateInv, GatesBounded
  <2>3. ClearTime[g] \in Nat
    BY DEF SignalAssumption
  <2>4. Older(gates[g].age, ClearTime[g]) <= ClearTime[g] /\ Older(clear[g].age, ClearTime[g]) <= ClearTime[g]
    BY <2>2, <2>3, OlderStops
  <2> QED BY <2>1, <2>2, <2>4
<1>3. CASE ProcessCrash
  <2>1. gates' = GatesAtStart /\ clear' = NotYetClear
    BY <1>3 DEF ProcessCrash
  <2>2. \A g \in Gate : ClearTicks[g] \in Nat /\ ClearTime[g] \in Nat
    BY DEF SignalAssumption
  <2>3. \A g \in Gate : 0 <= ClearTicks[g] /\ Never <= ClearTime[g]
    BY <2>2 DEF Never
  <2> QED BY <2>1, <2>3 DEF GatesBounded, GatesAtStart, NotYetClear
<1>4. CASE UNCHANGED <<gates, clear>>
  BY <1>4 DEF GatesBounded
<1>5. ASSUME NEW a, SignalAnswer(a) PROVE UNCHANGED <<gates, clear>>
  BY <1>5 DEF SignalAnswer, history
<1>6. SignSignal \/ SignalRefused => UNCHANGED <<gates, clear>>
  BY DEF SignSignal, SignalRefused, history
<1>7. ASSUME NEW st, SignalReturns(st) PROVE UNCHANGED <<gates, clear>>
  BY <1>7 DEF SignalReturns, history
<1>8. ASSUME NEW i, NEW st, SignalResolved(i, st) PROVE UNCHANGED <<gates, clear>>
  BY <1>8 DEF SignalResolved, history
<1>9. UNCHANGED signalVars => UNCHANGED <<gates, clear>>
  BY DEF signalVars, history
<1> QED BY <1>1, <1>2, <1>3, <1>4, <1>5, <1>6, <1>7, <1>8, <1>9 DEF SignalNext

\* A tick moves what is asked, and the hold, only to values of theirs.
LEMMA TickAsks ==
  ASSUME AskedOK, SignalInv, NEW key, NEW w, NEW busy, SignalPart(key, w, busy)
  PROVE  /\ asked' \in [id : Nat, answer : {"none", "approved", "denied", "timeout"}]
         /\ asked'.id = 0 => asked' = NoAsk
         /\ holdOff' \in {holdOff, HoldTime}
<1>1. Latest \in Nat /\ Latest + 1 \in Nat /\ Latest + 1 # 0
  BY Rows DEF SignalInv
<1>2. asked' \in {asked, NoAsk, [id |-> Latest + 1, answer |-> "none"]}
  BY DEF SignalPart, PlanSignal, Settled, answering
<1>3. holdOff' \in {holdOff, HoldTime}
  BY DEF SignalPart, PlanSignal, Settled, HoldOff
<1>4. CASE asked' = asked
  BY <1>3, <1>4 DEF AskedOK
<1>5. CASE asked' = NoAsk
  BY <1>3, <1>5 DEF NoAsk
<1>6. CASE asked' = [id |-> Latest + 1, answer |-> "none"]
  BY <1>1, <1>3, <1>6
<1> QED BY <1>2, <1>4, <1>5, <1>6

\* What is asked, held off and counted stays of its type.
LEMMA AskedKept ==
  ASSUME SignalAssumption, SignalsInv, AskedOK, [SignalNext]_signalVars
  PROVE  AskedOK'
<1>0. /\ RetryAfter \in Nat /\ HoldTime \in Nat /\ MaxDeaths \in Nat
      /\ newest \in Nat /\ newest <= RetryAfter /\ holdOff \in Nat /\ holdOff <= HoldTime
      /\ ticked \in BOOLEAN /\ deaths \in 0..MaxDeaths /\ elsewhere \in BOOLEAN
      /\ asked \in [id : Nat, answer : {"none", "approved", "denied", "timeout"}]
      /\ asked.id = 0 => asked = NoAsk
  BY DEF SignalAssumption, AskedOK
<1>1. ASSUME NEW trig \in SUBSET Gate, NEW regime \in Regime, NEW busy \in BOOLEAN,
             LaneTick(trig, regime, busy)
      PROVE  AskedOK'
  <2>1. PICK key, w : /\ SignalPart(key, w, busy)
                      /\ \/ newest' = 0 /\ elsewhere' = FALSE
                         \/ newest' = newest /\ elsewhere' = (elsewhere \/ LeavesHeld(key))
    BY <1>1 DEF LaneTick
  <2>2. ticked' = TRUE /\ deaths' = deaths
    BY <1>1 DEF LaneTick
  <2>3. /\ asked' \in [id : Nat, answer : {"none", "approved", "denied", "timeout"}]
        /\ asked'.id = 0 => asked' = NoAsk
        /\ holdOff' \in {holdOff, HoldTime}
    BY <2>1, TickAsks DEF SignalsInv
  <2>4. elsewhere' \in BOOLEAN
    <3>1. (elsewhere \/ LeavesHeld(key)) \in BOOLEAN /\ FALSE \in BOOLEAN
      OBVIOUS
    <3> QED BY <2>1, <3>1
  <2>5. newest' \in 0..RetryAfter /\ holdOff' \in 0..HoldTime
    BY <1>0, <2>1, <2>3
  <2> QED BY <1>0, <2>2, <2>3, <2>4, <2>5 DEF AskedOK
<1>2. ASSUME NEW a \in {"approved", "denied", "timeout"}, SignalAnswer(a) PROVE AskedOK'
  <2>1. /\ asked.id # 0 /\ asked' = [asked EXCEPT !.answer = a]
        /\ UNCHANGED <<newest, holdOff, ticked, deaths, elsewhere>>
    BY <1>2 DEF SignalAnswer, history
  <2>2. /\ asked' \in [id : Nat, answer : {"none", "approved", "denied", "timeout"}]
        /\ asked'.id = asked.id
    BY <1>0, <2>1
  <2> QED BY <1>0, <2>1, <2>2 DEF AskedOK
<1>3. CASE /\ asked' = asked /\ holdOff' \in {holdOff, HoldTime}
           /\ UNCHANGED <<newest, ticked, deaths, elsewhere>>
  BY <1>0, <1>3 DEF AskedOK
<1>4. SignSignal \/ SignalRefused => <1>3!1
  BY DEF SignSignal, SignalRefused, HoldOff, answering, history
<1>5. ASSUME NEW st, SignalReturns(st) PROVE <1>3!1
  BY <1>5 DEF SignalReturns, HoldOff, history
<1>6. ASSUME NEW i, NEW st, SignalResolved(i, st) PROVE <1>3!1
  BY <1>6 DEF SignalResolved, answering, history
<1>7. UNCHANGED signalVars => <1>3!1
  BY DEF signalVars, answering, history
<1>8. CASE ProcessCrash
  <2>1. /\ deaths < MaxDeaths /\ deaths' = deaths + 1 /\ asked' = NoAsk /\ holdOff' = 0
        /\ elsewhere' = FALSE /\ newest' = newest /\ ticked' = ticked
    BY <1>8 DEF ProcessCrash
  <2>2. deaths' \in 0..MaxDeaths
    BY <1>0, <2>1
  <2>3. NoAsk \in [id : Nat, answer : {"none", "approved", "denied", "timeout"}]
    BY DEF NoAsk
  <2>4. asked' \in [id : Nat, answer : {"none", "approved", "denied", "timeout"}]
    BY <2>1, <2>3
  <2>5. newest' \in 0..RetryAfter /\ holdOff' \in 0..HoldTime
    BY <1>0, <2>1
  <2>6. ticked' \in BOOLEAN /\ elsewhere' \in BOOLEAN
    BY <1>0, <2>1
  <2> QED BY <2>1, <2>2, <2>4, <2>5, <2>6 DEF AskedOK
<1>9. CASE SignalTime
  <2>1. /\ ticked' = FALSE /\ asked' = asked /\ deaths' = deaths /\ elsewhere' = elsewhere
        /\ newest' = IF signals = <<>> THEN 0 ELSE Older(newest, RetryAfter)
        /\ holdOff' = IF holdOff = 0 THEN 0 ELSE holdOff - 1
    BY <1>9 DEF SignalTime, answering
  <2>2. Older(newest, RetryAfter) \in 0..RetryAfter
    BY <1>0 DEF Older, Upto, Never
  <2>3. newest' \in 0..RetryAfter /\ holdOff' \in 0..HoldTime
    BY <1>0, <2>1, <2>2
  <2> QED BY <1>0, <2>1, <2>3 DEF AskedOK
<1> QED BY <1>1, <1>2, <1>3, <1>4, <1>5, <1>6, <1>7, <1>8, <1>9 DEF SignalNext

\* The ages of the watch and of the signals stop.
LEMMA AgesStop ==
  ASSUME SignalAssumption, SignalsInv, AgesBounded, [SignalNext]_signalVars
  PROVE  AgesBounded'
<1>0. /\ MinDwell \in Nat /\ SignalHour \in Nat /\ SignalInv /\ WatchTyped
      /\ Latest \in Nat /\ DOMAIN signals = 1..Latest
  BY Rows DEF SignalAssumption, SignalsInv, WatchInv, SignalInv
<1> DEFINE WatchOK == watch = NoWatch \/ (watch.key \in State /\ watch.age \in 0..MinDwell)
           RowsOK  == \A i \in DOMAIN signals : signals[i].signed <= SignalHour + 1
<1>a. WatchOK /\ RowsOK /\ (WatchOK' /\ RowsOK' => AgesBounded')
  BY DEF AgesBounded
<1>b. ASSUME \A i \in DOMAIN signals' :
               \/ i \in DOMAIN signals /\ signals'[i].signed = signals[i].signed
               \/ signals'[i].signed \in {Never, 0}
      PROVE  RowsOK'
  BY <1>0, <1>a, <1>b DEF Never
<1>1. ASSUME NEW trig \in SUBSET Gate, NEW regime \in Regime, NEW busy \in BOOLEAN,
             LaneTick(trig, regime, busy)
      PROVE  AgesBounded'
  <2>0. PICK key \in State, settled \in BOOLEAN :
          LET w == Watched(key, settled)
          IN  /\ SignalPart(key, w, busy) /\ running = 0
              /\ w.key = key /\ watch'.key = key
              /\ IF Len(signals') > Latest
                 THEN watch' = [w EXCEPT !.left = FALSE] /\ elsewhere' = FALSE
                 ELSE watch' = w /\ elsewhere' = (elsewhere \/ LeavesHeld(key))
    BY <1>0, <1>1, TickSees
  <2>1. /\ SignalPart(key, Watched(key, settled), busy)
        /\ \/ watch' = Watched(key, settled)
           \/ watch' = [Watched(key, settled) EXCEPT !.left = FALSE]
    BY <2>0
  <2>2. WatchOK'
    <3>1. Watched(key, settled).age \in 0..MinDwell /\ Watched(key, settled).key = key
      <4>1. CASE watch.key = key
        <5>1. watch.age \in 0..MinDwell
          <6>1. NoWatch.age = 0 /\ 0 \in 0..MinDwell
            BY <1>0 DEF NoWatch
          <6> QED BY <1>a, <6>1
        <5>2. Watched(key, settled) = [watch EXCEPT !.settled = settled]
          BY <4>1 DEF Watched
        <5> QED BY <1>0, <4>1, <5>1, <5>2 DEF WatchTyped
      <4>2. CASE watch.key # key
        BY <1>0, <4>2 DEF Watched
      <4> QED BY <4>1, <4>2
    <3>2. watch'.key = key /\ watch'.age = Watched(key, settled).age
      <4>1. Watched(key, settled) \in [key : State, age : Ages, settled : BOOLEAN,
                                       away : State \cup {NoState}, left : BOOLEAN]
        BY <1>0, WatchesKey
      <4> QED BY <2>1, <3>1, <4>1
    <3> QED BY <3>1, <3>2
  <2>3. RowsOK'
    <3>1. /\ Latest' \in {Latest, Latest + 1}
          /\ \A i \in 1..Latest : signals'[i].signed = signals[i].signed
          /\ Len(signals') > Latest => signals'[Latest + 1].signed = Never
      BY <1>0, <2>1, TickRows
    <3>2. DOMAIN signals' = 1..Latest'
      BY <1>0, <2>1, TickRows
    <3>3. Len(signals') = Latest'
      BY DEF Latest
    <3> QED BY <1>0, <1>b, <3>1, <3>2, <3>3
  <2> QED BY <1>a, <2>2, <2>3
<1>2. ASSUME watch' = watch,
             \/ signals' = signals
             \/ \E i \in 1..Latest, st \in Statuses : Became(i, st)
      PROVE  AgesBounded'
  <2>1. WatchOK'
    BY <1>a, <1>2
  <2>2. CASE signals' = signals
    BY <1>a, <2>1, <2>2
  <2>3. CASE \E i \in 1..Latest, st \in Statuses : Became(i, st)
    <3>1. PICK i \in 1..Latest, st \in Statuses : Became(i, st)
      BY <2>3
    <3>2. DOMAIN signals' = 1..Latest /\ \A j \in 1..Latest : signals'[j].signed = signals[j].signed
      BY <1>0, <3>1, StatusChanged DEF SignalInv
    <3> QED BY <1>0, <1>a, <1>b, <2>1, <3>2
  <2> QED BY <1>2, <2>2, <2>3
<1>3. ASSUME NEW a, SignalAnswer(a) PROVE AgesBounded'
  BY <1>2, <1>3 DEF SignalAnswer
<1>4. CASE SignSignal
  <2>1. /\ running \in 1..Latest /\ watch' = watch
        /\ signals' = [signals EXCEPT ![running].signed = 0, ![running].status = "sent"]
    BY <1>0, <1>4 DEF SignSignal, SignalInv
  <2> DEFINE r == [signals[running] EXCEPT !.signed = 0, !.status = "sent"]
  <2>2. r \in Row /\ r.signed = 0
    <3>1. signals[running] \in Row
      BY <1>0, <2>1, Rows DEF SignalInv
    <3> QED BY <3>1 DEF Row, Ages, Statuses
  <2>3. signals' = [signals EXCEPT ![running] = r]
    BY <2>1
  <2> HIDE DEF r
  <2>4. /\ DOMAIN signals' = 1..Latest /\ signals'[running] = r
        /\ \A j \in 1..Latest : j # running => signals'[j] = signals[j]
    BY <1>0, <2>1, <2>2, <2>3, RowChanged DEF SignalInv
  <2>5. RowsOK'
    BY <1>0, <1>b, <2>2, <2>4
  <2> QED BY <1>a, <2>1, <2>5
<1>5. CASE SignalRefused
  <2>1. running \in 1..Latest /\ watch' = watch /\ Became(running, "not_sent") /\ "not_sent" \in Statuses
    BY <1>0, <1>5 DEF SignalRefused, SignalInv, Statuses
  <2> QED BY <1>2, <2>1
<1>6. ASSUME NEW st \in {"sent", "confirmed", "failed", "not_sent"}, SignalReturns(st)
      PROVE  AgesBounded'
  <2>1. running \in 1..Latest /\ watch' = watch /\ (Became(running, st) \/ signals' = signals)
        /\ st \in Statuses
    BY <1>0, <1>6 DEF SignalReturns, SignalInv, Statuses
  <2> QED BY <1>2, <2>1
<1>7. ASSUME NEW i, NEW st \in {"confirmed", "failed", "not_sent"}, SignalResolved(i, st)
      PROVE  AgesBounded'
  <2>1. i \in 1..Latest /\ watch' = watch /\ Became(i, st) /\ st \in Statuses
    BY <1>0, <1>7 DEF SignalResolved, Statuses
  <2> QED BY <1>2, <2>1
<1>8. CASE ProcessCrash
  BY <1>8, <1>a DEF ProcessCrash
<1>9. CASE SignalTime
  <2>1. /\ signals' = [i \in DOMAIN signals |->
                         [signals[i] EXCEPT !.signed = Older(signals[i].signed, SignalHour + 1)]]
        /\ watch' = IF watch = NoWatch THEN watch
                    ELSE [watch EXCEPT !.age = Older(watch.age, MinDwell)]
    BY <1>9 DEF SignalTime
  <2>2. WatchOK'
    <3>1. CASE watch = NoWatch
      BY <2>1, <3>1
    <3>2. CASE watch # NoWatch
      <4>1. watch.key \in State /\ watch.age \in 0..MinDwell
        BY <1>a, <3>2
      <4> DEFINE old == Older(watch.age, MinDwell)
      <4>2. old \in 0..MinDwell
        BY <1>0, <4>1 DEF Older, Upto, Never
      <4>3. watch' = [watch EXCEPT !.age = old]
        BY <2>1, <3>2
      <4> HIDE DEF old
      <4>4. watch'.key = watch.key /\ watch'.age = old
        BY <1>0, <4>3 DEF WatchTyped
      <4> QED BY <4>1, <4>2, <4>4
    <3> QED BY <3>1, <3>2
  <2>3. RowsOK'
    <3> SUFFICES ASSUME NEW i \in DOMAIN signals' PROVE signals'[i].signed <= SignalHour + 1
      OBVIOUS
    <3>1. i \in 1..Latest /\ signals[i] \in Row /\ signals[i].signed \in Ages
      BY <1>0, <2>1, Rows DEF SignalInv
    <3> DEFINE old == Older(signals[i].signed, SignalHour + 1)
    <3>2. old <= SignalHour + 1
      BY <1>0, <3>1, OlderStops
    <3>3. signals'[i] = [signals[i] EXCEPT !.signed = old]
      BY <1>0, <2>1, <3>1
    <3> HIDE DEF old
    <3>4. signals'[i].signed = old
      BY <3>1, <3>3 DEF Row
    <3> QED BY <3>2, <3>4
  <2> QED BY <1>a, <2>2, <2>3
<1>10. CASE UNCHANGED signalVars
  BY <1>2, <1>10 DEF signalVars
<1> HIDE DEF WatchOK, RowsOK
<1> QED BY <1>1, <1>3, <1>4, <1>5, <1>6, <1>7, <1>8, <1>9, <1>10 DEF SignalNext

\* A typed agent: counts within the dwells, ages within what the code compares them with, and
\* at most one signal asked about or under way, pending until it is signed (machine.ts,
\* signal.ts, daemon.ts).
THEOREM SignalsAreTyped == SignalSpec => []SignalTypeOK
<1>1. SignalInit => GatesBounded /\ AgesBounded /\ AskedOK
  <2> SUFFICES ASSUME SignalInit PROVE GatesBounded /\ AgesBounded /\ AskedOK
    OBVIOUS
  <2>1. /\ \A g \in Gate : ClearTicks[g] \in Nat /\ ClearTime[g] \in Nat
        /\ RetryAfter \in Nat /\ HoldTime \in Nat /\ MaxDeaths \in Nat
    BY SignalAssumption
  <2>2. \A g \in Gate : 0 <= ClearTicks[g] /\ Never <= ClearTime[g]
    BY <2>1 DEF Never
  <2>3. GatesBounded
    BY <2>2 DEF SignalInit, GatesBounded, GatesAtStart, NotYetClear
  <2>4. AgesBounded
    BY DEF SignalInit, AgesBounded
  <2>5. AskedOK
    <3>1. asked \in [id : Nat, answer : {"none", "approved", "denied", "timeout"}]
          /\ asked = NoAsk
      BY DEF SignalInit, NoAsk
    <3>2. newest \in 0..RetryAfter /\ holdOff \in 0..HoldTime /\ deaths \in 0..MaxDeaths
      BY <2>1 DEF SignalInit
    <3>3. ticked \in BOOLEAN /\ elsewhere \in BOOLEAN
      BY DEF SignalInit
    <3> QED BY <3>1, <3>2, <3>3 DEF AskedOK
  <2> QED BY <2>3, <2>4, <2>5
<1>2. /\ GateInv /\ SignalsInv /\ GatesBounded /\ AgesBounded /\ AskedOK /\ [SignalNext]_signalVars
        => (GatesBounded /\ AgesBounded /\ AskedOK)'
  BY SignalAssumption, GatesStop, AgesStop, AskedKept
<1>3. SignalTyped => SignalTypeOK
  <2> SUFFICES ASSUME SignalTyped PROVE SignalTypeOK
    OBVIOUS
  <2>0. /\ GateInv /\ SignalInv /\ WatchTyped /\ GatesBounded /\ AgesBounded /\ AskedOK
        /\ Latest \in Nat /\ DOMAIN signals = 1..Latest
    BY Rows DEF SignalTyped, SignalsInv, WatchInv, SignalInv
  <2>1. ASSUME NEW g \in Gate
        PROVE  /\ gates[g].why \in {"off", "held", "triggered"}
               /\ [ticks |-> gates[g].ticks, age |-> gates[g].age] \in ClearCount(g)
               /\ clear[g] \in ClearCount(g)
    <3>1. /\ ClearTicks[g] \in Nat /\ ClearTime[g] \in Nat
          /\ gates[g] \in [why : Whys, ticks : Nat, age : Ages] /\ clear[g] \in [ticks : Nat, age : Ages]
          /\ gates[g].ticks <= ClearTicks[g] /\ gates[g].age <= ClearTime[g]
          /\ clear[g].ticks <= ClearTicks[g] /\ clear[g].age <= ClearTime[g]
      BY <2>0, SignalAssumption DEF GateInv, GatesBounded
    <3>2. \A t \in Nat : t <= ClearTicks[g] => t \in 0..ClearTicks[g]
      BY <3>1
    <3>3. \A a \in Ages : a <= ClearTime[g] => a \in Never..ClearTime[g]
      BY <3>1 DEF Ages, Never
    <3>4. /\ gates[g].ticks \in 0..ClearTicks[g] /\ gates[g].age \in Never..ClearTime[g]
          /\ clear[g].ticks \in 0..ClearTicks[g] /\ clear[g].age \in Never..ClearTime[g]
      BY <3>1, <3>2, <3>3
    <3> QED BY <3>1, <3>4 DEF ClearCount, Whys
  <2>2. watch = NoWatch \/ watch \in [key : State, age : 0..MinDwell, settled : BOOLEAN,
                                      away : State \cup {NoState}, left : BOOLEAN]
    <3> SUFFICES ASSUME watch # NoWatch
                 PROVE  watch \in [key : State, age : 0..MinDwell, settled : BOOLEAN,
                                   away : State \cup {NoState}, left : BOOLEAN]
      OBVIOUS
    <3>1. watch.key \in State /\ watch.age \in 0..MinDwell
      BY <2>0 DEF AgesBounded
    <3> QED BY <2>0, <3>1 DEF WatchTyped
  <2>3. signals \in Seq([to : State, signed : Never..(SignalHour + 1),
                         status : {"pending", "sent", "confirmed", "failed", "declined", "not_sent"}])
    <3> DEFINE R == [to : State, signed : Never..(SignalHour + 1),
                     status : {"pending", "sent", "confirmed", "failed", "declined", "not_sent"}]
    <3>1. ASSUME NEW i \in 1..Latest PROVE signals[i] \in R
      <4>1. signals[i] \in Row /\ signals[i].signed \in Ages /\ signals[i].signed <= SignalHour + 1
        BY <2>0, Rows DEF SignalInv, AgesBounded
      <4>2. signals[i].signed \in Never..(SignalHour + 1)
        BY <4>1, SignalAssumption DEF Ages, Never
      <4> QED BY <4>1, <4>2 DEF Row, Statuses
    <3> HIDE DEF R
    <3>2. signals \in [1..Latest -> R]
      <4>1. signals = [i \in 1..Latest |-> signals[i]]
        BY <2>0 DEF SignalInv
      <4> QED BY <3>1, <4>1
    <3>3. signals \in Seq(R)
      BY <2>0, <3>2, SeqDef
    <3> QED BY <3>3 DEF R
  <2>4. newest \in 0..RetryAfter /\ holdOff \in 0..HoldTime
    BY <2>0 DEF AskedOK
  <2>5. /\ asked \in [id : 0..Latest, answer : {"none", "approved", "denied", "timeout"}]
        /\ running \in 0..Latest /\ (running # 0 => asked = NoAsk)
    <3>1. asked.id \in {0, Latest} /\ running \in {0, Latest} /\ (running # 0 => asked.id = 0)
      BY <2>0 DEF SignalInv
    <3> QED BY <2>0, <3>1 DEF AskedOK
  <2>6. \A i \in {running, asked.id} \ {0} : signals[i].signed = Never => signals[i].status = "pending"
    BY <2>0 DEF SignalInv, Unsent
  <2>7. ticked \in BOOLEAN /\ deaths \in 0..MaxDeaths /\ elsewhere \in BOOLEAN
    BY <2>0 DEF AskedOK
  <2> QED BY <2>1, <2>2, <2>3, <2>4, <2>5, <2>6, <2>7 DEF SignalTypeOK
<1>4. SignalSpec => [](GatesBounded /\ AgesBounded /\ AskedOK)
  BY <1>1, <1>2, GateInvHolds, SignalsInvHolds, PTL DEF SignalSpec
<1>5. GateInv /\ SignalsInv /\ GatesBounded /\ AgesBounded /\ AskedOK => SignalTypeOK
  BY <1>3 DEF SignalTyped
<1> QED BY <1>4, <1>5, GateInvHolds, SignalsInvHolds, PTL

-----------------------------------------------------------------------------
(***************************************************************************)
(* The market run's composition: each of its steps is a step of one part   *)
(* and leaves the others alone, so each keeps what it keeps by itself.     *)
(***************************************************************************)

\* The composition, seen from each of the four.
LEMMA MarketProjects == MCSpec => SignalSpec /\ PlacementSpec /\ WizardSpec /\ LogSpec
<1>1. MCInit => SignalInit /\ PlacementInit /\ WizardInit /\ LogInit
  BY DEF MCInit
<1>2. [MCNext]_marketVars => [SignalNext]_signalVars
  BY DEF MCNext, marketVars
<1>3. [MCNext]_marketVars => [PlacementNext]_placementVars
  BY DEF MCNext, marketVars
<1>4. [MCNext]_marketVars => [WizardNext]_wizardVars
  BY DEF MCNext, marketVars
<1>5. [MCNext]_marketVars => [LogNext]_logVars
  BY DEF MCNext, marketVars
<1> QED
  BY <1>1, <1>2, <1>3, <1>4, <1>5, PTL DEF MCSpec, SignalSpec, PlacementSpec, WizardSpec, LogSpec

\* Signals, placement, setup and log reader stay typed, whichever of them runs.
THEOREM MarketIsTyped == MCSpec => []MarketTypeOK
<1>1. SignalTypeOK /\ PlacementTypeOK /\ WizardTypeOK /\ LogTypeOK => MarketTypeOK
  BY DEF MarketTypeOK
<1> QED BY <1>1, MarketProjects, SignalsAreTyped, Typed, WizardTyped, ReaderIsTyped, PTL
=============================================================================
