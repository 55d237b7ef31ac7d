------------------------------ MODULE Placement ------------------------------
(***************************************************************************)
(* One rerange of a lane, from the placement of its range to the mint: the *)
(* strategy's bands around fair value F (strategy/bands.ts), the overlay   *)
(* that may widen them (overlay/apply.ts), the plan critic and the guard   *)
(* on the snapshot that is signed, the simulation, and what the lane       *)
(* checks when the transaction lands (DeskLaneV3 _placement, _checkRanges, *)
(* RangeRules). Pool, reference, F and holdings move between any two of    *)
(* them.                                                                   *)
(*                                                                         *)
(* Ticks are token1 per token0 (NVDA per USDG). Token 0 in a range is on   *)
(* offer above the pool's tick, token 1 at and below it. The shares of a   *)
(* range are reduced to the tokens it offers.                              *)
(***************************************************************************)
EXTENDS Integers

CONSTANTS
  Spacing,            \* tick spacing of the pool
  MaxTick,
  MinWidth, MaxWidth, \* caps.minWidthTicks, caps.maxWidthTicks
  Band,               \* the fence's band, in ticks
  Delta,              \* maxTickDelta of the rerange
  HalfWidth,          \* halfWidthTicks
  MaxGap,             \* straddleMaxGapBps
  Widenings,          \* widenTicks an overlay may propose; 0: no overlay
  Spread,             \* bound on how far reference and F are from the pool
  FairStep,           \* how far F moves at once
  MaxMoves            \* bound on the market's moves while a rerange is under way

ASSUME PlacementAssumption ==
  /\ Spacing \in Nat \ {0} /\ HalfWidth \in Nat \ {0}
  /\ MaxTick \in Nat /\ MinWidth \in Nat /\ MaxWidth \in Nat
  /\ Band \in Nat /\ Delta \in Nat /\ MaxGap \in Nat /\ Spread \in Nat
  /\ FairStep \in Nat /\ MaxMoves \in Nat
  /\ Widenings \subseteq Nat

VARIABLES
  market,  \* tick: the pool's; ref: the fence's; fair: F's; near: |gap| <= MaxGap;
           \* holds: tokens held after the unwind
  moves,
  phase,   \* "idle", "planned", "simulated", "signed"
  range, expected, \* the planned range and the pool tick it was planned at
  seen,    \* the snapshot critic and guard judge it on
  later,   \* that snapshot is not the one it was planned on
  placed   \* history: how the last one landed, its range, the market then, and the
           \* snapshot it was judged on

placementVars == <<market, moves, phase, range, expected, seen, later, placed>>

Token  == {0, 1}
TickRange == [tl : Int, tu : Int, offers : SUBSET Token]
Market == [tick : Int, ref : Int, fair : Int, near : BOOLEAN, holds : SUBSET Token]

Landing == [range : TickRange, at : Market, judged : Market,
            end : {"none", "minted", "tick", "shape", "fence", "empty"}]

At(tick, ref, fair, near, holds) ==
  [tick |-> tick, ref |-> ref, fair |-> fair, near |-> near, holds |-> holds]

NoRange  == [tl |-> 0, tu |-> 0, offers |-> {}]
Nowhere  == At(0, 0, 0, TRUE, {})
NotPlaced == [range |-> NoRange, at |-> Nowhere, judged |-> Nowhere, end |-> "none"]

PlacementTypeOK ==
  /\ market \in Market /\ moves \in Nat
  /\ phase \in {"idle", "planned", "simulated", "signed"}
  /\ range \in TickRange /\ expected \in Int /\ seen \in Market /\ later \in BOOLEAN
  /\ phase = "idle" => range = NoRange /\ seen = Nowhere /\ later = FALSE
  /\ placed \in Landing

Lesser(a, b)  == IF a <= b THEN a ELSE b
Greater(a, b) == IF a >= b THEN a ELSE b
Apart(a, b)   == IF a <= b THEN b - a ELSE a - b

\* floorToSpacing, ceilToSpacing
FloorTo(t) == t - (t % Spacing)
CeilTo(t)  == t + ((0 - t) % Spacing)

-----------------------------------------------------------------------------
(* Ranges and the fence: RangeRules, mirrored by bands.ts.                 *)

\* shapeOk
ShapeOk(r) ==
  /\ r.tl < r.tu /\ -MaxTick <= r.tl /\ r.tu <= MaxTick
  /\ r.tl % Spacing = 0 /\ r.tu % Spacing = 0
  /\ MinWidth <= r.tu - r.tl /\ r.tu - r.tl <= MaxWidth

\* MUTANT of FenceAllows: a range that starts at the pool's tick is taken not to bid.
FenceAllowsAtTick(r, tick, ref) ==
  /\ r.tu > tick => Greater(r.tl, tick) >= ref - Band
  /\ r.tl < tick => Lesser(r.tu, tick) <= ref + Band

\* RangeRules.check, fenceAllows: neither token is offered more than the band worse
\* than the reference.
FenceAllows(r, tick, ref) ==
  /\ r.tu > tick => Greater(r.tl, tick) >= ref - Band
  /\ r.tl <= tick => Lesser(r.tu, tick) <= ref + Band

Window(tick) == (tick - Delta)..(tick + Delta)

\* fenceAllowsAcross
FenceAllowsAcross(r, tick, ref) == \A t \in Window(tick) : FenceAllows(r, t, ref)

\* rangeNeeds
Needs(r, tick) == (IF r.tu > tick THEN {0} ELSE {}) \cup (IF r.tl <= tick THEN {1} ELSE {})

Contains(r, p, slack) == r.tl <= p.tl + slack /\ p.tu - slack <= r.tu /\ r.offers \subseteq p.offers

-----------------------------------------------------------------------------
(* planBands.                                                              *)

Width == CeilTo(2 * HalfWidth)

Straddle(m) ==
  [tl |-> FloorTo(m.fair - HalfWidth), tu |-> CeilTo(m.fair + HalfWidth), offers |-> Token]

\* NVDA asks, at and beyond F, below every tick it may land at.
Asks(m) ==
  LET tu == Lesser(FloorTo(Lesser(m.fair, m.tick - Delta)), FloorTo(m.ref + Band))
  IN  [tl |-> tu - Width, tu |-> tu, offers |-> {1}]

\* MUTANT of Bids: from the last tick it may land at, whose bucket holds token 1 too.
BidsFromTick(m) ==
  LET tl == Greater(CeilTo(Greater(m.fair, m.tick + Delta)), CeilTo(m.ref - Band))
  IN  [tl |-> tl, tu |-> tl + Width, offers |-> {0}]

\* USDG bids, strictly above every tick it may land at.
Bids(m) ==
  LET tl == Greater(CeilTo(Greater(m.fair, m.tick + Delta + 1)), CeilTo(m.ref - Band))
  IN  [tl |-> tl, tu |-> tl + Width, offers |-> {0}]

Side(m) == IF m.near THEN IF 0 \in m.holds THEN 0 ELSE 1
           ELSE IF m.fair < m.tick THEN 1 ELSE 0

PlanBands(m) ==
  {r \in {Straddle(m), Asks(m), Bids(m)} :
     /\ IF m.near /\ m.holds = Token
        THEN r = Straddle(m) /\ r.tl < m.tick - Delta /\ r.tu > m.tick + Delta
        ELSE r = (IF Side(m) = 0 THEN Bids(m) ELSE Asks(m)) /\ r.offers \subseteq m.holds
     /\ ShapeOk(r)
     /\ FenceAllowsAcross(r, m.tick, m.ref)}

-----------------------------------------------------------------------------
(* The overlay, the critic and the guard.                                  *)

\* widenRange: a single-sided range is widened away from the pool.
Widened(r, tick, w) ==
  [tl |-> IF w = 0 \/ r.tl >= tick THEN r.tl ELSE FloorTo(r.tl - w),
   tu |-> IF w = 0 \/ r.tu <= tick THEN r.tu ELSE CeilTo(r.tu + w),
   offers |-> r.offers]

\* Single-sided ranges must sit beyond F.
BeyondFair(r, m) ==
  /\ Needs(r, m.tick) = {1} => r.tu <= m.fair + Spacing
  /\ Needs(r, m.tick) = {0} => r.tl >= m.fair - Spacing

\* checkRerange of the critic, on one snapshot.
Criticised(r, m, slack) ==
  /\ ShapeOk(r) /\ FenceAllowsAcross(r, m.tick, m.ref)
  /\ BeyondFair(r, m)
  /\ r.offers \subseteq m.holds
  /\ \E p \in PlanBands(m) : Contains(r, p, slack)

\* MUTANT of CriticAgrees: an approved plan is not judged again.
CriticAgreedOnce(m) == m \in Market

\* At execution the drift the tick guard tolerates is tolerated here.
CriticAgrees(m) ==
  later => /\ Apart(expected, m.tick) <= Delta
           /\ Criticised(range, m, CeilTo(Delta))

\* guard: lane-solvency, tick-validity, fence-precheck.
GuardAllows(m) ==
  /\ Apart(expected, m.tick) <= Delta
  /\ ShapeOk(range) /\ FenceAllowsAcross(range, expected, m.ref)
  /\ range.offers \subseteq m.holds

-----------------------------------------------------------------------------
(* The lane.                                                               *)

\* What a rerange of r ends as, in this market. A mint of no liquidity reverts in
\* the pool.
Ends(r, m) ==
  IF Apart(m.tick, expected) > Delta THEN "tick"
  ELSE IF ~ShapeOk(r) THEN "shape"
  ELSE IF ~FenceAllows(r, m.tick, m.ref) THEN "fence"
  ELSE IF ~(Needs(r, m.tick) \subseteq r.offers \cap m.holds) THEN "empty"
  ELSE "minted"

-----------------------------------------------------------------------------
NearAgrees(m) == IF m.near THEN Apart(m.fair, m.tick) <= MaxGap + 1
                 ELSE Apart(m.fair, m.tick) >= MaxGap

PlacementInit ==
  /\ market \in [tick : 0..(Spacing - 1), ref : (-Spread)..(Spread + Spacing),
                 fair : (-Spread)..(Spread + Spacing), near : BOOLEAN, holds : SUBSET Token]
  /\ NearAgrees(market)
  /\ Apart(market.ref, market.tick) <= Spread /\ Apart(market.fair, market.tick) <= Spread
  /\ moves = 0 /\ phase = "idle" /\ range = NoRange /\ expected = 0
  /\ seen = Nowhere /\ later = FALSE /\ placed = NotPlaced

\* The decision is over.
Over ==
  /\ phase' = "idle" /\ range' = NoRange /\ expected' = 0
  /\ seen' = Nowhere /\ later' = FALSE

\* A tick whose plan is to hold.
HoldTick == phase = "idle" /\ UNCHANGED placementVars

\* A rerange is planned, perhaps widened, and approved by critic and guard.
PlanRerange ==
  /\ phase = "idle" /\ phase' = "planned"
  /\ \E r \in PlanBands(market), w \in Widenings :
       range' = Widened(r, market.tick, w) /\ Contains(range', r, 0)
  /\ Criticised(range', market, 0)
  /\ expected' = market.tick
  /\ seen' = market /\ later' = FALSE /\ placed' = NotPlaced
  /\ UNCHANGED <<market, moves>>

\* A later tick settles its approval, or the snapshot is too old to sign on.
Resense ==
  /\ phase \in {"planned", "simulated"}
  /\ seen' = market /\ later' = TRUE
  /\ UNCHANGED <<market, moves, phase, range, expected, placed>>

\* eth_call from the signer.
Simulate ==
  /\ phase = "planned"
  /\ \/ /\ Ends(range, market) = "minted" /\ phase' = "simulated"
        /\ UNCHANGED <<range, expected, seen, later>>
     \/ Ends(range, market) # "minted" /\ Over
  /\ UNCHANGED <<market, moves, placed>>

\* The last critic and guard before the signature.
SignRerange ==
  /\ phase = "simulated"
  /\ \/ /\ CriticAgrees(seen) /\ GuardAllows(seen) /\ phase' = "signed"
        /\ UNCHANGED <<range, expected, seen, later>>
     \/ ~(CriticAgrees(seen) /\ GuardAllows(seen)) /\ Over
  /\ UNCHANGED <<market, moves, placed>>

\* The transaction is mined: it mints, or it reverts.
LandRerange ==
  /\ phase = "signed" /\ Over
  /\ placed' = [range |-> range, at |-> market, judged |-> seen, end |-> Ends(range, market)]
  /\ UNCHANGED <<market, moves>>

\* Or it never is.
LoseRerange == phase = "signed" /\ Over /\ UNCHANGED <<market, moves, placed>>

\* Somebody else with the right to it (the owner, another holder of the operator's
\* key) calls the lane: only the lane's own checks stand between (bound: at first).
RerangeByOthers ==
  /\ phase = "idle" /\ placed = NotPlaced /\ moves = 0
  /\ \E tl, tu \in (-Spread - Width)..(Spread + Width), offers \in SUBSET Token \ {{}} :
       LET r == [tl |-> tl, tu |-> tu, offers |-> offers] IN
       /\ ShapeOk(r) /\ FenceAllows(r, market.tick, market.ref)
       /\ Needs(r, market.tick) \subseteq offers \cap market.holds
       /\ placed' = [range |-> r, at |-> market, judged |-> Nowhere, end |-> "minted"]
  /\ UNCHANGED <<market, moves, phase, range, expected, seen, later>>

\* The pool, the reference, F or the holdings move (bound: while a rerange is under
\* way; PlacementInit has every market to begin in).
MarketMoves ==
  /\ phase # "idle" /\ moves < MaxMoves /\ moves' = moves + 1
  /\ \/ \E d \in {-1, 1}, near \in BOOLEAN :
          market' = At(market.tick + d, market.ref, market.fair, near, market.holds)
     \/ \E d \in {-1, 1} :
          market' = At(market.tick, market.ref + d, market.fair, market.near, market.holds)
     \/ \E d \in {-FairStep, FairStep}, near \in BOOLEAN :
          market' = At(market.tick, market.ref, market.fair + d, near, market.holds)
     \/ \E holds \in SUBSET Token :
          market' = At(market.tick, market.ref, market.fair, market.near, holds)
  /\ NearAgrees(market')
  /\ UNCHANGED <<phase, range, expected, seen, later, placed>>

PlacementNext ==
  \/ PlanRerange \/ Resense \/ Simulate \/ SignRerange \/ LandRerange \/ LoseRerange
  \/ RerangeByOthers \/ MarketMoves \/ HoldTick

PlacementSpec == PlacementInit /\ [][PlacementNext]_placementVars

-----------------------------------------------------------------------------
(* Properties.                                                             *)

\* In no tick of a range is token 0 on offer below the reference less the band, nor
\* token 1 above the reference plus the band (RangeRules' notice, bucket by bucket).
OffersWithinBand(r, tick, ref) ==
  /\ \A t \in tick..(r.tu - 1) : r.tl <= t => t >= ref - Band
  /\ \A t \in r.tl..(r.tu - 1) : t <= tick => t <= ref + Band

\* Whatever was planned, judged and moved in between, what is minted offers neither
\* token worse than the band at the reference of that very block.
MintedWithinBand ==
  placed.end = "minted" => OffersWithinBand(placed.range, placed.at.tick, placed.at.ref)

\* A signed rerange reverts for its fence, its tick or its holdings only if that very
\* thing moved after the guard looked, and never for its shape (bands.ts: every range
\* satisfies the fence and keeps its shape for every tick in the window).
RevertMeansMarketMoved ==
  /\ placed.end # "shape"
  /\ placed.end = "tick" => placed.at.tick # placed.judged.tick
  /\ placed.end = "fence" => placed.at.ref # placed.judged.ref
  /\ placed.end = "empty" => placed.at.holds # placed.judged.holds

\* A single-sided range that mints sits beyond the F of the snapshot it was signed on,
\* to one spacing: asks at F or above, bids at F or below, however long the approval took.
SingleSidedBeyondFair ==
  placed.end = "minted" /\ placed.judged # Nowhere =>
    /\ placed.range.offers = {1} => placed.range.tu <= placed.judged.fair + Spacing
    /\ placed.range.offers = {0} => placed.range.tl >= placed.judged.fair - Spacing
=============================================================================
