------------------------------ MODULE DeskLane ------------------------------
(***************************************************************************)
(* One lane (DeskLaneV3 over DeskLaneCore): its positions in the slots,    *)
(* the budgets a rerange consumes, and the settings of LaneGovernance that *)
(* admit or refuse a call. The position manager (NPM) and the price fence  *)
(* are external: a call to the first may fail, the second opens and closes *)
(* by itself. A call that reverts changes nothing, so it is no action; a   *)
(* deadline inside its window always exists (the block's own timestamp).   *)
(***************************************************************************)
EXTENDS LaneGovernance, FiniteSets, Sequences

CONSTANTS
  Decision,      \* decision ids
  Amount,        \* the fence-valued notional a minted range may have
  Hour, Day,     \* bucket periods
  Scale          \* WAD

ASSUME LaneAssumption ==
  /\ IsFiniteSet(Decision) /\ Amount \subseteq Nat \ {0}
  /\ Hour \in Nat \ {0} /\ Day \in Nat \ {0} /\ Scale \in Nat \ {0}

VARIABLES
  used,                  \* _decisionUsedAt # 0
  slots,                 \* _tokenIds: 0 is a free slot
  turnover, rr1h, rr24h, \* token buckets
  lastRerangeAt,
  npm,                   \* NPM's positions, by token id
  fenceOpen,             \* both tokens' fence code is 0
  log                    \* history: the risk-adding reranges, each with all that was
                         \* charged before it and after it

Slot == 0 .. MaxSlots - 1
budgetVars == <<turnover, rr1h, rr24h, lastRerangeAt>>
laneVars == <<used, slots, budgetVars, npm, fenceOpen, log>>

Bucket == [level : Nat, at : Nat]
Position == [liq : Nat, holder : {"lane", "owner", "burned"}]

LaneTypeOK ==
  /\ used \subseteq Decision
  /\ slots \in [Slot -> 0 .. Len(npm)]
  /\ {turnover, rr1h, rr24h} \subseteq Bucket /\ lastRerangeAt \in Nat
  /\ npm \in Seq(Position)
  /\ fenceOpen \in BOOLEAN
  /\ log \in Seq([at : Nat, before : Nat, after : Nat])

-----------------------------------------------------------------------------
\* TokenBucket.

Full(cap, t) == [level |-> cap * Scale, at |-> t]

Smaller(x, y) == IF x < y THEN x ELSE y

\* A full period away the bucket is full, whatever was left in it.
Available(b, cap, period, t) ==
  IF t - b.at >= period
  THEN cap * Scale
  ELSE Smaller(cap * Scale, b.level + (cap * Scale * (t - b.at)) \div period)

CanTake(b, cap, period, amount) == amount * Scale <= Available(b, cap, period, now)

\* MUTANT of Take: the refill is credited and the bucket's time stays behind.
TakeKeepsTime(b, cap, period, amount) ==
  [level |-> Available(b, cap, period, now) - amount * Scale, at |-> b.at]

Take(b, cap, period, amount) ==
  [level |-> Available(b, cap, period, now) - amount * Scale, at |-> now]

-----------------------------------------------------------------------------
\* _remove, for every occupied slot. The decrease may fail (the position is
\* untouched), or the collect or the burn may fail (the liquidity is out, and
\* the slot is kept for what is still owed).

Occupied == {sl \in Slot : slots[sl] # 0}

\* MUTANT of SlotsAfter: a slot whose collect failed is freed all the same.
SlotsAfterAll(untouched, kept) ==
  [sl \in Slot |-> IF sl \in untouched THEN slots[sl] ELSE 0]

SlotsAfter(untouched, kept) ==
  [sl \in Slot |-> IF sl \in untouched \cup kept THEN slots[sl] ELSE 0]

\* MUTANT of NpmAfter: a slot whose collect failed also keeps its liquidity.
NpmAfterKept(untouched, kept) ==
  [id \in DOMAIN npm |->
     IF \E sl \in Slot \ (untouched \cup kept) : slots[sl] = id
     THEN [liq |-> 0, holder |-> "burned"]
     ELSE npm[id]]

NpmAfter(untouched, kept) ==
  [id \in DOMAIN npm |->
     IF \E sl \in Slot \ untouched : slots[sl] = id
     THEN [liq |-> 0, holder |-> IF \E sl \in kept : slots[sl] = id THEN "lane" ELSE "burned"]
     ELSE npm[id]]

\* _mintAll: the i-th new position goes to the i-th free slot.
FreeUpTo(held, sl) == Cardinality({x \in Slot : x <= sl /\ held[x] = 0})

SlotsMinted(held, n) ==
  [sl \in Slot |-> IF held[sl] = 0 /\ FreeUpTo(held, sl) <= n
                   THEN Len(npm) + FreeUpTo(held, sl) ELSE held[sl]]

Minted(amounts) == [i \in DOMAIN amounts |-> [liq |-> amounts[i], holder |-> "lane"]]

\* The partial sums of f[1], ..., f[n].
Sums(f, n) ==
  LET upTo[k \in 0 .. n] == IF k = 0 THEN 0 ELSE upTo[k - 1] + f[k]
  IN  upTo

Total(amounts) == Sums(amounts, Len(amounts))[Len(amounts)]

-----------------------------------------------------------------------------
\* _spend: an id acts once. (A reverted call spends nothing.)
Spend(d) == d \in Decision \ used /\ used' = used \cup {d}

AdmitRiskAdding ==
  /\ closedUntil <= now /\ fenceOpen
  /\ now >= lastRerangeAt + caps["minRerangeInterval"]
  /\ CanTake(rr1h, caps["reranges1h"], Hour, 1)
  /\ rr1h' = Take(rr1h, caps["reranges1h"], Hour, 1)
  /\ CanTake(rr24h, caps["reranges24h"], Day, 1)
  /\ rr24h' = Take(rr24h, caps["reranges24h"], Day, 1)

ChargeNotional(usd) ==
  /\ usd <= caps["maxDeployUsd6"]
  /\ CanTake(turnover, caps["turnoverUsd6PerDay"], Day, usd)
  /\ turnover' = Take(turnover, caps["turnoverUsd6PerDay"], Day, usd)

\* All that was charged so far.
Charged == IF log = <<>> THEN 0 ELSE log[Len(log)].after

LaneInit ==
  /\ GovInit
  /\ used = {} /\ slots = [sl \in Slot |-> 0] /\ npm = <<>>
  /\ turnover = Full(InitCaps["turnoverUsd6PerDay"], StartTime)
  /\ rr1h = Full(InitCaps["reranges1h"], StartTime)
  /\ rr24h = Full(InitCaps["reranges24h"], StartTime)
  /\ lastRerangeAt = 0
  /\ fenceOpen \in BOOLEAN
  /\ log = <<>>

\* signal, and collect: fees come to the lane, failing or not, and nothing else moves.
SignalOrCollect(s, d) ==
  /\ IsManager(s) /\ Spend(d)
  /\ UNCHANGED <<vars, slots, budgetVars, npm, fenceOpen, log>>

\* rerange without ranges: unwind and hold.
UnwindAndHold(s, d, kept) ==
  /\ IsManager(s) /\ ~paused /\ Spend(d)
  /\ slots' = SlotsAfter({}, kept) /\ npm' = NpmAfter({}, kept)
  /\ UNCHANGED <<vars, budgetVars, fenceOpen, log>>

\* rerange: unwind every slot, then mint one position per range. A slot the unwind
\* had to keep is not free.
Rerange(s, d, kept, amounts) ==
  /\ IsManager(s) /\ ~paused /\ Spend(d)
  /\ Len(amounts) <= caps["maxRanges"]
  /\ AdmitRiskAdding
  /\ LET held == SlotsAfter({}, kept) IN
       /\ Len(amounts) <= FreeUpTo(held, MaxSlots - 1)
       /\ slots' = SlotsMinted(held, Len(amounts))
  /\ npm' = NpmAfter({}, kept) \o Minted(amounts)
  /\ ChargeNotional(Total(amounts))
  /\ lastRerangeAt' = now
  /\ log' = Append(log, [at |-> now, before |-> Charged, after |-> Charged + Total(amounts)])
  /\ UNCHANGED <<vars, fenceOpen>>

\* reduce: take out up to want; the position is burned once it is empty and collected.
Reduce(s, d, sl, want, collected) ==
  /\ IsReducer(s) /\ sl \in Occupied /\ Spend(d)
  /\ LET id == slots[sl]
         left == npm[id].liq - Smaller(want, npm[id].liq)
         closed == collected /\ left = 0
     IN /\ npm' = [npm EXCEPT ![id] = [liq |-> left, holder |-> IF closed THEN "burned" ELSE "lane"]]
        /\ slots' = [slots EXCEPT ![sl] = IF closed THEN 0 ELSE id]
  /\ UNCHANGED <<vars, budgetVars, fenceOpen, log>>

\* MUTANT of ExitAll: refused while the lane is paused.
ExitAllUnpaused(s, d, untouched, kept) ==
  /\ IsReducer(s) /\ ~paused /\ Spend(d)
  /\ slots' = SlotsAfter(untouched, kept) /\ npm' = NpmAfter(untouched, kept)
  /\ UNCHANGED <<vars, budgetVars, fenceOpen, log>>

\* exitAll: a slot that fails is kept, and the others still leave.
ExitAll(s, d, untouched, kept) ==
  /\ IsReducer(s) /\ Spend(d)
  /\ slots' = SlotsAfter(untouched, kept) /\ npm' = NpmAfter(untouched, kept)
  /\ UNCHANGED <<vars, budgetVars, fenceOpen, log>>

WithdrawPosition(s, sl) ==
  /\ s = Owner /\ sl \in Occupied
  /\ slots' = [slots EXCEPT ![sl] = 0]
  /\ npm' = [npm EXCEPT ![slots[sl]].holder = "owner"]
  /\ UNCHANGED <<vars, used, budgetVars, fenceOpen, log>>

\* The market opens or closes, a feed goes stale or recovers.
FenceMoves ==
  /\ fenceOpen' = ~fenceOpen
  /\ UNCHANGED <<vars, used, slots, budgetVars, npm, log>>

Call(s, d) ==
  \/ SignalOrCollect(s, d)
  \/ \E kept \in SUBSET Occupied :
       \/ UnwindAndHold(s, d, kept)
       \/ \E n \in 1 .. MaxSlots : \E amounts \in [1 .. n -> Amount] : Rerange(s, d, kept, amounts)
       \/ \E untouched \in SUBSET (Occupied \ kept) : ExitAll(s, d, untouched, kept)
  \/ \E sl \in Slot, want \in Amount \cup {0}, collected \in BOOLEAN :
       Reduce(s, d, sl, want, collected)

laneAll == <<vars, laneVars>>

LaneNext ==
  \/ \E s \in Address, d \in Decision : Call(s, d)
  \/ \E s \in Address, sl \in Slot : WithdrawPosition(s, sl)
  \/ (\E s \in Address : Govern(s)) /\ UNCHANGED laneVars
  \/ Tick /\ UNCHANGED laneVars
  \/ FenceMoves

LaneSpec == LaneInit /\ [][LaneNext]_laneAll

-----------------------------------------------------------------------------
\* Every position the lane minted is in exactly one slot until it is burned or the
\* owner takes it, however unwinds, collects and burns fail on the way (_remove,
\* _freeSlot, withdrawPosition).
PositionsAccounted ==
  /\ {id \in DOMAIN npm : npm[id].holder = "lane"} = {slots[sl] : sl \in Occupied}
  /\ \A x, y \in Occupied : slots[x] = slots[y] => x = y

\* What each slot holds, as it was valued when it was minted.
Notional == [k \in 1 .. MaxSlots |-> IF slots[k - 1] = 0 THEN 0 ELSE npm[slots[k - 1]].liq]

\* However many reranges there have been, and whichever unwinds were cut short, what
\* the slots hold was never valued above the deploy ceiling of a single rerange.
LiveNotionalBounded == Sums(Notional, MaxSlots)[MaxSlots] <= Ceiling["maxDeployUsd6"]

\* The turnover of any stretch of reranges, and how many there are by the hour and day.
TurnoverBounded ==
  \A i, j \in DOMAIN log : i <= j =>
    (log[j].after - log[i].before) * Day
      <= Ceiling["turnoverUsd6PerDay"] * (Day + log[j].at - log[i].at)

RerangesBounded ==
  \A i, j \in DOMAIN log : i <= j =>
    /\ (j - i + 1) * Hour <= Ceiling["reranges1h"] * (Hour + log[j].at - log[i].at)
    /\ (j - i + 1) * Day <= Ceiling["reranges24h"] * (Day + log[j].at - log[i].at)

\* Over any stretch of time, across cap changes, the reranges spend at most one full
\* bucket and what it refills in that time: turnover, reranges per hour and per day
\* (TokenBucket).
BudgetsBounded == TurnoverBounded /\ RerangesBounded

\* "at most 4 reranges per hour and 24 per day" (README.md:186): while the caps stay as
\* they are, no stretch shorter than the period sees more reranges than the cap.
RerangesWithinCaps ==
  \A i, j \in DOMAIN log : i <= j =>
    /\ log[j].at - log[i].at < Hour => j - i + 1 <= caps["reranges1h"]
    /\ log[j].at - log[i].at < Day => j - i + 1 <= caps["reranges24h"]

\* Whatever the pause, the closure, the fence, the caps and the budgets are, and
\* whatever failed before, the owner can empty every slot with one exitAll as soon as
\* the position manager answers.
ExitAlwaysPossible ==
  \A d \in Decision \ used : ENABLED (ExitAll(Owner, d, {}, {}) /\ slots' = [sl \in Slot |-> 0])
=============================================================================
