# TLA+ models of DeltaDesk

DeltaDesk manages concentrated-liquidity positions for a user (a "desk"). An off-chain agent
(`agent/src`) senses the market, decides, asks for approval where the mode requires it, and
sends signed transactions. An on-chain lane contract (`contracts/src`) refuses whatever the
owner's limits do not admit. A separate watchdog pauses the lane when something is wrong, and
the web front end (`web`) sets a desk up.

This directory models the parts in which money moves and in which interleavings, crashes,
failing calls, lagging nodes and timelocks make testing hard. TLC checks the models on small
instances; TLAPS proves the safety properties for all instances.

Contents: [1 the system](#1-the-system), [2 modules](#2-modules), [3 runs](#3-runs),
[4 bounds](#4-bounds), [5 fairness](#5-fairness), [6 findings](#6-findings),
[7 proofs](#7-proofs), [8 observations](#8-observations), [9 not modelled](#9-not-modelled),
[10 plan](#10-plan), [11 running](#11-running).

## 1. The system

### Agent and web

| Component | State | Operations | Interacts with | Hard behaviour | What makes it correct | Module |
|---|---|---|---|---|---|---|
| Transaction executor (`executor/`) | `executions`, `tx_attempts`, the signer's last nonce | write ahead, simulate, choose nonce, sign, broadcast, re-sign on a fee floor, wait for the receipt | store, chain client, signer, safe mode | every step is an await; answers get lost; bytes once sent cannot be recalled | a step lands at most once; one in flight per signer; records never claim more or less than the chain can still do | `DeskExecutor` |
| Attempt resolver, startup (`reconcile/startup.ts`) | the same rows | read receipt, pool, nonce; drop, rebroadcast, finalise; close open decisions at boot | chain client, store, safe mode | three separate reads; runs after a crash on what is on disk | every signed step settles; nothing is dropped that can still land | `DeskExecutor`, `DeskDaemon` |
| Lane-action reconciliation (`reconcile/lane-actions.ts`) | log cursor, `lane_actions` | read chunks of the lane's log, store, match to an execution, halt on a foreign action | store, RPC nodes, safe mode | nodes lag behind each other; blocks are dropped; a crash between any two commits | no action is skipped; no settled record is revived | `LaneLog`, `DeskExecutor` |
| Daemon (`daemon.ts`, `main.ts`) | tick state, pending work, decisions | lane tick, decide, run steps, settle, stop | all of these | ticks, reconcile timer, gate and shutdown overlap | a decision runs once, with the approval its posture asks for, and its row says what happened | `DeskDaemon`, `DecisionLog` |
| Approval gate (`approval/gate.ts`) | approvals rows, marker files | request, poll, expire, cancel window | web, Telegram, files | an answer races the window; two channels disagree | an accepted approval never becomes a veto; nobody waits in vain | `DeskDaemon` |
| Daemon lock (`state/db.ts`) | one row | take, refresh, release | two processes | suspended hosts, slow shutdowns | two daemons do not act at once | `DaemonLock` |
| Regime gates and signals (`regime/`) | gate states, dwell, `gate_signals` | step at every tick, announce a transition | daemon, executor, store | late answers, drops, restarts in a dwell | no dwell is cut short; a state is announced once | `GateSignal` |
| Placement, critic, guard (`strategy/`, `overlay/`, `agents/`, `guard/`) | none | plan a range, widen it, judge it again when it is signed | lane contract | the market moves between plan, signature and block | what is minted stays within the band; a revert means the market moved | `Placement` |
| HTTP, webhook, safe mode (`http/`, `executor/safe-mode.ts`) | desk rows, delegations, webhook events | register, change mode, delegate, revoke, purge | vendor, owner, executor | events late, twice, out of order, never; a row read before an await and written after it | a revoked delegation stays revoked | `DeskSession` |
| Watchdog (`watchdog/`) | cursor, streak, foreign and unchecked actions | read, ask the agent, evaluate, pause | agent, chain | hung agent, failing pause, own restart | a detection is not lost; a stolen key pauses the lane | `Watchdog` |
| Desk setup (`web/components/desk`, `web/lib/desk`) | wizard state in the browser | eight steps, createLane, delegation, registration | factory, vendor, agent | anyone may deploy the predicted lane; receipts outlive the page | the user delegates and funds its own lane | `SetupWizard` |
| Sensing, LLM calls, signers, hedge, notifications, replay, configuration, research engine, other pages | - | - | - | - | - | section 9 |

### Contracts

| Component | State | Operations | Hard behaviour | What makes it correct | Module |
|---|---|---|---|---|---|
| `DeskLaneCore` | roles, pause, closure, caps, pending operator and caps, spent decisions | setters, timelocks, admission of calls | any order of calls by owner, operator and guardian | nobody but the owner loosens anything; loosening waits 24 h; ceilings hold | `LaneGovernance`, `Timelock` |
| `DeskLaneV3` | position ids in two slots, budgets, last rerange | rerange, reduce, collect, exitAll, withdrawPosition, signal | each call into the position manager may fail on its own | no position is lost; exposure is bounded; the exit is always open | `DeskLane` |
| `TokenBucket` | level, timestamp | refill, consume | cap changes between reads, flooring | spending is bounded over every window | `DeskLane` |
| `RangeRules` | none | shape and fence of a range | boundary ticks, straddles | no range offers a token worse than the band | `Placement` |
| `DeskLaneFactory` | implementations, pending ones, pools, lanes, lists, admin | createLane, setImplementation, ... | anyone may deploy for anyone; the admin acts in between | only owners list; predicted addresses keep their code for the delay | `DeskLaneFactory`, `Timelock` |
| `ChainlinkFence`, `PriceMath` | configuration | views, arithmetic | feed and calendar edges | refuse when unsure | section 9 |

### How they interact

The daemon ticks a lane: it reads the market and the lane, steps the gates, plans, lets the
guard judge the plan, writes the decision row, and opens the approval gate beside the next
ticks. An answered decision runs its steps one by one: the critic and the guard look again,
the executor writes the execution ahead, signs and sends. Beside the ticks a reconcile timer
resolves attempts left open, reads the lane's log and settles stranded decisions. Safe mode,
the owner's routes and the delegation webhook change the desk's status under all of them. The lane
contract admits a call only under its own rules, at its own block's market. The watchdog
trusts neither: it compares the lane's log with what the agent vouches for.

## 2. Modules

| Module | Models |
|---|---|
| `DeskExecutor` | executor, resolver, restart, desk status, lane events and the chain around them |
| `DeskDaemon` | ticks, a decision from its row to its last step, approval gate, reconcile timer, restart |
| `StepRun` | abstract: what the daemon may expect of a step it hands to the executor; `DeskExecutor` and `DeskDaemon` both implement it |
| `DecisionLog` | abstract: what the agent promises about its decisions; `DeskDaemon` implements it |
| `LaneLog` | the reader of the lane's action log over lagging nodes and a chain that may drop blocks |
| `DeskSession` | a desk's status and its delegations under webhook, routes, safe mode and purge |
| `DaemonLock` | the single-instance lock of two processes |
| `Watchdog` | the watchdog of one lane, with the agent it asks and the operator's transactions |
| `GateSignal` | gates, dwell, and the signals that announce them |
| `Placement` | one rerange from its plan to the lane's checks, while the market moves |
| `SetupWizard` | setting up a desk in the browser |
| `Timelock` | abstract: a setting that tightens at once and loosens a delay after a proposal |
| `LaneGovernance` | roles, closure, pause, caps and both timelocks of `DeskLaneCore` |
| `DeskLane` | extends `LaneGovernance` with positions and budgets (`DeskLaneV3`, `TokenBucket`) |
| `DeskLaneFactory` | the factory for one kind; its implementation setting refines `Timelock` too |
| `DeskExecutorProofs`, `DeskDaemonProofs`, `LaneLogProofs`, `DeskLaneFactoryProofs`, `SetupWizardProofs` | theorems and proofs about the module each is named after |
| `DeskLaneProofs` | about `LaneGovernance` and `DeskLane` |
| `ServiceProofs` | about `DaemonLock`, `Watchdog` and `DeskSession` |
| `MarketProofs` | about `Placement` and `GateSignal` |
| `MCDeskExecutor`, `MCContracts`, `MCDeskLane`, `MCServices`, `MCLiveness`, `MCMarket` | instances for TLC |

`MCContracts`, `MCServices`, `MCLiveness` and `MCMarket` each hold several components that share
no state. The initial state chooses one (`part`), and the others then stay as they were
initialised, so the state space is the sum of the parts, not their product. A property of one
part is trivially true in the others.

A definition marked `MUTANT of X` is X with a plausible bug. It stands beside X and is
used by no specification. Substituted for X it makes the property it was written for fail,
which shows that the property depends on the code X models.

### DeskExecutor

`exec`, `signed`, `code`, `deadline` are columns of `executions`; `att`, `count`, `nonceOf` of
`tx_attempts`. An attempt is a decision step and the number of its signature. `desk` is the desk's
status. `net`, `minedAt`, `chainNonce`, `now` are the chain: where the bytes of each attempt are,
and the operator's nonce. The agent's executor and resolver share one promise chain, so `pc` and
`cur` are the single await the process is in, and `txNonce` and `asOf` what it read before it.
Each action runs from one await to the next, with every record it changes on the way:
`Prepare`, `Simulate`, `ReadNonce`, `Sign`/`SignFails`, `Broadcast`, the answers to a send
(`SendAccepted`, `FeeCapTooLow`, `NonceTooLow`, `SendUnknown`, `SendRefused`, `AnswerLost`),
`Receipt`/`ReceiptTimeout`, then the resolver's `ReadReceipt`, `ReadPool`, `NonceUsed`,
`DeadlinePassed`, `Rebroadcast` and its failures. The environment mines, evicts, uses the nonce
elsewhere, changes the desk's status, crashes the process and lets time pass between any two.

`StepRun` is what all of this comes to for the daemon: one step in flight, none started twice, failed for
good. Confirmed is not for good. The lane's event may settle an execution while executor or resolver await
an answer about it; they then write the outcome they read over "confirmed" (`Overwrite`). `Recorded` maps the
statuses, `ImplementsStepRun` is the refinement.

`LaneEvent` settles an execution from the on-chain log at any moment. The lane's decision ids are
single use and its calls carry a deadline, so `Mine` lets at most one attempt of a step take
effect, and none after its deadline. Fees, gas, encodings and wording are left out.

### DeskDaemon and DecisionLog

`row`, `appr`, `execs`, `anchor` are the tables; `gate`, `pend`, `withdrawn`, `hold` the
process's memory, lost in a crash; `files` the marker files; `pc` what the running tick awaits.
The tick's actions follow `daemon.ts` from await to await: resolve, sense, settle or expire the pending
decision, plan, overlay, insert, ask, run the steps, finish. The gate polls and closes beside
them, humans answer through the API or a file at any moment, `Stranded` is the reconcile
timer, `Boot` what `reconcileOrphanedDecisions` and `closeOrphanedApprovals` leave behind. Time is the time left of every
deadline. A step is what `DeskExecutor` promises: it confirms, fails, or stays in flight
and is settled later. `StepEnds`, `ResolveAttempts` and `LaneEvent` are how that shows in the daemon's tables, and
`KeepsStepRun` says that they stay within the same `StepRun` that the executor implements.

`DecisionLog` says only that a decision is let through at most once, with a yes where its
posture asks for one, that only such a decision runs steps, and that what is over
stays over. `ImplementsLog` is the refinement.

### LaneLog

A pass (`at`, `from`, `to`, `safeHead`) reads the head from some node, a chunk of logs from
another, and stores, matches or declares foreign each log in commits of their own; the cursor
moves when the chunk is done. `logs` is the chain with one action per block at most. What a match
does to the execution is `LaneEvent` of the two modules above.

### DeskSession

`issued` is what happened at the vendor, in order. `eventAt` is the time the handler orders an event by
(`eventAtMs`): the vendor's, known as soon as it happened, or for an envelope without a usable
timestamp that of its first receipt, noted when it first arrives. Times may tie. One clock stands for the
vendor's and the agent's; where theirs disagree, a stamped delegation and an unstamped revocation may be
ordered wrongly. `deliveries` and `handling` are the
per-wallet queue of the webhook with the awaits inside a handler; an event's `event` row
says whether it is claimed, done or failed. `deleg`, `revocations` and `account` are the rows. `joining`
and `changing` are the registration and mode routes between their awaits. `Purge` removes
delegations that nobody bound.

### DaemonLock

Per process: its phase, what its tick does, how long its shutdown has taken, whether it is awake. An
awake process does what its timers are due for before time passes; a stalled one does nothing.
The assumption `ShutdownFits` names what the shutdown needs: heartbeat, grace and cleanup fit
into the time after which a lock counts as stale.

### Watchdog

`ops` is the sequence of the operator key's transactions, and a place in it both an
action's identity and the operator's nonce. A tick pins the head, reads agent and lane, takes
in the actions since `cursor`, asks the agent about each (`unchecked` if it does not answer), evaluates the rules and
pauses until a pause holds. The numeric rules (NAV, caps, gas) are inputs.

### GateSignal

A gate is off, held at startup or triggered, with its run of clear ticks and their age. `watch` is what the process
remembers of the lane's state, `signals` the table with the status of each signal's execution. A tick steps all
gates, updates the watch and may plan a signal; the answer, the executor's await, the
resolver and crashes come in between. Whether a gate triggers is an input.

### Placement

Ticks stand for prices. `market` holds the pool's tick, the fence's reference, fair value and the
tokens held; it moves between plan, simulation, signature and block. `PlanRerange` is the
strategy's bands and what an overlay widens them to, `Resense` the next snapshot, `SignRerange`
critic and guard on it, `LandRerange` the lane's checks in the contract's order, `RerangeByOthers` the owner's own call. Shares are reduced to the tokens a range offers.

### SetupWizard

`setup` is the wizard's stored state; the first step that is not done is on the page. A
createLane call is a prompt, bytes on their way and a receipt (`creates`), with the values of the
render it was made in, and it outlives the step and the page. `impl`, `deployed`,
`listed` and `changed` are the factory and its lanes, which anyone may add to. The user is diligent:
who acknowledges the policy has put the address on the page into the allowlist. Implementations are
numbered as they are activated, so none comes back. An admin could propose an earlier one again; the setup would then
have to outlive two timelocks on one page with a createLane call still awaited, and a
receipt for the earlier address could be taken for the present one. The model leaves that out.

### LaneGovernance, DeskLane

One action per external function, with the sender as a parameter. A call that reverts changes
nothing and is therefore not an action. The eleven caps are a function from field names; a field
is tighter upwards or downwards as `CapsLib.MIN_FIELDS` says. `caps`, `pendingCaps` and `capsEta`
are the contract's fields, and so on by name. `used`, `slots`, `turnover`, `rr1h`, `rr24h` and `lastRerangeAt` are
the lane's storage; `npm` is the position manager's ledger, with the liquidity of a
position measured in the notional it was minted with. `log` is a history variable: of each rerange
that adds risk, when it was and what had been spent on turnover before and after it.

`SlotsAfter` and `NpmAfter` are `_remove` over all slots. The sets `untouched` (read or
decrease failed) and `kept` (collect or burn failed) say which external calls failed. In
`rerange` and `reduce` only a failed collect is survivable, the other failures revert; in
`exitAll` all are. The ranges' shape, the tick guard and the placement fence can only refuse a
rerange, so leaving them to `Placement` admits more behaviours here, not fewer. Idle token balances are not
kept, so `withdraw` and `withdrawAll` change nothing here. A call's deadline never disables
it in the model, since a caller may name the present block's time.

### DeskLaneFactory

One kind and one pool: the state of other kinds is disjoint. Caps are reduced to how loose
they are. A lane's address is the pair of implementation and parameters, as CREATE2 makes it.
`pendingAdmin` is the empty set for `address(0)`.

## 3. Runs

| Run | Properties | Shows |
|---|---|---|
| `executor` | `AtMostOneLanding`, `RecordSound`, `LateLandingExplained`, `HaltedSendsNothing`, `ImplementsStepRun` | a step lands at most once, records match the chain, a deadline drop is final except in two cases (finding 1), a halted desk sends nothing that adds risk, and to the daemon every step is one of `StepRun`: one in flight, none started twice |
| `executor_settles` | `EverySettlesUnlessStranded` | every step settles, or was stranded by the crash of finding 3 |
| `contracts` | `ContractsTypeOK`, `CapsWithinCeilings`, `PositionsAccounted`, `LiveNotionalBounded`, `ExitAlwaysPossible`, `BudgetsBounded`, `OwnerCanList`, `NonOwnersOnlyRestrict`, `SettingsTimelocked`, `ImplementationTimelocked` | settings, positions, budgets and factory |
| `services` | `ServicesTypeOK`, `RevokeSticks`, `FinishedTookEffect`, `DetectionHeld`, `PromptDaemonKeepsLock`, `OneDaemonActs`, `NobodyWaitsInVain`, `RowMatchesExecutions`, `ImplementsLog`, `ApprovalNeverVetoes` | session, watchdog, lock and daemon, each beside the faults it meets |
| `liveness` | `OwnerCredentialsExpire`, `TheftPausesLane`, `DeadLockIsTaken`, `EveryDecisionSettles` | what must happen in the end in the same four components |
| `market` | `MarketTypeOK`, `SignalsDiffer`, `DwellServed`, `OnePerTransition`, `SignedStateIsCurrent`, `MintedWithinBand`, `RevertMeansMarketMoved`, `SingleSidedBeyondFair`, `SetUpForOwnLane`, `CursorTrails` | signals, placement, setup and log reader |
| `executor_final_drop` | `DroppedNeverLands` | finding 1 |
| `executor_conflict` | `ConflictMeansForeign` | finding 2 |
| `executor_resign_crash` | `EverySettles` | finding 3 |
| `lane_hourly` | `RerangesWithinCaps` | finding 4 |
| `daemon_stranded` | `StrandedSettledFromExecutions` | finding 5 |
| `session_safe_mode` | `SafeModeNeedsOwner` | finding 6 |

The last six expect a violation. Each property is stated in words where it is defined.

## 4. Bounds

| Run | Bounds |
|---|---|
| `executor` | one risk-adding step with 2 signatures, 2 broadcasts, a crash, a foreign nonce, a transport that may send twice and 4 time units; or two steps with one signature and broadcast each, a crash and 3 time units |
| `executor_settles`, `executor_resign_crash` | 1 step, 2 signatures, 1 broadcast, 1 crash |
| `executor_final_drop`, `executor_conflict` | 1 step, 1 signature, no crash |
| `contracts` | settings: 3 addresses, 4 targets (one tightens, one mixes, one returns, one is above the ceiling), delay 2, times 1-5; positions: 2 slots, notionals 1-2, 4 calls, times 1-3; budgets: 4 calls, periods 2 and 6, times 1-8; factory: 2 addresses, 2 implementations, delay 1, times 0-2 |
| `lane_hourly` | as the budgets, fixed caps, periods 4 and 8 |
| `services` | session: 3 events and crashes, 1 mode change, 1 waiting delivery per wallet; watchdog: 2 operator transactions, 1 unchecked, 1 fault; lock: 2 daemons, 2 stalls, stale at 4; daemon: 2 decisions, 1 crash |
| `liveness` | the same with 2 events, 1 stall and 1 decision |
| `market` | signals: 1 gate, 2 regimes, 2 signals, 1 crash; placement: spacing 2, band 2, ticks within 4 of the pool, 2 moves while a rerange is under way; setup: 1 Operator, 2 implementations, lanes up to salt 1, 2 createLane calls; log: 5 blocks, confirmations 2, chunk 2, lag 1, 1 dropped block |

Why they are enough:

- Two signatures are the number at which bytes of one step can compete, two steps the number at
  which steps can, and one crash separates any two awaits; a second crash is not explored.
- The code only compares times, so delays, windows and lags of one or two units meet every order
  in which deadlines can pass; the clocks run past each deadline a run has.
- Two slots are the contract's `MAX_SLOTS`. Four calls over eight units exceed both buckets: the
  shorter one refills several times and the longer one runs dry in between. Only the caps move
  among the settings there: a closure, a pause or a closed fence would only take reranges away.
- Three events are what it takes to delegate, revoke and delegate again, each with the vendor's time or without; with two deliveries of
  one wallet in a row each can be late, repeated or lost.
- Two decisions are needed for one to be withdrawn or settled while the next runs. In `services`
  the first meets every environment, and the second one only those the first left
  unchanged (`MCBound` in `MCServices`).
- Two unverified actions exceed the watchdog's limit of one unchecked action, so its cap is reached.
- References and fair values within four ticks of the pool stand in each relation to spacing,
  band and tick guard; `MarketProofs` removes the bound.
- In the log the confirmations equal lag and reorganisation together, the weakest case the
  assumption admits; five blocks are two chunks and the look back. `LaneLogProofs` removes the bound.
- In the setup a second createLane call is explored only while no lane was changed and nothing
  delegated (`MCBound` in `MCMarket`). There is one Operator and no server wallet, so what `SetUpForOwnLane` says of
  the Operator rests on the theorem.

Decision ids are interchangeable in the contracts' runs, hence their symmetry set. Where bounds
stop a model (clock, signatures, blocks) a run does not ask for freedom from deadlock; the configurations
that say so are those with `CHECK_DEADLOCK FALSE`.

## 5. Fairness

`DeskExecutor.FairSpec` assumes that the process goes on from each await (the code bounds each
with a timeout), that a crashed daemon is restarted, that the resolver is called again for every
attempt and gets an answer to its reads infinitely often if it asks infinitely often, that a transaction in the
pool is mined or evicted, and that time passes. It assumes neither that sends are accepted nor
that a desk ever becomes active again.

`DeskDaemon.FairSpec`: awaits return, the gate's timer fires, the process is restarted by its
supervisor and stops once it lost the lock, and a tick that settles or expires the pending
decision is not pre-empted for ever by a failing sensor. It assumes no human.

`MCLiveness` states the fairness of its four parts in shared conjuncts, since only actions of the
chosen part are ever enabled: the purge timer and the ageing of rows (session); the watchdog's
loop, and success in the end of what it tries again and again, which is to read, to ask an agent
that is up, to pause (watchdog); timers, the passing of time and somebody who starts the agent
when it can be started (lock). Nothing is assumed of vendor, owner or attacker.

The contracts need no fairness. The properties of `market` are safety.

## 6. Findings

1. `executor_final_drop`: the resolver drops an attempt at `now >= deadline`, the lane refuses
   only at `block.timestamp > deadline`. In the deadline second a dropped attempt can still land.
   The executor, too, drops as DEADLINE_PASSED when it stops before the send (`rh-executor.ts:310`). If
   that was a re-signature and a transport that sends twice still has a copy of the bytes refused
   for their fee before, the copy can land any time up to the deadline. `LateLandingExplained` shows (and the
   theorem proves) that there is no third way.
2. `executor_conflict`: receipt, pool and nonce are separate reads. The resolver's own
   transaction, mined between them, is reported as a foreign nonce, and the desk enters safe mode.
3. `executor_resign_crash`: between retiring bytes refused for their fee and storing the new
   ones, a crash leaves an execution "signed" without any attempt to resolve. It blocks the
   signer. `EverySettlesUnlessStranded` shows this is the only such state.
4. `lane_hourly`: the repository's README says "at most 4 reranges per hour and 24 per day". A
   bucket that starts full admits its cap and the refill of the window. `BudgetsBounded` is the
   bound that holds.
5. `daemon_stranded`: the reconcile timer settles decisions in "executing" with nothing in flight.
   Between two awaits of a live tick that is also true of the decision it works on. The row is
   marked failed, the tick then confirms its step, and after a crash the verdict stays.
   `RowMatchesExecutions` says what each status tells of the executions and shows that outside this race every
   row is truthful in that sense. The sense of "advisory" and "policy_denied" is weak: they say why a
   plan stopped, not that earlier steps of it took effect (section 8).
6. `session_safe_mode`: a revocation overwrites safe mode and the next delegation makes the
   desk active, although safe mode is meant to last until the owner signs a mode change.

## 7. Proofs

All theorems hold for every value of the constants that meets the named assumptions of the
module (`GovernanceAssumption`, `LaneAssumption`, `FactoryAssumption`, `PlacementAssumption`,
`SignalAssumption`, `LaneLogAssumption`, `DaemonAssumption`, `LockAssumption`, `ShutdownFits`, `WatchAssumption`,
`SessionAssumption`, `WizardAssumption`, and in `DeskExecutor` that bounds are naturals and a step has
at least one signature). Nearly all of these say what type a constant has. Those that say more are
`ShutdownFits`, the bound on lag and reorganisation of the log reader (below), and that a
delay, a period or a limit is not zero.

Of the properties the passing runs check, these theorems state every one that is in the prover's reach; the
list at the end of this section names the others. Hardly one of them is inductive by itself: each
component's safety rests on an invariant that says what its awaits, its records and its environment have to do with each other.

**`DeskExecutorProofs`** proves `Spec => []IInv` for a conjunction whose parts each say how two
kinds of state agree, since none of the checked properties is inductive by itself:

- `FlightInv`: one execution is in flight, and while the executor works on a step no other
  is;
- `NonceInv`: bytes are recorded before they can be on the network, all attempts of a step carry one
  nonce, a mined attempt's nonce lies below the chain's, and the nonce read for a signature is
  the one the earlier signatures used;
- `AtMostOneLanding`: once one attempt of a step is mined, its nonce is spent for its siblings;
- `LiveInv`: at most one attempt of a step is open; when the executor signs, none is, and while it
  sends and waits, only the one it holds;
- `RecordInv`: an attempt exists only for a signed step, a signed step is past preparation and never
  "failed", a confirmed or reverted row has an attempt mined that way;
- `RetiredInv`: while a step is re-signed, its earlier bytes are retired, and only a transport that
  sends twice has copies of them;
- `DeadlineInv`: the resolver's clock reading is not in the future, and each deadline drop was the
  resolver's, after which anything that landed did so in the deadline second (`DroppedAtDeadline`), or the
  executor's before a send (`DroppedUnsent`).

- `WorkInv`, beside it: what is still open or worked on belongs to a record in flight or already
  confirmed. It is why nothing is ever written to a record that failed.

From it follow `TypeCorrect`, `OneInFlight`, `LandsAtMostOnce`, `OneAttemptLive`,
`RecordsAreSound`, `LateLandingsExplained` and the action property `HaltedDesksSendNothing`.
`ExecutorKeepsContract` is the refinement of `StepRun`: each action finishes, starts or overwrites one step's
record, or leaves the mapped records as they are.
Each part is shown to survive each action; the actions that touch no variable of a part are
dispatched together.

**`DeskDaemonProofs`** proves `DaemonInv` over tables, process memory and the tick's await:

- `StoreInv`: the types, and that a marker file was made by a human (`touched`);
- `TickInv`: a decision the tick decides about is "observed", one it runs is past that;
- `PendInv`: the decision that waits for an answer is open, no tick works on another, and an
  answer "approved" has a human's yes behind it;
- `RunInv`: the executions of the decision under way are confirmed up to the present step, and
  what the tick knows of that one agrees with its record;
- `MatchInv`: what a row says fits its executions, and it is truthful (`Truthful`, status by status) once
  nobody works on it and no reconcile timer has settled it under a tick (`poached`);
- `WaitInv`: while the process is up, an open decision is pending or under way, and an
  open approval of it has a gate, an answer or a tick.

`NobodyIsForgotten`, `RowsTellExecutions` and `ApprovalsNeverVeto` follow. `DaemonKeepsLog` is the refinement:
under the mapping (`Phase`, `Asking`, `Agreed`) each tick action is one step of `DecisionLog` or
a stutter, and a crash, a boot or the reconcile timer closes decisions (`Recover`). `DaemonKeepsContract` is the other half of
`ExecutorKeepsContract`: what the daemon's model assumes of a step is within `StepRun`, so the two models fit
together at that contract (`KeepsStepRun` is proved only: no run lists it). `NothingRunsUnasked` says what the
log's promises come to, from the log's own steps: no step is begun without the yes its posture asks for.

**`LaneLogProofs`** proves `NothingIsSkipped` from the invariant `LogInv`: the chain is never
shorter than its longest less the deepest reorganisation (`ChainInv`); a pass continues at the
cursor and reads nothing that can still be dropped or that a node may lack (`PassInv`, where
`MaxLag + MaxReorg <= Confirmations` is used); each action in the chunk under way is handled, being
processed or still to be processed (`TodoInv`); what the cursor has passed is handled
(`CursorInv`); and what is stored is confirmed and at most one chunk beyond the cursor
(`StoredInv`). The code's values meet the assumption: 20 confirmations, chunks of 5000 blocks, a
look back of 1000. Lag and depth of a reorganisation are the environment's, and the 20 blocks
bound their sum, because head and logs may come from two nodes.

**`DeskLaneProofs`**, settings: lemmas compare caps (`tighterOf` tightens in every field, "no looser" is
reflexive and transitive). `CapsStayWithinCeilings` follows since what tightens a value within the ceilings stays within
them. `CapsImplementTimelock` and `OperatorImplementsTimelock` map every governance step to a
step of `Timelock` or a stutter; the second needs the invariant that a pending operator has an
eta. `SettingsImplementTimelocks` joins them, `OthersOnlyRestrict` is the action property, and
`LaneImplementsGovernance` carries all of it to the whole lane (`LaneIsTimelocked`).

Positions and budgets:

- `PositionsAreAccounted` is proved of each position and each pair of slots (`Accounted`). A rerange
  mints into slots that its own unwind left free, under ids nobody has; to know which slots those are takes
  the lemmas about free slots and their count.
- `BudgetsAreBounded` needs a potential. Spending since some time plus what is left in the bucket is
  at most a full bucket and the refill since, at the ceiling's rate (`Owes`). Refilling floors, and the caps
  move between two reads, but both only lower the left side. The log keeps what was spent before and after each
  rerange, so that the turnover of a stretch is a difference and needs no induction over a sum.
- `LiveNotionalIsBounded`: after the unwind of a rerange a slot holds nothing or a position without liquidity,
  so what the slots hold is what this rerange minted, and that is within the caps and so the ceiling.
- `ExitsLeaveNothing`: an `exitAll` goes by the slots, and since every position of the lane is accounted for in one,
  an exit in which nothing fails leaves the lane without any.

**`DeskLaneFactoryProofs`** maps the implementation of a kind to `Timelock`, for which a
replacement may wait only for a registered kind and with its time (`ImplInv`). `OwnersMayList` is what
`OwnerCanList` says, on the guards of createLane. `ContractsAreALane` and `ContractsAreAFactory` say that the
instance the `contracts` run checks is both, so each theorem above holds of it, and `ContractsAreTyped` follows.

**`ServiceProofs`**. Lock (`LockInv`): a daemon that has not stalled since its last heartbeat has
the lock, and the age of that heartbeat is bounded by the phase it is in (`HeldAge`); `ShutdownFits` keeps that age below the
stale age, and a step begins with a heartbeat. Watchdog (`WatchInv`): a lane that is paused was paused with
everything mined (`ChainInv`), a pause the tick saw or landed covers what it has read (`ReadInv`), and an
action still to be vouched for is at most the cursor, paused for if it escalated (`UncheckedInv`).
`WatchIsTyped` adds that never more than `MAX_UNCHECKED` wait: `Track` takes in as many of the earliest new
actions as there is room beside the escalated ones and then sheds as many of those as are too many, and
`EarliestCount` says that the earliest n of a set are n. Session
(`SessionInv`): a handler at an await has committed what its event asks for (`HandlerInv`), a wallet's queue
holds that wallet's events, with their times noted (`QueueInv`), a delegation in use has a later time than each revocation
on record (`UseInv`), and a finished event has a trace in the rows (`FinishedInv`), which no
other handler, purge or route takes away. That the times which the vendor stamps agree with its order, and those of
first receipts come no earlier (`TimesInv`), is what makes a stamped delegation in use newer at the vendor, too. `ServicesAreTyped` joins the four parts of the `services` run.

**`MarketProofs`**. Placement: what the lane's fence check means bucket by bucket, and that
a range the guard accepts over its window passes at every tick of the window. The invariant adds to the
three properties what holds of a range under way (`Underway`): it stays funded on every tick it
may land at, sits beyond fair value on the snapshot a critic judged, and once signed the guard allowed it. `WithinBand` holds of every mint, the owner's own calls included; `MovedBeforeRevert`
compares the lane's check at the block with the guard's on the snapshot; `BeyondFairWhenSigned`
follows from the critic's claim. Gates and signals: a gate that is on counts what this process saw (`GateInv`); only the
newest signal waits, runs or can still land, and while one waits or runs unsigned nothing else was
sent that names its state (`SignalInv`; sent means recorded so, a signal dropped by finding 1 that lands is not counted); and if the watch says that the lane has been away, the process saw it leave
a state it had held (`WatchInv`). `SignalsAreTyped` adds the bounds: counts of clear ticks stop at the dwell, ages
at the last value the code tells apart, the hold and the retry at theirs (`GatesBounded`, `AgesBounded`, `AskedOK`).
`MarketIsTyped` joins the four parts of the `market` run.

**`SetupWizardProofs`** proves `WizardInv`. The hard part is a createLane call that is still awaited when the setup has
moved on. In a setup made in one go each such call is (`OneGo`) for the address the allowlist
names (`Current`), unable to create what it was sent for (`Doomed`), or for an implementation the setup has left
behind (`Past`).

Only model-checked:

- liveness, which this prover does not treat under fairness: `EverySettlesUnlessStranded`, `OwnerCredentialsExpire`,
  `TheftPausesLane`, `DeadLockIsTaken`, `EveryDecisionSettles`;
- `ExitAlwaysPossible` and `OwnerCanList`, which use ENABLED. What they say without it is proved: `ExitsLeaveNothing` on
  what an exit does, `OwnersMayList` on what createLane asks of its caller.

The modules that prove about a composition extend its instance as well: `DeskLaneFactoryProofs` extends `MCContracts`,
`ServiceProofs` `MCServices`, `MarketProofs` `MCMarket`. What an instance defines (targets, parameters, the starts it
explores) is then fixed, its constants are not. `MCAssumption` names what the calls of `MCContracts`
need of them. The instances only choose among the components' own steps, so a theorem about a
component holds of its instance; `ContractsAreALane`, `ServicesProject` and `MarketProjects` say so.

## 8. Observations

Met while reading the code for the models. They contradict no statement quoted above, or lie
outside what a run asks.

Daemon and gate:
- switching to advisory in the middle of a plan records "advisory" although an earlier step confirmed
  (`daemon.ts:1695`), and a refusal of a later step "policy_denied" (`daemon.ts:1710`); "executed" after a
  crash speaks of the steps begun, which may be fewer than the plan has (`db.ts:844`);
- an answer by file leaves the approvals row pending until a restart;
- a switch from autopilot to copilot inside the cancel window executes without an approval;
- a late tick ignores an approval the API accepted in time (`ExpireTick`);
- an overlay that drops every action ends as "executed" with no step;
- a step that reduces risk is not run while the desk is not active;
- blind ticks are no break for a dwell;
- a pause that arrives while the tick settles may be deleted with the one the tick read;
- a shutdown with a pending decision and slow notifications can outlast the lock's patience, which is why
  `ShutdownFits` is an assumption; a SIGTERM after a lost lock runs the shutdown twice;
- a manual exit (`desk-exit.ts`) uses the executor without the lock.

Executor and log reader:
- the resolver rebroadcasts on the time it read before its awaits;
- a lane event for an execution already "dropped" leaves it dropped;
- a receipt timeout, a refused send or a drop by the resolver can overwrite "confirmed" when the lane's event was
  recorded while they awaited (`startup.ts:159`, `rh-executor.ts:522`; `Overwrite` in `StepRun`);
- until a first pass is done the cursor is unset, and a failed pass is started again from a newer
  head less 1000: blocks before it are never read (hence `first` in `CursorTrails`);
- a failed write of safe mode is only logged, while the cursor moves on.

Session, watchdog, setup:
- an older revocation delivered late revokes a newer delegation (it fails closed);
- a delegation without a usable timestamp that first arrives after a newer revocation was recorded counts as newer
  than it and is stored (`dynamic-webhook.ts:274`; `RevokeSticks` leaves this to the time of the first receipt);
- the purge judges a delegation given again by its first creation time;
- the webhook's owner check reads the desks before its awaits;
- the watchdog reads the nonce at "latest" and the logs at a pinned block;
- after a move, "Continue setup" on a listed lane counts the policy as acknowledged, so the
  Operator is delegated while the allowlist may name the old address; a createLane call that answers to
  another setup can leave lane, Operator and allowlist different. Both are
  exempt in `SetUpForOwnLane` (`resumed`, `crossed`);
- an answer to createLane or to the server wallet's creation that comes after its step is gone still picks
  (`StartDesk.tsx:508`), with the effect of a pick by hand.

Market and contracts:
- during daylight-saving time the calendar says overnight on Sunday from 20:00 to 21:00 in New York,
  while the fence is still closed;
- the critic's claim about drift is looser when the overlay widened a straddle;
- a comment at `DeskLaneFactory.sol:84` fails after the ceilings or the pool changed.

## 9. Not modelled

- `ChainlinkFence`, 512-bit price products and square roots: arithmetic over one block's inputs,
  with no state between calls; a bound small enough for TLC says nothing about overflow there.
  `DeskLane` and `Placement` take the fence as open or closed, with a reference tick.
- Sensing, fair value, strategy sizing, the cost hurdle and the gates' triggers: floating-point
  functions of external data. The models take every value they may give.
- LLM calls: any overlay the validation lets through is an input (`Widenings`, `Overlaid`).
- Signers and key vault: a vendor's cryptography. A signer signs or fails.
- The Hyperliquid hedge: the live path is not armed; what runs is a paper position whose orders and fills are rows
  of one transaction each.
- Authentication, rate limits, read-only feeds, outgoing notifications, replay, configuration,
  the research engine and recorder, the other pages, x402 endpoints, skills and demo: presentation or
  offline analysis without state of the desk. They are most of the repository's lines, as are the generated
  contract bindings, so the models cover the code that decides and moves money and not an even share of the files.
- The wizard's sign-in and two tabs at once.
- Second crashes, and more desks or lanes than one: lanes share only the lock and the signer.

Hazards without a property carry the reason in `PROJECT.json`.

## 10. Plan

1. `DeskDaemon` and `DeskExecutor` meet at `StepRun`. A product of the two would also show what the
   daemon's deadlines and the executor's have to do with each other.
2. `GateSignal`: prove that at most one signal is unanswered or in flight against the daemon's own pending decision.
3. Abstract specifications of the lock (at most one holder that is awake) and of the log reader (a
   prefix of the chain), and the refinements.

## 11. Running

    tlc -workers 2 -config executor.cfg MCDeskExecutor.tla
    tlc -workers 2 -config services.cfg MCServices.tla
    tlapm LaneLogProofs.tla

`PROJECT.json` names the module and the configuration of each run. The largest, `executor`, has some
2.6 million distinct states; `market` and `services`, with some two million each, take two to three minutes on two cores. tlapm exits with 0 for each of
the eight proof modules; together they take some fifteen minutes.
