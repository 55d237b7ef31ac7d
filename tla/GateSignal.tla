----------------------------- MODULE GateSignal -----------------------------
(***************************************************************************)
(* The gates of one lane and the signals that announce them: the gate      *)
(* machine with its startup hold and its dwell (regime/machine.ts), the    *)
(* watch a process keeps of the lane's state, the decision to announce it  *)
(* (regime/signal.ts, daemon.ts planGateSignal) and the signal's way       *)
(* through approval and executor, across crashes.                          *)
(*                                                                         *)
(* A tick is one action; what is awaited in it (the executor), what goes   *)
(* on beside it (an answer, the resolver) and time are others. Times are   *)
(* kept as ages, and an age stops counting at the last value the code can  *)
(* tell from the next.                                                     *)
(***************************************************************************)
EXTENDS Integers, Sequences, FiniteSets

CONSTANTS
  Gate,        \* implemented gates
  ReduceOnly,  \* those with the effect reduce_only: a process starts with them on
  Regime,      \* calendar regimes
  ClearTicks,  \* per gate: clear ticks until it turns off
  ClearTime,   \* per gate: time since the first of them
  MinDwell,    \* DESK_SIGNAL_MIN_DWELL_SEC
  RetryAfter,  \* signalRetryMs
  HoldTime,    \* the hold after a signal that did not execute
  SignalHour, MaxPerHour,
  MaxSignals, MaxDeaths \* bounds on signals planned and on crashes

ASSUME SignalAssumption ==
  /\ ReduceOnly \subseteq Gate
  /\ ClearTicks \in [Gate -> Nat \ {0}] /\ ClearTime \in [Gate -> Nat]
  /\ MinDwell \in Nat /\ RetryAfter \in Nat /\ HoldTime \in Nat /\ SignalHour \in Nat
  /\ MaxPerHour \in Nat /\ MaxSignals \in Nat /\ MaxDeaths \in Nat

VARIABLES
  gates,     \* GateState per gate; why: "held" at startup, or "triggered"; age: since the
             \* first clear tick
  watch,     \* SignalWatch: the state seen, for how long, settled; the state held before
             \* it, and whether it was left since the newest signal was planned
  signals,   \* gate_signals: each with its status and the age of executions.signed_at_ms
  newest,    \* the age of the newest signal's created_at_ms
  asked,     \* the signal that waits for an answer, and the answer
  running,   \* the signal executeSteps works on
  holdOff,   \* what is left of signalHoldUntilMs
  ticked,    \* the tick of this time is done
  deaths,
  clear,     \* history: per gate, the clear ticks in a row while it was on, and their age
  elsewhere  \* history: since the newest signal was planned this process saw the lane hold
             \* another state for the dwell, and leave it

answering  == <<asked, running>>
history    == <<clear, elsewhere>>
signalVars == <<gates, watch, signals, newest, answering, holdOff, ticked, deaths, history>>

State   == [regime : Regime, gates : SUBSET Gate]
Never   == -1
NoState == [regime |-> 0, gates |-> {}]
NoWatch == [key |-> NoState, age |-> 0, settled |-> FALSE, away |-> NoState, left |-> FALSE]
NoAsk   == [id |-> 0, answer |-> "none"]

On(g)  == gates[g].why # "off"
Latest == Len(signals)

ClearCount(g) == [ticks : 0..ClearTicks[g], age : Never..ClearTime[g]]

SignalTypeOK ==
  /\ \A g \in Gate : /\ gates[g].why \in {"off", "held", "triggered"}
                     /\ [ticks |-> gates[g].ticks, age |-> gates[g].age] \in ClearCount(g)
                     /\ clear[g] \in ClearCount(g)
  /\ watch = NoWatch \/ watch \in [key : State, age : 0..MinDwell, settled : BOOLEAN,
                                   away : State \cup {NoState}, left : BOOLEAN]
  /\ signals \in Seq([to : State, signed : Never..(SignalHour + 1),
                      status : {"pending", "sent", "confirmed", "failed", "declined", "not_sent"}])
  /\ newest \in 0..RetryAfter /\ holdOff \in 0..HoldTime
  /\ asked \in [id : 0..Latest, answer : {"none", "approved", "denied", "timeout"}]
  /\ running \in 0..Latest /\ (running # 0 => asked = NoAsk)
  /\ \A i \in {running, asked.id} \ {0} : signals[i].signed = Never => signals[i].status = "pending"
  /\ ticked \in BOOLEAN /\ deaths \in 0..MaxDeaths /\ elsewhere \in BOOLEAN

\* createGateMachine, initial. HALT flattens the lane: no process starts with it.
GatesAtStart ==
  [g \in Gate |-> [why |-> IF g \in ReduceOnly THEN "held" ELSE "off", ticks |-> 0, age |-> Never]]

NotYetClear == [g \in Gate |-> [ticks |-> 0, age |-> Never]]

SignalInit ==
  /\ gates = GatesAtStart /\ watch = NoWatch
  /\ signals = <<>> /\ newest = 0 /\ asked = NoAsk /\ running = 0 /\ holdOff = 0
  /\ ticked = FALSE /\ deaths = 0
  /\ clear = NotYetClear /\ elsewhere = FALSE

-----------------------------------------------------------------------------
(* The gate machine.                                                       *)

Upto(n, bound) == IF n < bound THEN n ELSE bound

\* One more clear tick of g.
MoreClear(g, s) ==
  [s EXCEPT !.ticks = Upto(@ + 1, ClearTicks[g]), !.age = IF @ = Never THEN 0 ELSE @]

ClearEnough(g, s) == s.ticks >= ClearTicks[g] /\ s.age >= ClearTime[g]

\* MUTANT of GateStep: a trigger during the dwell leaves the clear ticks counted.
GateStepKeepingStreak(g, trig) ==
  LET n == MoreClear(g, gates[g])
  IN  IF trig THEN [gates[g] EXCEPT !.why = "triggered"]
      ELSE IF ~On(g) \/ ClearEnough(g, n) THEN [why |-> "off", ticks |-> 0, age |-> Never]
      ELSE n

\* step(): on at once, off after the dwell.
GateStep(g, trig) ==
  LET n == MoreClear(g, gates[g])
  IN  IF trig THEN [why |-> "triggered", ticks |-> 0, age |-> Never]
      ELSE IF ~On(g) \/ ClearEnough(g, n) THEN [why |-> "off", ticks |-> 0, age |-> Never]
      ELSE n

\* gatesSettled
SettledIn(gs) == \A g \in Gate : gs[g].why # "held"

\* signalStateOf
StateIn(gs, regime) == [regime |-> regime, gates |-> {g \in Gate : gs[g].why # "off"}]

\* MUTANT of Watched: a state that flapped counts as one the lane was away in.
WatchedFlaps(key, settled) ==
  IF watch.key = key THEN [watch EXCEPT !.settled = settled]
  ELSE [key |-> key, age |-> 0, settled |-> settled, away |-> watch.key, left |-> TRUE]

\* watchState
Watched(key, settled) ==
  IF watch.key = key THEN [watch EXCEPT !.settled = settled]
  ELSE LET held == watch.settled /\ watch.age >= MinDwell
       IN  [key |-> key, age |-> 0, settled |-> settled,
            away |-> IF held THEN watch.key ELSE watch.away,
            left |-> held \/ watch.left]

-----------------------------------------------------------------------------
(* Whether to announce a state.                                            *)

\* lastEmittedGateSignal: signed, and confirmed or still able to land.
Emitted == {i \in DOMAIN signals : signals[i].status \in {"sent", "confirmed"}}
LastEmitted == CHOOSE i \in Emitted : \A j \in Emitted : j <= i
OnChain(key) == Emitted # {} /\ signals[LastEmitted].to = key

\* countSignedSignals
Signed1h == {i \in DOMAIN signals : signals[i].signed \in 0..SignalHour}

\* One per transition: what became of the newest signal, if it announced this state.
\* A "pending" signal nobody waits for was orphaned by a crash.
AskAgain(key, w) ==
  LET reentered == w.away \notin {NoState, key} /\ w.left
  IN  signals[Latest].to = key /\ ~reentered =>
        \/ signals[Latest].status = "confirmed"
        \/ signals[Latest].status \in {"not_sent", "pending"} /\ newest >= RetryAfter

\* MUTANT of Announce: whatever was announced last is not looked at.
AnnounceAgain(key, w) ==
  /\ holdOff = 0
  /\ w.settled
  /\ ~ \E i \in DOMAIN signals : signals[i].status = "sent"
  /\ Latest > 0 => AskAgain(key, w) /\ w.age >= MinDwell
  /\ Cardinality(Signed1h) < MaxPerHour

\* detectGateSignal: nothing is in flight, and the state is another, has held, and
\* was not asked about before.
Announce(key, w) ==
  /\ holdOff = 0
  /\ w.settled
  /\ ~ \E i \in DOMAIN signals : signals[i].status = "sent"
  /\ ~OnChain(key)
  /\ Latest > 0 => AskAgain(key, w) /\ w.age >= MinDwell
  /\ Cardinality(Signed1h) < MaxPerHour

-----------------------------------------------------------------------------
(* The daemon.                                                             *)

Became(i, status) == signals' = [signals EXCEPT ![i].status = status]
HoldOff == holdOff' = HoldTime

\* MUTANT of Settled: it is sent whatever the state is by now.
SettledLate(i, key) ==
  /\ asked' = NoAsk /\ key \in State
  /\ \/ asked.answer = "approved" /\ running' = i /\ UNCHANGED <<signals, holdOff>>
     \/ /\ asked.answer # "approved"
        /\ Became(i, IF asked.answer = "denied" THEN "declined" ELSE "not_sent")
        /\ HoldOff /\ UNCHANGED running

\* settle and executeSteps, for the signal that was asked about: the state must
\* still be the one it announces.
Settled(i, key) ==
  /\ asked' = NoAsk
  /\ \/ /\ asked.answer = "approved" /\ signals[i].to = key
        /\ running' = i /\ UNCHANGED <<signals, holdOff>>
     \/ /\ ~(asked.answer = "approved" /\ signals[i].to = key)
        /\ Became(i, IF asked.answer = "denied" THEN "declined" ELSE "not_sent")
        /\ HoldOff /\ UNCHANGED running

NewSignal(key, status) ==
  signals' = Append(signals, [to |-> key, status |-> status, signed |-> Never])

\* A new row. Guard or posture may refuse it, it may run at once, or ask.
PlanSignal(key) ==
  /\ Latest < MaxSignals
  /\ \/ NewSignal(key, "not_sent") /\ HoldOff /\ UNCHANGED answering
     \/ NewSignal(key, "pending") /\ running' = Latest + 1 /\ UNCHANGED <<holdOff, asked>>
     \/ /\ NewSignal(key, "pending") /\ asked' = [id |-> Latest + 1, answer |-> "none"]
        /\ UNCHANGED <<holdOff, running>>

\* A risk-reducing plan goes first; a desk may be in no state to sign.
SignalPart(key, w, busy) ==
  LET waiting == asked.id # 0
      idle    == UNCHANGED <<signals, answering, holdOff>>
  IN  \/ ~waiting /\ (busy \/ ~Announce(key, w)) /\ idle
      \/ ~waiting /\ ~busy /\ Announce(key, w) /\ PlanSignal(key)
      \/ /\ waiting /\ busy
         /\ asked' = NoAsk /\ Became(asked.id, "not_sent") /\ HoldOff /\ UNCHANGED running
      \/ waiting /\ ~busy /\ asked.answer = "none" /\ idle
      \/ waiting /\ ~busy /\ asked.answer # "none" /\ Settled(asked.id, key)

\* history: the state this tick leaves was held, and is not the newest signal's.
LeavesHeld(key) ==
  /\ Latest > 0 /\ watch.key \notin {NoState, key, signals[Latest].to}
  /\ watch.settled /\ watch.age >= MinDwell

ClearSeen(g, trig) ==
  IF trig \/ ~On(g) THEN [ticks |-> 0, age |-> Never] ELSE MoreClear(g, clear[g])

LaneTick(trig, regime, busy) ==
  LET gs  == [g \in Gate |-> GateStep(g, g \in trig)]
      key == StateIn(gs, regime)
      w   == Watched(key, SettledIn(gs))
  IN  /\ ~ticked /\ ticked' = TRUE /\ running = 0
      /\ gates' = gs
      /\ SignalPart(key, w, busy)
      /\ IF Len(signals') > Latest
         THEN watch' = [w EXCEPT !.left = FALSE] /\ newest' = 0 /\ elsewhere' = FALSE
         ELSE watch' = w /\ elsewhere' = (elsewhere \/ LeavesHeld(key)) /\ UNCHANGED newest
      /\ clear' = [g \in Gate |-> ClearSeen(g, g \in trig)]
      /\ UNCHANGED deaths

\* The owner answers, or the window ends.
SignalAnswer(a) ==
  /\ asked.id # 0 /\ asked.answer = "none"
  /\ asked' = [asked EXCEPT !.answer = a]
  /\ UNCHANGED <<gates, watch, signals, newest, running, holdOff, ticked, deaths, history>>

\* The executor signs, after the guard counted once more.
SignSignal ==
  /\ running # 0 /\ signals[running].signed = Never
  /\ Cardinality(Signed1h) < MaxPerHour
  /\ signals' = [signals EXCEPT ![running].signed = 0, ![running].status = "sent"]
  /\ UNCHANGED <<gates, watch, newest, answering, holdOff, ticked, deaths, history>>

\* MUTANT of SignalRefused: the step loop goes on.
SignalRefusedGoesOn ==
  /\ running # 0 /\ signals[running].signed = Never
  /\ Became(running, "not_sent") /\ HoldOff
  /\ UNCHANGED <<gates, watch, newest, answering, ticked, deaths, history>>

\* Guard, simulation or signer refuse; nothing was signed.
SignalRefused ==
  /\ running # 0 /\ signals[running].signed = Never
  /\ Became(running, "not_sent") /\ HoldOff /\ running' = 0
  /\ UNCHANGED <<gates, watch, newest, asked, ticked, deaths, history>>

\* What the executor knows when it returns: confirmed, reverted, dropped, or nothing.
SignalReturns(status) ==
  /\ running # 0 /\ signals[running].signed # Never
  /\ running' = 0
  /\ \/ signals[running].status = "sent" /\ Became(running, status)
     \/ signals[running].status # "sent" /\ UNCHANGED signals
  /\ IF signals'[running].status = "confirmed" THEN UNCHANGED holdOff ELSE HoldOff
  /\ UNCHANGED <<gates, watch, newest, asked, ticked, deaths, history>>

\* The resolver or the lane's log settles one in flight.
SignalResolved(i, status) ==
  /\ i \in DOMAIN signals /\ signals[i].status = "sent" /\ Became(i, status)
  /\ UNCHANGED <<gates, watch, newest, answering, holdOff, ticked, deaths, history>>

ProcessCrash ==
  /\ deaths < MaxDeaths /\ deaths' = deaths + 1
  /\ gates' = GatesAtStart /\ watch' = NoWatch /\ asked' = NoAsk /\ running' = 0 /\ holdOff' = 0
  /\ clear' = NotYetClear /\ elsewhere' = FALSE
  /\ UNCHANGED <<signals, newest, ticked>>

Older(age, bound) == IF age = Never THEN Never ELSE Upto(age + 1, bound)

\* Time passes, with a tick in it or without (a blind one, one still under way).
SignalTime ==
  /\ ticked' = FALSE
  /\ gates' = [g \in Gate |-> [gates[g] EXCEPT !.age = Older(@, ClearTime[g])]]
  /\ clear' = [g \in Gate |-> [clear[g] EXCEPT !.age = Older(@, ClearTime[g])]]
  /\ watch' = IF watch = NoWatch THEN watch ELSE [watch EXCEPT !.age = Older(@, MinDwell)]
  /\ signals' = [i \in DOMAIN signals |-> [signals[i] EXCEPT !.signed = Older(@, SignalHour + 1)]]
  /\ newest' = IF signals = <<>> THEN 0 ELSE Older(newest, RetryAfter)
  /\ holdOff' = IF holdOff = 0 THEN 0 ELSE holdOff - 1
  /\ UNCHANGED <<answering, deaths, elsewhere>>

SignalNext ==
  \/ \E trig \in SUBSET Gate, regime \in Regime, busy \in BOOLEAN : LaneTick(trig, regime, busy)
  \/ \E a \in {"approved", "denied", "timeout"} : SignalAnswer(a)
  \/ SignSignal \/ SignalRefused
  \/ \E status \in {"sent", "confirmed", "failed", "not_sent"} : SignalReturns(status)
  \/ \E i \in 1..MaxSignals, status \in {"confirmed", "failed", "not_sent"} :
       SignalResolved(i, status)
  \/ ProcessCrash \/ SignalTime

SignalSpec == SignalInit /\ [][SignalNext]_signalVars

-----------------------------------------------------------------------------
(* Properties.                                                             *)

\* A gate turns off in a tick only after this process itself saw it clear for the
\* whole dwell without a break; a crash in the middle of a dwell shortens nothing
\* (machine.ts: a restart cannot skip a dwell that was in progress).
DwellServed ==
  [][\A g \in Gate :
       On(g) /\ gates'[g].why = "off" /\ deaths' = deaths => ClearEnough(g, clear'[g])]_signalVars

\* What is or may be on the chain never repeats the state announced before it,
\* across denials, reverts, drops and restarts.
SignalsDiffer ==
  \A i, j \in Emitted :
    i < j /\ (\A k \in Emitted : ~(i < k /\ k < j)) => signals[i].to # signals[j].to

\* The owner is not asked again about a state it declined, nor one announced again
\* whose signal was signed in vain, while the lane has been nowhere else for the dwell.
OnePerTransition ==
  [][Len(signals') > Latest /\ signals # <<>>
       /\ signals[Latest].status \in {"declined", "failed"}
       /\ signals'[Latest + 1].to = signals[Latest].to
     => elsewhere \/ LeavesHeld(signals[Latest].to)]_signalVars

\* The state signed is the lane's at the latest tick, however late the answer came.
SignedStateIsCurrent ==
  [][\A i \in DOMAIN signals : signals[i].signed = Never /\ signals'[i].signed # Never =>
       watch.key = signals[i].to]_signalVars
=============================================================================
