------------------------------ MODULE MCMarket ------------------------------
(***************************************************************************)
(* What the agent decides from the market, what it reads of its lane's     *)
(* log and how a user sets a desk up, for TLC, one part at a time: the     *)
(* part is chosen at first, and the others then stay as they were          *)
(* initialised.                                                            *)
(***************************************************************************)
EXTENDS GateSignal, Placement, SetupWizard, LaneLog

MCTicks == [g \in Gate |-> 2]
MCTime  == [g \in Gate |-> 1]

\* What the parts that are not chosen stay at.
Calm == At(0, 0, 0, TRUE, Token)

CONSTANT op

VARIABLE part

marketVars == <<part, signalVars, placementVars, wizardVars, logVars>>

MCInit ==
  /\ part \in {"signals", "placement", "wizard", "log"}
  /\ SignalInit /\ PlacementInit /\ WizardInit /\ LogInit
  /\ part # "placement" => market = Calm

MCNext ==
  \/ part = "signals" /\ SignalNext /\ UNCHANGED <<part, placementVars, wizardVars, logVars>>
  \/ part = "placement" /\ PlacementNext /\ UNCHANGED <<part, signalVars, wizardVars, logVars>>
  \/ part = "wizard" /\ WizardNext /\ UNCHANGED <<part, signalVars, placementVars, logVars>>
  \/ part = "log" /\ LogNext /\ UNCHANGED <<part, signalVars, placementVars, wizardVars>>

MCSpec == MCInit /\ [][MCNext]_marketVars

\* No delegation before there is a lane, and two createLane calls in flight only while
\* there is none and no lane has been changed.
MCBound ==
  LET quiet == dynamic = {} /\ \A o \in Operator : record[o] = "unknown"
  IN  /\ quiet \/ setup.lane # NoLane
      /\ (\A i \in 1..MaxCreates : creates[i].at # "free") => quiet /\ changed = {}

\* The part that runs is typed.
MarketTypeOK ==
  /\ part = "signals" => SignalTypeOK
  /\ part = "placement" => PlacementTypeOK
  /\ part = "wizard" => WizardTypeOK
  /\ part = "log" => LogTypeOK
=============================================================================
