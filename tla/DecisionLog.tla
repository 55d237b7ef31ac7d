---------------------------- MODULE DecisionLog ----------------------------
(***************************************************************************)
(* What the desk agent promises about its decisions, apart from how the    *)
(* daemon, the approval gate and the store keep the promise: a decision is *)
(* let through once, without a human's yes only when its posture asks for  *)
(* none, and only what was let through and is not yet over runs steps.     *)
(***************************************************************************)
EXTENDS Naturals

CONSTANTS Decision   \* decisions

VARIABLES
  phase,    \* "none", "open", "running" or "over"
  asks,     \* whether the decision needs a human's yes
  agreed,   \* whether a human said yes
  ran       \* steps that reached an executor

logVars == <<phase, asks, agreed, ran>>

LogInit ==
  /\ phase = [d \in Decision |-> "none"]
  /\ asks = [d \in Decision |-> FALSE]
  /\ agreed = [d \in Decision |-> FALSE]
  /\ ran = [d \in Decision |-> 0]

Move(d, from, to) == phase[d] = from /\ phase' = [phase EXCEPT ![d] = to]

Propose(d) == Move(d, "none", "open") /\ UNCHANGED <<asks, agreed, ran>>

Agree(d) ==
  /\ ~agreed[d]
  /\ agreed' = [agreed EXCEPT ![d] = TRUE]
  /\ UNCHANGED <<phase, asks, ran>>

\* While it is open, whether it needs a yes may become known.
Asked(d) ==
  /\ phase[d] = "open"
  /\ \E a \in BOOLEAN : asks' = [asks EXCEPT ![d] = a]

Refuse(d)     == Move(d, "open", "over") /\ Asked(d) /\ UNCHANGED <<agreed, ran>>
Note(d)       == Asked(d) /\ UNCHANGED <<phase, agreed, ran>>
LetThrough(d) == /\ Move(d, "open", "running") /\ Asked(d)
                 /\ asks'[d] => agreed[d]
                 /\ UNCHANGED <<agreed, ran>>

RunStep(d) ==
  /\ phase[d] = "running"
  /\ ran' = [ran EXCEPT ![d] = @ + 1]
  /\ UNCHANGED <<phase, asks, agreed>>

Close(d) == Move(d, "running", "over") /\ UNCHANGED <<asks, agreed, ran>>

\* A restart ends decisions the dead process left behind.
Recover ==
  /\ \A d \in Decision :
       phase'[d] # phase[d] => phase[d] # "none" /\ phase'[d] = "over"
  /\ phase' \in [Decision -> {"none", "open", "running", "over"}]
  /\ UNCHANGED <<asks, agreed, ran>>

LogNext ==
  \/ \E d \in Decision : \/ Propose(d) \/ Agree(d) \/ Refuse(d) \/ LetThrough(d)
                         \/ Note(d) \/ RunStep(d) \/ Close(d)
  \/ Recover

LogSpec == LogInit /\ [][LogNext]_logVars
=============================================================================
