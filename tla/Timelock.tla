------------------------------ MODULE Timelock ------------------------------
(***************************************************************************)
(* What a timelocked setting promises, whichever contract keeps it: the    *)
(* value in force moves at once only to a tighter one; anything else has   *)
(* to be proposed first, and takes effect no earlier than Delay later, and *)
(* only if it was neither withdrawn nor superseded in between.             *)
(***************************************************************************)
EXTENDS Naturals

CONSTANTS
  Value,
  Nothing,        \* what stands for a proposal while there is none
  Delay,
  Tighter(_, _)   \* Tighter(v, w): moving from w to v needs no delay

VARIABLES value, proposal, ripeAt, now

vars == <<value, proposal, ripeAt, now>>

Init ==
  /\ value \in Value
  /\ proposal = Nothing /\ ripeAt = 0
  /\ now \in Nat

\* Tighten now, and replace the proposal by another.
Propose ==
  /\ value' \in Value /\ Tighter(value', value)
  /\ proposal' \in Value /\ ripeAt' = now + Delay
  /\ UNCHANGED now

\* Tighten now, and leave no proposal behind.
Withdraw ==
  /\ value' \in Value /\ Tighter(value', value)
  /\ proposal' = Nothing /\ ripeAt' = 0
  /\ UNCHANGED now

Apply ==
  /\ ripeAt # 0 /\ now >= ripeAt
  /\ value' = proposal
  /\ proposal' = Nothing /\ ripeAt' = 0
  /\ UNCHANGED now

Advance ==
  /\ now' \in Nat /\ now' >= now
  /\ UNCHANGED <<value, proposal, ripeAt>>

Next == Propose \/ Withdraw \/ Apply \/ Advance

Spec == Init /\ [][Next]_vars
=============================================================================
