--------------------------- MODULE MCDeskExecutor ---------------------------
(***************************************************************************)
(* DeskExecutor for TLC: one or two decision steps, as model values. They  *)
(* are not interchangeable (d1 is risk-adding, d2 is not), so there is no  *)
(* symmetry.                                                               *)
(***************************************************************************)
EXTENDS DeskExecutor

CONSTANTS d1, d2

\* One step with every fault, or two steps with one signature and one
\* broadcast each, no foreign nonce and a shorter clock.
MCBound ==
  \/ exec[d2] = "none"
  \/ /\ \A d \in Decision : att[<<d, 2>>] = "none" /\ count[<<d, 1>>] <= 1
     /\ foreign = 0 /\ now <= 3
=============================================================================
