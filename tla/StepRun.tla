------------------------------ MODULE StepRun ------------------------------
(***************************************************************************)
(* What the daemon may expect of a decision step it hands to the executor, *)
(* apart from how executor, resolver, reconcile timer and chain bring it   *)
(* about: one step at a time is in flight, a step is started once, and it  *)
(* is recorded as confirmed or failed. Failed is final. Confirmed is not:  *)
(* a handler that looked at the chain before the lane's event was recorded *)
(* may still write its older outcome over it.                              *)
(***************************************************************************)
CONSTANT Step

VARIABLE run   \* per step: "none", "flight", "confirmed" or "failed"

RunInit == run = [s \in Step |-> "none"]

Becomes(s, from, to) == run[s] = from /\ run' = [run EXCEPT ![s] = to]

NoneFlying == \A s \in Step : run[s] # "flight"

Start(s)  == NoneFlying /\ Becomes(s, "none", "flight")
Finish(s) == \E o \in {"confirmed", "failed"} : Becomes(s, "flight", o)

\* The outcome read before the confirmation is written after it.
Overwrite(s) ==
  \/ NoneFlying /\ Becomes(s, "confirmed", "flight")
  \/ Becomes(s, "confirmed", "failed")

RunNext == \E s \in Step : Start(s) \/ Finish(s) \/ Overwrite(s)

RunSpec == RunInit /\ [][RunNext]_run
=============================================================================
