---------------------------- MODULE SetupWizard ----------------------------
(***************************************************************************)
(* Setting up a desk in the browser: the eight steps of StartDesk.tsx for  *)
(* one Vault, the state it stores, the chain logic of its create step      *)
(* (create.ts, reads.ts, tx.ts), Dynamic's delegation and desk-agent's     *)
(* record of it.                                                           *)
(*                                                                         *)
(* What a step shows is read now; a transaction is a prompt in the wallet, *)
(* bytes on their way and a receipt, and outlives the step and the page it *)
(* was asked for in. The user is diligent: who ticks the box of step 4 has *)
(* put the address it shows, and no other, into the policy's allowlist.    *)
(***************************************************************************)
EXTENDS Integers, FiniteSets

CONSTANTS
  Operator,  \* wallets the user may choose as the Operator
  Server,    \* those of them that are DeltaDesk's server wallet (Plan B)
  Nobody,
  NoLane,
  MaxImpl,   \* bound on lane implementations
  MaxLanes,  \* bound on lanes
  MaxCreates \* bound on createLane calls in flight

\* The address commits to every parameter and to the implementation. Those are numbered
\* as they are activated: an admin that goes back to an earlier one, two timelocks later
\* on the same page, is left out.
Lane == [operator : Operator, salt : 0..MaxLanes, impl : 1..MaxImpl]

ASSUME WizardAssumption ==
  /\ Server \subseteq Operator /\ Nobody \notin Operator /\ NoLane \notin Lane
  /\ MaxImpl \in Nat \ {0} /\ MaxLanes \in Nat /\ MaxCreates \in Nat

VARIABLES
  setup,    \* WizardState; of moved whether it is set, replaced is only shown
  guess,    \* what predictLane answered, before step 4 stores it
  creates,  \* createLane calls in flight, with the values their step was rendered with
  mounted,  \* the one whose step is still on the page
  impl, proposed,  \* the factory's implementation; one is pending
  deployed, listed, changed,  \* lanes; those of lanesOf(Vault); those whose operator,
                              \* guardian or caps the owner has changed since
  allow,    \* the address the policy's allowlist names
  dynamic,  \* wallets Dynamic shows as delegated
  record,   \* desk-agent's delegations row
  resumed, crossed  \* history: setup was continued from "Your desks"; a createLane call
                    \* answered to a setup that was no longer the one it was sent for

chainVars  == <<impl, proposed, deployed, listed, changed>>
agentVars  == <<dynamic, record>>
pageVars   == <<setup, guess, creates, mounted>>
wizardVars == <<pageVars, chainVars, allow, agentVars, resumed, crossed>>

INITIAL == [operator |-> Nobody, gasAck |-> FALSE, salt |-> -1, predicted |-> NoLane,
            policyAck |-> FALSE, lane |-> NoLane, fundAck |-> FALSE, registered |-> FALSE,
            agentDelegation |-> Nobody, moved |-> FALSE]
Free == [at |-> "free", operator |-> Nobody, salt |-> -1, predicted |-> NoLane, lane |-> NoLane]

WizardTypeOK ==
  /\ setup \in [operator : Operator \cup {Nobody}, gasAck : BOOLEAN, salt : -1..MaxLanes,
                predicted : Lane \cup {NoLane}, policyAck : BOOLEAN, lane : Lane \cup {NoLane},
                fundAck : BOOLEAN, registered : BOOLEAN,
                agentDelegation : Operator \cup {Nobody}, moved : BOOLEAN]
  /\ guess \in Lane \cup {NoLane}
  /\ \A i \in 1..MaxCreates :
       creates[i].at \in {"free", "prompt", "sent", "gone", "mined", "reverted"}
  /\ mounted \in 0..MaxCreates
  /\ impl \in 1..MaxImpl /\ proposed \in BOOLEAN
  /\ listed \subseteq deployed /\ changed \subseteq deployed /\ deployed \subseteq Lane
  /\ allow \in Lane \cup {NoLane}
  /\ dynamic \subseteq Operator /\ record \in [Operator -> {"unknown", "active", "revoked"}]
  /\ resumed \in BOOLEAN /\ crossed \in BOOLEAN

WizardInit ==
  /\ setup = INITIAL /\ guess = NoLane
  /\ creates = [i \in 1..MaxCreates |-> Free] /\ mounted = 0
  /\ impl = 1 /\ proposed = FALSE /\ deployed = {} /\ listed = {} /\ changed = {}
  /\ allow = NoLane
  /\ dynamic = {} /\ record = [o \in Operator |-> "unknown"]
  /\ resumed = FALSE /\ crossed = FALSE

-----------------------------------------------------------------------------
\* done[]: the steps in order; the first that is not done is on the page.
Confirmed(s) == s.agentDelegation # Nobody /\ s.agentDelegation = s.operator
Delegated(s) == s.operator \in Server \/ (s.operator \in dynamic /\ Confirmed(s))

Done(s) == <<TRUE, s.operator # Nobody, s.gasAck, s.predicted # NoLane /\ s.policyAck,
             s.lane # NoLane, Delegated(s), s.fundAck, s.registered>>

Active(s, n) == ~Done(s)[n] /\ \A k \in 1..n-1 : Done(s)[k]
Beyond(s, n) == \A k \in 1..n : Done(s)[k]

\* set(): the stored state changes; a step that leaves the page takes its own state along,
\* but not what it awaits.
Set(s) ==
  /\ setup' = s
  /\ mounted' = IF Active(s, 5) THEN mounted ELSE 0
  /\ guess' = IF Active(s, 4) /\ <<s.predicted, s.salt, s.moved>> =
                   <<setup.predicted, setup.salt, setup.moved>> THEN guess ELSE NoLane

SetOnly(s) == Set(s) /\ UNCHANGED <<creates, chainVars, allow, agentVars, resumed, crossed>>

\* Step 2.
PickOperator(o) == Active(setup, 2) /\ SetOnly([INITIAL EXCEPT !.operator = o])

\* Step 3: the balances suffice, or the user goes on.
AckGas == setup.operator # Nobody /\ ~setup.gasAck /\ SetOnly([setup EXCEPT !.gasAck = TRUE])

-----------------------------------------------------------------------------
(* Step 4: the address the lane will have.                                 *)

Predicted(o, salt) == [operator |-> o, salt |-> salt, impl |-> impl]

\* The salt of a first prediction counts the lanes the last poll of the factory saw.
PredictLane ==
  /\ Active(setup, 4) /\ ~setup.moved /\ guess = NoLane
  /\ \E n \in 0..MaxLanes :
       /\ n <= Cardinality(listed)
       /\ guess' = Predicted(setup.operator, IF setup.salt = -1 THEN n ELSE setup.salt)
  /\ UNCHANGED <<setup, creates, mounted, chainVars, allow, agentVars, resumed, crossed>>

Guessed ==
  /\ guess # NoLane
  /\ setup' = IF setup.predicted = guess THEN setup
              ELSE [setup EXCEPT !.salt = guess.salt, !.predicted = guess, !.policyAck = FALSE]
  /\ guess' = NoLane
  /\ UNCHANGED <<creates, mounted, chainVars, allow, agentVars, resumed, crossed>>

\* The checkbox, on the page once a lane is predicted, while no replacement is pending as
\* far as the last poll of the factory saw.
Acknowledge ==
  /\ Active(setup, 4) /\ setup.predicted # NoLane
  /\ allow' = setup.predicted
  /\ Set([setup EXCEPT !.policyAck = TRUE])
  /\ UNCHANGED <<creates, chainVars, agentVars, resumed, crossed>>

-----------------------------------------------------------------------------
(* Step 5: createLane.                                                     *)

\* laneMismatches, without the list.
Differs(l, o) == l.operator # o \/ l \in changed

\* MUTANT of Verdict: a lane somebody else deployed there is taken as created.
VerdictUnlisted(o, salt, p) ==
  IF p \in deployed THEN IF Differs(p, o) THEN "wrong" ELSE "ready"
  ELSE IF proposed THEN "blocked"
  ELSE IF Predicted(o, salt) # p THEN "stale"
  ELSE "create"

\* judge: of a lane that is listed, of the factory, of a lane that is only deployed.
Verdict(o, salt, p) ==
  IF p \in listed THEN IF Differs(p, o) THEN "wrong" ELSE "ready"
  ELSE IF proposed THEN "blocked"
  ELSE IF Predicted(o, salt) # p THEN "stale"
  ELSE IF p \in deployed /\ Differs(p, o) THEN "wrong"
  ELSE "create"

Judged(v) ==
  Active(setup, 5) /\ setup.salt # -1 /\ Verdict(setup.operator, setup.salt, setup.predicted) = v

\* onCreated.
Ready ==
  /\ Judged("ready") /\ mounted = 0
  /\ SetOnly([setup EXCEPT !.lane = setup.predicted, !.moved = FALSE])

\* "Predict again" and "Set up a new lane instead", also while createLane is awaited.
Repredict ==
  /\ Judged("stale")
  /\ SetOnly([setup EXCEPT !.predicted = NoLane, !.policyAck = FALSE, !.moved = FALSE])
StartOver ==
  /\ Judged("wrong")
  /\ SetOnly([setup EXCEPT !.salt = -1, !.predicted = NoLane, !.policyAck = FALSE, !.moved = FALSE])

\* createOrList up to the wallet: judged again, and simulated (a listed lane reverts).
Create(i) ==
  /\ Judged("create") /\ mounted = 0 /\ creates[i] = Free
  /\ Predicted(setup.operator, setup.salt) \notin listed
  /\ creates' = [creates EXCEPT ![i] =
       [at |-> "prompt", operator |-> setup.operator, salt |-> setup.salt,
        predicted |-> setup.predicted, lane |-> NoLane]]
  /\ mounted' = i
  /\ UNCHANGED <<setup, guess, chainVars, allow, agentVars, resumed, crossed>>

CreateTo(i, at) ==
  /\ creates' = [creates EXCEPT ![i] = IF at = "free" THEN Free ELSE [@ EXCEPT !.at = at]]
  /\ mounted' = IF at \in {"free", "gone"} /\ mounted = i THEN 0 ELSE mounted
  /\ UNCHANGED <<setup, guess, chainVars, allow, agentVars, resumed, crossed>>

\* The wallet sends or refuses; a receipt that takes too long, or reverted, is an error.
Answer(i) == creates[i].at = "prompt" /\ \E at \in {"sent", "free"} : CreateTo(i, at)
GiveUp(i) == creates[i].at = "sent" /\ CreateTo(i, "gone")
Refused(i) == creates[i].at = "reverted" /\ CreateTo(i, "free")

\* createLane in a block: it deploys, or lists what is deployed, at the address of the
\* implementation by then.
Land(i) ==
  /\ creates[i].at \in {"sent", "gone"}
  /\ LET l == Predicted(creates[i].operator, creates[i].salt)
         awaited == creates[i].at = "sent"
     IN /\ deployed' = deployed \cup {l} /\ listed' = listed \cup {l}
        /\ creates' = [creates EXCEPT ![i] =
             IF ~awaited THEN Free
             ELSE [@ EXCEPT !.at = IF l \in listed THEN "reverted" ELSE "mined", !.lane = l]]
  /\ UNCHANGED <<setup, guess, mounted, impl, proposed, changed, allow, agentVars, resumed, crossed>>

\* The receipt: a lane elsewhere is moved to, one that differs is refused.
Receipt(i) ==
  /\ creates[i].at = "mined"
  /\ LET c == creates[i] IN
       /\ IF c.lane # c.predicted
          THEN setup' = [setup EXCEPT !.predicted = c.lane, !.policyAck = FALSE, !.moved = TRUE]
          ELSE IF Differs(c.lane, c.operator) THEN UNCHANGED setup
          ELSE setup' = [setup EXCEPT !.lane = c.lane, !.moved = FALSE]
       /\ crossed' = (crossed \/ setup.lane # NoLane
                      \/ <<c.operator, c.predicted>> # <<setup.operator, setup.predicted>>)
  /\ creates' = [creates EXCEPT ![i] = Free]
  /\ mounted' = IF mounted = i \/ ~Active(setup', 5) THEN 0 ELSE mounted
  /\ guess' = NoLane
  /\ UNCHANGED <<chainVars, allow, agentVars, resumed>>

-----------------------------------------------------------------------------
(* Steps 6 to 8, and "Continue setup".                                     *)

Delegate ==
  /\ Active(setup, 6) /\ setup.operator \notin Server
  /\ dynamic' = dynamic \cup {setup.operator}
  /\ UNCHANGED <<pageVars, chainVars, allow, record, resumed, crossed>>

\* Dynamic's webhook arrives at desk-agent; a delegation no desk claims is dropped.
RecordMoves(o) ==
  /\ \/ record' = [record EXCEPT ![o] = IF o \in dynamic THEN "active" ELSE "revoked"]
     \/ record[o] = "active" /\ record' = [record EXCEPT ![o] = "unknown"]
  /\ UNCHANGED <<pageVars, chainVars, allow, dynamic, resumed, crossed>>

\* The user revokes in Dynamic, perhaps with the page closed.
DynamicGone(o) ==
  /\ o \in dynamic /\ dynamic' = dynamic \ {o}
  /\ UNCHANGED <<pageVars, chainVars, allow, record, resumed, crossed>>

\* The page sees it: the stored confirmation covered that delegation only.
ForgetConfirmed ==
  /\ setup.agentDelegation # Nobody /\ setup.operator \notin dynamic
  /\ SetOnly([setup EXCEPT !.agentDelegation = Nobody])

Confirm ==
  /\ Active(setup, 6) /\ setup.operator \in dynamic /\ record[setup.operator] = "active"
  /\ SetOnly([setup EXCEPT !.agentDelegation = setup.operator])

\* The check on a visit, and registration's 412.
Recheck ==
  /\ Confirmed(setup) /\ setup.operator \in dynamic /\ ~setup.registered
  /\ record[setup.operator] # "active"
  /\ SetOnly([setup EXCEPT !.agentDelegation = Nobody])

AckFunds == Active(setup, 7) /\ SetOnly([setup EXCEPT !.fundAck = TRUE])

\* desk-agent registers a lane whose operator it can sign for. What the owner has changed
\* may be its caps, which neither this nor "Your desks" looks at.
Register ==
  /\ Active(setup, 8)
  /\ setup.lane.operator \in Server \/ record[setup.lane.operator] = "active"
  /\ SetOnly([setup EXCEPT !.registered = TRUE])

Resume(l) ==
  /\ l \in listed /\ l # setup.lane
  /\ Set([INITIAL EXCEPT !.operator = l.operator, !.gasAck = TRUE, !.predicted = l,
                         !.policyAck = TRUE, !.lane = l])
  /\ resumed' = TRUE
  /\ UNCHANGED <<creates, chainVars, allow, agentVars, crossed>>

\* The page is loaded again: what it awaited is forgotten, what was sent is not.
Reload ==
  /\ guess' = NoLane /\ mounted' = 0
  /\ creates' = [i \in 1..MaxCreates |->
       IF creates[i].at \in {"sent", "gone"} THEN [creates[i] EXCEPT !.at = "gone"] ELSE Free]
  /\ UNCHANGED <<setup, chainVars, allow, agentVars, resumed, crossed>>

-----------------------------------------------------------------------------
(* Beside the wizard: the factory's admin, anybody, and the owner.         *)

Chain ==
  /\ \/ impl < MaxImpl /\ ~proposed /\ proposed' = TRUE /\ UNCHANGED <<impl, deployed, changed>>
     \/ proposed /\ proposed' = FALSE /\ impl' \in {impl, impl + 1} /\ UNCHANGED <<deployed, changed>>
     \/ \E o \in Operator, n \in 0..MaxLanes : deployed' = deployed \cup {Predicted(o, n)}
                                 /\ UNCHANGED <<impl, proposed, changed>>
     \/ \E l \in deployed : changed' = changed \cup {l} /\ UNCHANGED <<impl, proposed, deployed>>
  /\ UNCHANGED <<pageVars, listed, allow, agentVars, resumed, crossed>>

WizardNext ==
  \/ \E o \in Operator : PickOperator(o) \/ RecordMoves(o) \/ DynamicGone(o)
  \/ AckGas \/ PredictLane \/ Guessed \/ Acknowledge
  \/ Ready \/ Repredict \/ StartOver
  \/ \E i \in 1..MaxCreates : Create(i) \/ Answer(i) \/ GiveUp(i) \/ Refused(i) \/ Land(i) \/ Receipt(i)
  \/ Delegate \/ Confirm \/ ForgetConfirmed \/ Recheck \/ AckFunds \/ Register
  \/ \E l \in listed : Resume(l)
  \/ Reload \/ Chain

WizardSpec == WizardInit /\ [][WizardNext]_wizardVars

-----------------------------------------------------------------------------
\* Whoever deploys the lane first, whatever lands late and however often the address
\* changes: the lane a setup delegates, funds and registers for is one the Vault listed;
\* and in a setup made in one go its operator is the Operator, and the allowlist names it.
SetUpForOwnLane ==
  Beyond(setup, 5) =>
    /\ setup.lane \in listed
    /\ ~resumed /\ ~crossed => setup.lane.operator = setup.operator /\ allow = setup.lane
=============================================================================
