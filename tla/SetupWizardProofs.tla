------------------------- MODULE SetupWizardProofs -------------------------
(***************************************************************************)
(* Why a setup made in one go ends on the Vault's own lane with the        *)
(* allowlist naming it, for any wallets, bounds and number of createLane   *)
(* calls in flight: whatever lands late, whoever deploys first and however *)
(* often the implementation changes under the prediction.                  *)
(***************************************************************************)
EXTENDS SetupWizard, TLAPS

Ats   == {"free", "prompt", "sent", "gone", "mined", "reverted"}
Lanes == Lane \cup {NoLane}
Entry == [at : Ats, operator : Operator \cup {Nobody}, salt : -1..MaxLanes,
          predicted : Lanes, lane : Lanes]

Setup == [operator : Operator \cup {Nobody}, gasAck : BOOLEAN, salt : -1..MaxLanes,
          predicted : Lanes, policyAck : BOOLEAN, lane : Lanes, fundAck : BOOLEAN,
          registered : BOOLEAN, agentDelegation : Operator \cup {Nobody}, moved : BOOLEAN]

\* What a createLane call in flight was sent with, and where one that was mined landed.
EntryOK(c) ==
  /\ c.at # "free" => c.operator \in Operator /\ c.salt \in 0..MaxLanes /\ c.predicted \in Lane
  /\ c.at = "mined" => c.lane \in listed /\ c.lane \in Lane

WizardOK ==
  /\ setup \in Setup /\ guess \in Lanes
  /\ creates \in [1..MaxCreates -> Entry]
  /\ \A i \in 1..MaxCreates : EntryOK(creates[i])
  /\ mounted \in 0..MaxCreates
  /\ impl \in 1..MaxImpl /\ proposed \in BOOLEAN /\ (proposed => impl < MaxImpl)
  /\ listed \subseteq deployed /\ changed \subseteq deployed /\ deployed \subseteq Lane
  /\ allow \in Lanes
  /\ dynamic \subseteq Operator /\ record \in [Operator -> {"unknown", "active", "revoked"}]
  /\ resumed \in BOOLEAN /\ crossed \in BOOLEAN

-----------------------------------------------------------------------------
(* What a receipt that is still awaited may do to a setup made in one go.  *)

Live(c) == c.at \in {"prompt", "sent", "mined"}

\* It is for the lane the user is setting up, with the allowlist naming it.
Current(c) == c.predicted = setup.predicted /\ setup.policyAck

\* It cannot create the lane it was sent for: that landed elsewhere or will, or the
\* owner has changed what is there.
Doomed(c) ==
  \/ c.predicted \in changed
  \/ c.at = "mined" /\ c.lane # c.predicted
  \/ c.at # "mined" /\ c.predicted.impl < impl

\* The setup has moved to later implementations, and predicts no earlier one again.
Past(c) ==
  /\ c.predicted.impl < impl
  /\ setup.predicted # NoLane => c.predicted.impl < setup.predicted.impl
  /\ guess # NoLane => c.predicted.impl < guess.impl

Awaited(c) ==
  /\ c.operator = setup.operator
  /\ c.predicted.operator = c.operator /\ c.predicted.salt = c.salt /\ c.predicted.impl <= impl
  /\ c.at = "mined" => /\ c.lane.operator = c.operator /\ c.lane.salt = c.salt
                       /\ c.predicted.impl <= c.lane.impl /\ c.lane.impl <= impl
  /\ Current(c) \/ Doomed(c) \/ Past(c)

\* A setup made in one go: the prediction is the Operator's, the allowlist names what was
\* acknowledged, and a lane that was created is the one predicted.
OneGo ==
  /\ setup.predicted # NoLane => /\ setup.predicted.operator = setup.operator
                                 /\ setup.predicted.salt = setup.salt
                                 /\ setup.predicted.impl <= impl
  /\ guess # NoLane => guess.operator = setup.operator /\ guess.impl <= impl
  /\ setup.policyAck => setup.predicted # NoLane /\ allow = setup.predicted
  /\ setup.lane # NoLane => setup.lane = setup.predicted /\ setup.policyAck
  /\ \A i \in 1..MaxCreates : Live(creates[i]) => Awaited(creates[i])

WizardInv ==
  /\ WizardOK
  /\ setup.lane # NoLane => setup.lane \in listed
  /\ guess # NoLane => Active(setup, 4)
  /\ ~resumed /\ ~crossed => OneGo

\* The steps that are done are named by their state.
LEMMA Steps ==
  ASSUME NEW s \in Setup
  PROVE  /\ Active(s, 2) => s.operator = Nobody
         /\ Active(s, 4) => /\ s.operator # Nobody /\ s.gasAck
                            /\ ~(s.predicted # NoLane /\ s.policyAck)
         /\ Active(s, 5) => /\ s.operator # Nobody /\ s.gasAck /\ s.predicted # NoLane
                            /\ s.policyAck /\ s.lane = NoLane
         /\ Beyond(s, 5) => /\ s.operator # Nobody /\ s.predicted # NoLane
                            /\ s.policyAck /\ s.lane # NoLane
         /\ Active(s, 6) => s.operator # Nobody
<1>1. /\ Done(s)[2] = (s.operator # Nobody) /\ Done(s)[3] = s.gasAck
      /\ Done(s)[4] = (s.predicted # NoLane /\ s.policyAck) /\ Done(s)[5] = (s.lane # NoLane)
  BY DEF Done
<1> HIDE DEF Done
<1>2. s.gasAck \in BOOLEAN /\ s.policyAck \in BOOLEAN
  BY DEF Setup
<1>3. Active(s, 2) => ~Done(s)[2]
  BY DEF Active
<1>4. Active(s, 4) => ~Done(s)[4] /\ Done(s)[2] /\ Done(s)[3]
  BY DEF Active
<1>5. Active(s, 5) => ~Done(s)[5] /\ Done(s)[2] /\ Done(s)[3] /\ Done(s)[4]
  BY DEF Active
<1>6. Beyond(s, 5) => Done(s)[2] /\ Done(s)[3] /\ Done(s)[4] /\ Done(s)[5]
  BY DEF Beyond
<1>7. Active(s, 6) => Done(s)[2]
  BY DEF Active
<1> QED BY <1>1, <1>2, <1>3, <1>4, <1>5, <1>6, <1>7, Zenon

\* What Set keeps of a step's own state.
LEMMA SetKeeps ==
  ASSUME WizardOK, NEW s \in Setup, Set(s)
  PROVE  /\ setup' = s /\ guess' \in {guess, NoLane}
         /\ guess' # NoLane => Active(setup', 4)
         /\ mounted' \in 0..MaxCreates
<1>1. setup' = s /\ guess' \in {guess, NoLane} /\ (guess' # NoLane => Active(s, 4))
  BY DEF Set
<1>2. mounted' \in 0..MaxCreates
  BY WizardAssumption DEF Set, WizardOK, WizardAssumption
<1> QED BY <1>1, <1>2

\* A step that leaves to the setup what the receipts may change leaves it as it was.
LEMMA StepAside ==
  ASSUME WizardInv, setup' \in Setup, guess' \in {guess, NoLane},
         guess' # NoLane => Active(setup', 4), mounted' \in 0..MaxCreates,
         setup'.operator = setup.operator, setup'.salt = setup.salt,
         setup'.predicted = setup.predicted, setup'.policyAck = setup.policyAck,
         setup'.lane = setup.lane, UNCHANGED <<creates, chainVars, allow, resumed, crossed>>,
         dynamic' \subseteq Operator, record' \in [Operator -> {"unknown", "active", "revoked"}]
  PROVE  WizardInv'
<1>0. /\ creates' = creates /\ impl' = impl /\ proposed' = proposed /\ deployed' = deployed
      /\ listed' = listed /\ changed' = changed /\ allow' = allow
      /\ resumed' = resumed /\ crossed' = crossed
  BY DEF chainVars
<1>1. WizardOK'
  <2>1. guess' \in Lanes
    BY DEF WizardInv, WizardOK, Lanes
  <2>2. \A i \in 1..MaxCreates : EntryOK(creates[i])'
    BY <1>0 DEF WizardInv, WizardOK, EntryOK
  <2> QED BY <1>0, <2>1, <2>2 DEF WizardInv, WizardOK
<1>2. OneGo => OneGo'
  <2> SUFFICES ASSUME OneGo PROVE OneGo'
    OBVIOUS
  <2>1. ASSUME NEW i \in 1..MaxCreates, Live(creates[i])
        PROVE  Awaited(creates[i])'
    <3>1. Awaited(creates[i])
      BY <2>1 DEF OneGo
    <3>2. Current(creates[i]) => Current(creates[i])'
      BY <1>0 DEF Current
    <3>3. Doomed(creates[i]) => Doomed(creates[i])'
      BY <1>0 DEF Doomed
    <3>4. Past(creates[i]) => Past(creates[i])'
      BY <1>0 DEF Past
    <3> QED BY <1>0, <3>1, <3>2, <3>3, <3>4 DEF Awaited
  <2>2. \A i \in 1..MaxCreates : Live(creates[i])' => Awaited(creates[i])'
    BY <1>0, <2>1 DEF Live
  <2> QED BY <1>0, <2>2 DEF OneGo
<1>3. (guess # NoLane => Active(setup, 4))'
  BY DEF Active, Done, Delegated, Confirmed
<1> QED BY <1>0, <1>1, <1>2, <1>3 DEF WizardInv

\* Gas, delegation, funds and registration are such steps, and so is what the vendor and
\* desk-agent do.
LEMMA AsideSteps ==
  ASSUME WizardInv,
         \/ AckGas \/ Confirm \/ ForgetConfirmed \/ Recheck \/ AckFunds \/ Register
         \/ Delegate \/ \E o \in Operator : RecordMoves(o) \/ DynamicGone(o)
  PROVE  WizardInv'
<1>1. setup \in Setup /\ setup.operator \in Operator \cup {Nobody} /\ WizardOK
  BY DEF WizardInv, WizardOK, Setup
<1>2. ASSUME NEW s \in Setup, SetOnly(s), s.operator = setup.operator, s.salt = setup.salt,
             s.predicted = setup.predicted, s.policyAck = setup.policyAck, s.lane = setup.lane
      PROVE  WizardInv'
  <2>1. Set(s) /\ UNCHANGED <<creates, chainVars, allow, resumed, crossed>>
        /\ dynamic' = dynamic /\ record' = record
    BY <1>2 DEF SetOnly, agentVars
  <2>2. /\ setup' = s /\ guess' \in {guess, NoLane} /\ mounted' \in 0..MaxCreates
        /\ guess' # NoLane => Active(setup', 4)
    BY <1>1, <2>1, SetKeeps
  <2> QED BY <1>1, <1>2, <2>1, <2>2, StepAside DEF WizardOK
<1>3. CASE AckGas
  <2>1. [setup EXCEPT !.gasAck = TRUE] \in Setup
    BY <1>1 DEF Setup
  <2> QED BY <1>1, <1>2, <1>3, <2>1 DEF AckGas, Setup
<1>4. CASE Confirm
  <2>1. [setup EXCEPT !.agentDelegation = setup.operator] \in Setup
    BY <1>1 DEF Setup
  <2> QED BY <1>1, <1>2, <1>4, <2>1 DEF Confirm, Setup
<1>5. CASE ForgetConfirmed \/ Recheck
  <2>1. [setup EXCEPT !.agentDelegation = Nobody] \in Setup
    BY <1>1 DEF Setup
  <2> QED BY <1>1, <1>2, <1>5, <2>1 DEF ForgetConfirmed, Recheck, Setup
<1>6. CASE AckFunds
  <2>1. [setup EXCEPT !.fundAck = TRUE] \in Setup
    BY <1>1 DEF Setup
  <2> QED BY <1>1, <1>2, <1>6, <2>1 DEF AckFunds, Setup
<1>7. CASE Register
  <2>1. [setup EXCEPT !.registered = TRUE] \in Setup
    BY <1>1 DEF Setup
  <2> QED BY <1>1, <1>2, <1>7, <2>1 DEF Register, Setup
<1>8. ASSUME UNCHANGED <<pageVars, chainVars, allow, resumed, crossed>>,
             dynamic' \subseteq Operator,
             record' \in [Operator -> {"unknown", "active", "revoked"}]
      PROVE  WizardInv'
  <2>1. setup' = setup /\ guess' = guess /\ creates' = creates /\ mounted' = mounted
    BY <1>8 DEF pageVars
  <2>2. guess' # NoLane => Active(setup', 4)
    BY <2>1 DEF WizardInv
  <2> QED BY <1>1, <1>8, <2>1, <2>2, StepAside DEF WizardOK
<1>9. CASE Delegate
  <2>1. setup.operator \in Operator
    BY <1>1, <1>9, Steps DEF Delegate
  <2> QED BY <1>1, <1>8, <1>9, <2>1 DEF Delegate, WizardOK
<1>10. ASSUME NEW o \in Operator, RecordMoves(o) PROVE WizardInv'
  <2>1. record' \in [Operator -> {"unknown", "active", "revoked"}]
    BY <1>1, <1>10 DEF RecordMoves, WizardOK
  <2> QED BY <1>1, <1>8, <1>10, <2>1 DEF RecordMoves, WizardOK
<1>11. ASSUME NEW o \in Operator, DynamicGone(o) PROVE WizardInv'
  BY <1>1, <1>8, <1>11 DEF DynamicGone, WizardOK
<1> QED BY <1>3, <1>4, <1>5, <1>6, <1>7, <1>9, <1>10, <1>11

\* No setup is under way at first.
LEMMA InitialSetup ==
  /\ INITIAL \in Setup /\ INITIAL.operator = Nobody
  /\ INITIAL.predicted = NoLane /\ INITIAL.lane = NoLane
  /\ ~INITIAL.gasAck /\ ~INITIAL.policyAck
<1>1. -1 \in -1..MaxLanes
  BY WizardAssumption DEF WizardAssumption
<1> QED BY <1>1 DEF INITIAL, Setup, Lanes

\* A new Operator starts a setup nothing is awaited for.
LEMMA PickOperatorKeeps ==
  ASSUME WizardInv, NEW o \in Operator, PickOperator(o)
  PROVE  WizardInv'
<1> DEFINE s == [INITIAL EXCEPT !.operator = o]
<1>1. /\ s \in Setup /\ s.operator = o /\ ~s.gasAck /\ ~s.policyAck
      /\ s.predicted = NoLane /\ s.lane = NoLane
  <2>1. s = [INITIAL EXCEPT !.operator = o] /\ o \in Operator \cup {Nobody}
    OBVIOUS
  <2> HIDE DEF s
  <2> QED BY <2>1, InitialSetup DEF Setup
<1>2. WizardOK /\ setup \in Setup
  BY DEF WizardInv, WizardOK
<1>3. Set(s) /\ UNCHANGED <<creates, chainVars, allow, resumed, crossed>>
      /\ dynamic' = dynamic /\ record' = record /\ Active(setup, 2)
  BY DEF PickOperator, SetOnly, agentVars
<1> HIDE DEF s
<1>4. /\ setup' = s /\ guess' \in {guess, NoLane} /\ mounted' \in 0..MaxCreates
      /\ guess' # NoLane => Active(s, 4)
  BY <1>1, <1>2, <1>3, SetKeeps
<1>5. guess' = NoLane
  BY <1>1, <1>4, Steps
<1>6. setup.operator = Nobody
  BY <1>2, <1>3, Steps
<1>7. /\ creates' = creates /\ impl' = impl /\ proposed' = proposed /\ deployed' = deployed
      /\ listed' = listed /\ changed' = changed /\ allow' = allow
      /\ resumed' = resumed /\ crossed' = crossed
  BY <1>3 DEF chainVars
<1>8. WizardOK'
  <2>1. \A i \in 1..MaxCreates : EntryOK(creates[i])'
    BY <1>2, <1>7 DEF WizardOK, EntryOK
  <2>2. guess' \in Lanes
    BY <1>5 DEF Lanes
  <2> QED BY <1>1, <1>2, <1>3, <1>4, <1>7, <2>1, <2>2 DEF WizardOK
<1>9. OneGo => OneGo'
  <2> SUFFICES ASSUME OneGo PROVE OneGo'
    OBVIOUS
  <2>1. ASSUME NEW i \in 1..MaxCreates PROVE ~Live(creates[i])
    <3> SUFFICES ASSUME Live(creates[i]) PROVE FALSE
      OBVIOUS
    <3>1. creates[i].operator = Nobody
      BY <1>6 DEF OneGo, Awaited
    <3>2. creates[i].operator \in Operator
      BY <1>2 DEF WizardOK, EntryOK, Live
    <3> QED BY <3>1, <3>2, WizardAssumption DEF WizardAssumption
  <2>2. \A i \in 1..MaxCreates : ~Live(creates[i])'
    BY <1>7, <2>1 DEF Live
  <2> QED BY <1>1, <1>4, <1>5, <2>2 DEF OneGo
<1> QED BY <1>1, <1>4, <1>5, <1>7, <1>8, <1>9 DEF WizardInv

\* A prediction is of the Operator's lane, by the implementation of now.
LEMMA PredictKeeps ==
  ASSUME WizardInv, PredictLane
  PROVE  WizardInv'
<1>1. WizardOK /\ setup \in Setup
  BY DEF WizardInv, WizardOK
<1>2. /\ Active(setup, 4) /\ setup' = setup /\ creates' = creates /\ mounted' = mounted
      /\ impl' = impl /\ proposed' = proposed /\ deployed' = deployed
      /\ listed' = listed /\ changed' = changed /\ allow' = allow
      /\ dynamic' = dynamic /\ record' = record
      /\ resumed' = resumed /\ crossed' = crossed
  BY DEF PredictLane, chainVars, agentVars
<1>3. PICK n \in 0..MaxLanes :
        guess' = Predicted(setup.operator, IF setup.salt = -1 THEN n ELSE setup.salt)
  BY DEF PredictLane
<1>4. setup.operator \in Operator /\ setup.salt \in -1..MaxLanes
  BY <1>1, <1>2, Steps DEF Setup
<1>5. (IF setup.salt = -1 THEN n ELSE setup.salt) \in 0..MaxLanes
  BY <1>4, WizardAssumption DEF WizardAssumption
<1>6. impl \in 1..MaxImpl
  BY <1>1 DEF WizardOK
<1>7. guess' \in Lane /\ guess'.operator = setup.operator /\ guess'.impl = impl
  BY <1>3, <1>4, <1>5, <1>6 DEF Predicted, Lane
<1>8. WizardOK'
  <2>1. \A i \in 1..MaxCreates : EntryOK(creates[i])'
    BY <1>1, <1>2 DEF WizardOK, EntryOK
  <2>2. guess' \in Lanes
    BY <1>7 DEF Lanes
  <2> QED BY <1>1, <1>2, <2>1, <2>2 DEF WizardOK
<1>9. OneGo => OneGo'
  <2> SUFFICES ASSUME OneGo PROVE OneGo'
    OBVIOUS
  <2>1. ASSUME NEW i \in 1..MaxCreates, Live(creates[i])
        PROVE  Awaited(creates[i])'
    <3>1. Awaited(creates[i])
      BY <2>1 DEF OneGo
    <3>2. Current(creates[i]) => Current(creates[i])'
      BY <1>2 DEF Current
    <3>3. Doomed(creates[i]) => Doomed(creates[i])'
      BY <1>2 DEF Doomed
    <3>4. Past(creates[i]) => Past(creates[i])'
      BY <1>2, <1>7 DEF Past
    <3> QED BY <1>2, <3>1, <3>2, <3>3, <3>4 DEF Awaited
  <2>2. \A i \in 1..MaxCreates : Live(creates[i])' => Awaited(creates[i])'
    BY <1>2, <2>1 DEF Live
  <2>3. guess'.impl <= impl
    BY <1>6, <1>7
  <2> QED BY <1>2, <1>7, <2>2, <2>3 DEF OneGo
<1>10. (guess # NoLane => Active(setup, 4))'
  BY <1>2 DEF Active, Done, Delegated, Confirmed
<1> QED BY <1>2, <1>8, <1>9, <1>10 DEF WizardInv

\* What was predicted replaces an older prediction, with the allowlist to be set again.
LEMMA GuessedKeeps ==
  ASSUME WizardInv, Guessed
  PROVE  WizardInv'
<1>1. WizardOK /\ setup \in Setup /\ guess \in Lanes /\ guess # NoLane /\ Active(setup, 4)
  BY DEF WizardInv, WizardOK, Guessed
<1>2. /\ creates' = creates /\ mounted' = mounted /\ guess' = NoLane
      /\ impl' = impl /\ proposed' = proposed /\ deployed' = deployed
      /\ listed' = listed /\ changed' = changed /\ allow' = allow
      /\ dynamic' = dynamic /\ record' = record
      /\ resumed' = resumed /\ crossed' = crossed
  BY DEF Guessed, chainVars, agentVars
<1> DEFINE s == [setup EXCEPT !.salt = guess.salt, !.predicted = guess, !.policyAck = FALSE]
<1>3. /\ guess \in Lane /\ guess.salt \in 0..MaxLanes /\ guess.impl \in 1..MaxImpl
  BY <1>1 DEF Lanes, Lane
<1>4. /\ s \in Setup /\ s.operator = setup.operator /\ s.salt = guess.salt
      /\ s.predicted = guess /\ ~s.policyAck /\ s.lane = setup.lane
  <2>1. guess.salt \in -1..MaxLanes
    BY <1>3, WizardAssumption DEF WizardAssumption
  <2> QED BY <1>1, <2>1 DEF Setup
<1>5. setup' = IF setup.predicted = guess THEN setup ELSE s
  BY DEF Guessed
<1>6. ~(setup.predicted # NoLane /\ setup.policyAck)
  BY <1>1, Steps
<1> HIDE DEF s
<1>7. setup' \in Setup /\ setup'.lane = setup.lane
  BY <1>1, <1>4, <1>5
<1>8. WizardOK'
  <2>1. \A i \in 1..MaxCreates : EntryOK(creates[i])'
    BY <1>1, <1>2 DEF WizardOK, EntryOK
  <2>2. guess' \in Lanes
    BY <1>2 DEF Lanes
  <2> QED BY <1>1, <1>2, <1>7, <2>1, <2>2 DEF WizardOK
<1>9. OneGo => OneGo'
  <2> SUFFICES ASSUME OneGo PROVE OneGo'
    OBVIOUS
  <2>1. ~setup.policyAck /\ setup.lane = NoLane
    BY <1>6 DEF OneGo
  <2>2. /\ setup'.predicted = guess /\ ~setup'.policyAck /\ setup'.lane = NoLane
        /\ setup'.operator = setup.operator /\ guess.operator = setup.operator
        /\ setup'.salt = guess.salt /\ guess.impl <= impl
    BY <1>1, <1>4, <1>5, <2>1 DEF OneGo
  <2>3. ASSUME NEW i \in 1..MaxCreates, Live(creates[i])
        PROVE  Awaited(creates[i])'
    <3>1. Awaited(creates[i])
      BY <2>3 DEF OneGo
    <3>2. ~Current(creates[i])
      BY <2>1 DEF Current
    <3>3. Doomed(creates[i]) => Doomed(creates[i])'
      BY <1>2 DEF Doomed
    <3>4. Past(creates[i]) => Past(creates[i])'
      BY <1>1, <1>2, <2>2 DEF Past
    <3> QED BY <1>2, <2>2, <3>1, <3>2, <3>3, <3>4 DEF Awaited
  <2>4. \A i \in 1..MaxCreates : Live(creates[i])' => Awaited(creates[i])'
    BY <1>2, <2>3 DEF Live
  <2> QED BY <1>2, <2>2, <2>4 DEF OneGo
<1> QED BY <1>2, <1>7, <1>8, <1>9 DEF WizardInv

\* The checkbox puts the predicted address into the allowlist.
LEMMA AcknowledgeKeeps ==
  ASSUME WizardInv, Acknowledge
  PROVE  WizardInv'
<1> DEFINE s == [setup EXCEPT !.policyAck = TRUE]
<1>1. WizardOK /\ setup \in Setup /\ Active(setup, 4) /\ setup.predicted # NoLane
  BY DEF WizardInv, WizardOK, Acknowledge
<1>2. /\ s \in Setup /\ s.operator = setup.operator /\ s.salt = setup.salt
      /\ s.predicted = setup.predicted /\ s.policyAck /\ s.lane = setup.lane
  BY <1>1 DEF Setup
<1>3. /\ Set(s) /\ creates' = creates /\ allow' = setup.predicted
      /\ impl' = impl /\ proposed' = proposed /\ deployed' = deployed
      /\ listed' = listed /\ changed' = changed
      /\ dynamic' = dynamic /\ record' = record
      /\ resumed' = resumed /\ crossed' = crossed
  BY DEF Acknowledge, chainVars, agentVars
<1> HIDE DEF s
<1>4. /\ setup' = s /\ guess' \in {guess, NoLane} /\ mounted' \in 0..MaxCreates
      /\ guess' # NoLane => Active(s, 4)
  BY <1>1, <1>2, <1>3, SetKeeps
<1>5. guess' = NoLane
  BY <1>1, <1>2, <1>4, Steps
<1>6. ~setup.policyAck
  BY <1>1, Steps
<1>7. WizardOK'
  <2>1. \A i \in 1..MaxCreates : EntryOK(creates[i])'
    BY <1>1, <1>3 DEF WizardOK, EntryOK
  <2>2. guess' \in Lanes /\ allow' \in Lanes
    BY <1>1, <1>3, <1>5 DEF Lanes, Setup
  <2> QED BY <1>1, <1>2, <1>3, <1>4, <2>1, <2>2 DEF WizardOK
<1>8. OneGo => OneGo'
  <2> SUFFICES ASSUME OneGo PROVE OneGo'
    OBVIOUS
  <2>1. ASSUME NEW i \in 1..MaxCreates, Live(creates[i])
        PROVE  Awaited(creates[i])'
    <3>1. Awaited(creates[i])
      BY <2>1 DEF OneGo
    <3>2. ~Current(creates[i])
      BY <1>6 DEF Current
    <3>3. Doomed(creates[i]) => Doomed(creates[i])'
      BY <1>3 DEF Doomed
    <3>4. Past(creates[i]) => Past(creates[i])'
      BY <1>2, <1>3, <1>4, <1>5 DEF Past
    <3> QED BY <1>2, <1>3, <1>4, <3>1, <3>2, <3>3, <3>4 DEF Awaited
  <2>2. \A i \in 1..MaxCreates : Live(creates[i])' => Awaited(creates[i])'
    BY <1>3, <2>1 DEF Live
  <2> QED BY <1>1, <1>2, <1>3, <1>4, <1>5, <2>2 DEF OneGo
<1> QED BY <1>2, <1>3, <1>4, <1>5, <1>7, <1>8 DEF WizardInv

\* What the create step found of the lane that is predicted.
LEMMA JudgedAt ==
  ASSUME WizardInv, NEW v, Judged(v)
  PROVE  /\ setup.operator \in Operator /\ setup.salt \in 0..MaxLanes
         /\ setup.predicted \in Lane /\ setup.policyAck /\ setup.lane = NoLane
         /\ v = "ready" => setup.predicted \in listed
         /\ v = "stale" => /\ setup.predicted \notin listed
                           /\ Predicted(setup.operator, setup.salt) # setup.predicted
         /\ v = "wrong" => Differs(setup.predicted, setup.operator)
<1>1. setup \in Setup /\ Active(setup, 5) /\ setup.salt # -1
  BY DEF WizardInv, WizardOK, Judged
<1>2. /\ setup.operator # Nobody /\ setup.predicted # NoLane
      /\ setup.policyAck /\ setup.lane = NoLane
  BY <1>1, Steps
<1>3. setup.operator \in Operator /\ setup.predicted \in Lane
  BY <1>1, <1>2 DEF Setup, Lanes
<1>4. setup.salt \in 0..MaxLanes
  BY <1>1, WizardAssumption DEF Setup, WizardAssumption
<1>5. v = Verdict(setup.operator, setup.salt, setup.predicted)
  BY DEF Judged
<1>6. /\ v = "ready" => setup.predicted \in listed
      /\ v = "stale" => /\ setup.predicted \notin listed
                        /\ Predicted(setup.operator, setup.salt) # setup.predicted
      /\ v = "wrong" => Differs(setup.predicted, setup.operator)
  BY <1>5 DEF Verdict
<1> QED BY <1>2, <1>3, <1>4, <1>6

\* The lane that is found ready is one the Vault listed.
LEMMA ReadyKeeps ==
  ASSUME WizardInv, Ready
  PROVE  WizardInv'
<1> DEFINE s == [setup EXCEPT !.lane = setup.predicted, !.moved = FALSE]
<1>1. WizardOK /\ setup \in Setup
  BY DEF WizardInv, WizardOK
<1>2. /\ setup.predicted \in Lane /\ setup.policyAck /\ setup.predicted \in listed
  BY JudgedAt DEF Ready
<1>3. /\ s \in Setup /\ s.operator = setup.operator /\ s.salt = setup.salt
      /\ s.predicted = setup.predicted /\ s.policyAck /\ s.lane = setup.predicted
  BY <1>1, <1>2 DEF Setup
<1>4. /\ Set(s) /\ creates' = creates /\ allow' = allow
      /\ impl' = impl /\ proposed' = proposed /\ deployed' = deployed
      /\ listed' = listed /\ changed' = changed
      /\ dynamic' = dynamic /\ record' = record
      /\ resumed' = resumed /\ crossed' = crossed
  BY DEF Ready, SetOnly, chainVars, agentVars
<1> HIDE DEF s
<1>5. /\ setup' = s /\ guess' \in {guess, NoLane} /\ mounted' \in 0..MaxCreates
      /\ guess' # NoLane => Active(s, 4)
  BY <1>1, <1>3, <1>4, SetKeeps
<1>6. guess' = NoLane
  BY <1>2, <1>3, <1>5, Steps, WizardAssumption DEF WizardAssumption
<1>7. WizardOK'
  <2>1. \A i \in 1..MaxCreates : EntryOK(creates[i])'
    BY <1>1, <1>4 DEF WizardOK, EntryOK
  <2>2. guess' \in Lanes
    BY <1>6 DEF Lanes
  <2> QED BY <1>1, <1>3, <1>4, <1>5, <2>1, <2>2 DEF WizardOK
<1>8. OneGo => OneGo'
  <2> SUFFICES ASSUME OneGo PROVE OneGo'
    OBVIOUS
  <2>1. ASSUME NEW i \in 1..MaxCreates, Live(creates[i])
        PROVE  Awaited(creates[i])'
    <3>1. Awaited(creates[i])
      BY <2>1 DEF OneGo
    <3>2. Current(creates[i]) => Current(creates[i])'
      BY <1>3, <1>4, <1>5 DEF Current
    <3>3. Doomed(creates[i]) => Doomed(creates[i])'
      BY <1>4 DEF Doomed
    <3>4. Past(creates[i]) => Past(creates[i])'
      BY <1>3, <1>4, <1>5, <1>6 DEF Past
    <3> QED BY <1>3, <1>4, <1>5, <3>1, <3>2, <3>3, <3>4 DEF Awaited
  <2>2. \A i \in 1..MaxCreates : Live(creates[i])' => Awaited(creates[i])'
    BY <1>4, <2>1 DEF Live
  <2> QED BY <1>2, <1>3, <1>4, <1>5, <1>6, <2>2, WizardAssumption DEF OneGo, WizardAssumption
<1> QED BY <1>2, <1>3, <1>4, <1>5, <1>6, <1>7, <1>8 DEF WizardInv

\* A prediction is given up only where no call that is still awaited can create it: its
\* implementation was replaced, or the owner changed what is there.
LEMMA GiveUpKeeps ==
  ASSUME WizardInv, Repredict \/ StartOver
  PROVE  WizardInv'
<1>1. WizardOK /\ setup \in Setup
  BY DEF WizardInv, WizardOK
<1>2. PICK salt \in {setup.salt, -1} :
        SetOnly([setup EXCEPT !.salt = salt, !.predicted = NoLane, !.policyAck = FALSE, !.moved = FALSE])
  <2>1. CASE Repredict
    <3>1. [setup EXCEPT !.predicted = NoLane, !.policyAck = FALSE, !.moved = FALSE] =
            [setup EXCEPT !.salt = setup.salt, !.predicted = NoLane, !.policyAck = FALSE,
                          !.moved = FALSE]
      BY <1>1 DEF Setup
    <3> QED BY <2>1, <3>1 DEF Repredict
  <2>2. CASE StartOver
    BY <2>2 DEF StartOver
  <2> QED BY <2>1, <2>2
<1> DEFINE s == [setup EXCEPT !.salt = salt, !.predicted = NoLane, !.policyAck = FALSE, !.moved = FALSE]
<1>3. /\ s \in Setup /\ s.operator = setup.operator
      /\ s.predicted = NoLane /\ ~s.policyAck /\ s.lane = setup.lane
  <2>1. salt \in -1..MaxLanes
    BY <1>1, <1>2, WizardAssumption DEF Setup, WizardAssumption
  <2> QED BY <1>1, <2>1 DEF Setup, Lanes
<1>4. /\ Set(s) /\ creates' = creates /\ allow' = allow
      /\ impl' = impl /\ proposed' = proposed /\ deployed' = deployed
      /\ listed' = listed /\ changed' = changed
      /\ dynamic' = dynamic /\ record' = record
      /\ resumed' = resumed /\ crossed' = crossed
  BY <1>2 DEF SetOnly, chainVars, agentVars
<1> HIDE DEF s
<1>5. /\ setup' = s /\ guess' \in {guess, NoLane} /\ mounted' \in 0..MaxCreates
      /\ guess' # NoLane => Active(s, 4)
  BY <1>1, <1>3, <1>4, SetKeeps
<1>6. /\ setup.operator \in Operator /\ setup.predicted \in Lane /\ setup.lane = NoLane
      /\ \/ /\ setup.predicted \notin listed
            /\ Predicted(setup.operator, setup.salt) # setup.predicted
         \/ Differs(setup.predicted, setup.operator)
      /\ guess = NoLane
  <2>1. Active(setup, 5)
    BY DEF Repredict, StartOver, Judged
  <2>2. guess = NoLane
    BY <1>1, <2>1, Steps DEF WizardInv
  <2> QED BY <2>2, JudgedAt DEF Repredict, StartOver
<1>7. guess' = NoLane
  BY <1>5, <1>6
<1>8. WizardOK'
  <2>1. \A i \in 1..MaxCreates : EntryOK(creates[i])'
    BY <1>1, <1>4 DEF WizardOK, EntryOK
  <2>2. guess' \in Lanes
    BY <1>7 DEF Lanes
  <2> QED BY <1>1, <1>3, <1>4, <1>5, <2>1, <2>2 DEF WizardOK
<1>9. OneGo => OneGo'
  <2> SUFFICES ASSUME OneGo PROVE OneGo'
    OBVIOUS
  <2>0. /\ setup.predicted.operator = setup.operator /\ setup.predicted.salt = setup.salt
        /\ setup.predicted.impl <= impl /\ setup.predicted.impl \in Int /\ impl \in Int
    BY <1>1, <1>6, WizardAssumption DEF OneGo, WizardOK, Lane, WizardAssumption
  <2>1. ASSUME NEW i \in 1..MaxCreates, Live(creates[i])
        PROVE  Awaited(creates[i])'
    <3>1. Awaited(creates[i])
      BY <2>1 DEF OneGo
    <3>2. Current(creates[i]) => Doomed(creates[i])
      <4> SUFFICES ASSUME Current(creates[i]) PROVE Doomed(creates[i])
        OBVIOUS
      <4>1. creates[i].predicted = setup.predicted
        BY DEF Current
      <4>2. CASE Differs(setup.predicted, setup.operator)
        BY <2>0, <4>1, <4>2 DEF Differs, Doomed
      <4>3. CASE /\ setup.predicted \notin listed
                 /\ Predicted(setup.operator, setup.salt) # setup.predicted
        <5>1. creates[i].at = "mined" => creates[i].lane \in listed
          BY <1>1 DEF WizardOK, EntryOK
        <5>2. setup.predicted.impl # impl
          BY <1>6, <2>0, <4>3 DEF Predicted, Lane
        <5> QED BY <2>0, <4>1, <4>3, <5>1, <5>2 DEF Doomed
      <4> QED BY <1>6, <4>2, <4>3
    <3>3. Doomed(creates[i]) => Doomed(creates[i])'
      BY <1>4 DEF Doomed
    <3>4. Past(creates[i]) => Past(creates[i])'
      BY <1>3, <1>4, <1>5, <1>7 DEF Past
    <3> QED BY <1>3, <1>4, <1>5, <3>1, <3>2, <3>3, <3>4 DEF Awaited
  <2>2. \A i \in 1..MaxCreates : Live(creates[i])' => Awaited(creates[i])'
    BY <1>4, <2>1 DEF Live
  <2> QED BY <1>3, <1>4, <1>5, <1>6, <1>7, <2>2 DEF OneGo
<1> QED BY <1>3, <1>4, <1>5, <1>6, <1>7, <1>8, <1>9 DEF WizardInv

\* A call is sent for the lane that was judged, with the allowlist naming it.
LEMMA CreateKeeps ==
  ASSUME WizardInv, NEW i \in 1..MaxCreates, Create(i)
  PROVE  WizardInv'
<1> DEFINE c == [at |-> "prompt", operator |-> setup.operator, salt |-> setup.salt,
                 predicted |-> setup.predicted, lane |-> NoLane]
<1>1. WizardOK /\ setup \in Setup
  BY DEF WizardInv, WizardOK
<1>2. /\ setup.operator \in Operator /\ setup.salt \in 0..MaxLanes /\ setup.predicted \in Lane
      /\ setup.policyAck /\ guess = NoLane
  <2>1. Active(setup, 5)
    BY DEF Create, Judged
  <2>2. guess = NoLane
    BY <1>1, <2>1, Steps DEF WizardInv
  <2> QED BY <2>2, JudgedAt DEF Create
<1>3. /\ c \in Entry /\ c.at = "prompt" /\ c.operator = setup.operator /\ c.salt = setup.salt
      /\ c.predicted = setup.predicted
  <2>1. setup.salt \in -1..MaxLanes
    BY <1>1 DEF Setup
  <2> QED BY <1>2, <2>1 DEF Entry, Lanes, Ats
<1>4. /\ creates' = [creates EXCEPT ![i] = c] /\ mounted' = i
      /\ setup' = setup /\ guess' = guess /\ allow' = allow
      /\ impl' = impl /\ proposed' = proposed /\ deployed' = deployed
      /\ listed' = listed /\ changed' = changed
      /\ dynamic' = dynamic /\ record' = record
      /\ resumed' = resumed /\ crossed' = crossed
  BY DEF Create, chainVars, agentVars
<1> HIDE DEF c
<1>5. creates' \in [1..MaxCreates -> Entry] /\ creates'[i] = c
      /\ \A j \in 1..MaxCreates : j # i => creates'[j] = creates[j]
  BY <1>1, <1>3, <1>4 DEF WizardOK
<1>6. WizardOK'
  <2>1. ASSUME NEW j \in 1..MaxCreates PROVE EntryOK(creates[j])'
    <3>1. CASE j = i
      BY <1>2, <1>3, <1>4, <1>5, <3>1 DEF EntryOK
    <3>2. CASE j # i
      BY <1>1, <1>4, <1>5, <3>2 DEF WizardOK, EntryOK
    <3> QED BY <3>1, <3>2
  <2>2. mounted' \in 0..MaxCreates
    BY <1>4, WizardAssumption DEF WizardAssumption
  <2> QED BY <1>1, <1>4, <1>5, <2>1, <2>2 DEF WizardOK
<1>7. OneGo => OneGo'
  <2> SUFFICES ASSUME OneGo PROVE OneGo'
    OBVIOUS
  <2>1. ASSUME NEW j \in 1..MaxCreates, Live(creates[j])'
        PROVE  Awaited(creates[j])'
    <3>1. CASE j = i
      <4>1. Current(creates[j])'
        BY <1>2, <1>3, <1>4, <1>5, <3>1 DEF Current
      <4>2. /\ setup.predicted.operator = setup.operator /\ setup.predicted.salt = setup.salt
            /\ setup.predicted.impl <= impl
        BY <1>2, WizardAssumption DEF OneGo, WizardAssumption
      <4> QED BY <1>3, <1>4, <1>5, <3>1, <4>1, <4>2 DEF Awaited
    <3>2. CASE j # i
      <4>1. Live(creates[j]) /\ creates'[j] = creates[j]
        BY <1>5, <2>1, <3>2 DEF Live
      <4>2. Awaited(creates[j])
        BY <4>1 DEF OneGo
      <4> QED BY <1>4, <4>1, <4>2 DEF Awaited, Current, Doomed, Past
    <3> QED BY <3>1, <3>2
  <2> QED BY <1>4, <2>1 DEF OneGo
<1>8. (guess # NoLane => Active(setup, 4))'
  BY <1>2, <1>4
<1> QED BY <1>4, <1>6, <1>7, <1>8 DEF WizardInv

\* A call on its way, answered or refused, is the same call or none.
LEMMA CreateToKeeps ==
  ASSUME WizardInv, NEW i \in 1..MaxCreates, Answer(i) \/ GiveUp(i) \/ Refused(i)
  PROVE  WizardInv'
<1>1. WizardOK /\ creates[i] \in Entry
  BY DEF WizardInv, WizardOK
<1>2. PICK at \in {"sent", "free", "gone"} :
        /\ CreateTo(i, at)
        /\ at = "sent" => creates[i].at = "prompt"
        /\ at # "free" => creates[i].at \in {"prompt", "sent"}
  BY DEF Answer, GiveUp, Refused
<1> DEFINE c == IF at = "free" THEN Free ELSE [creates[i] EXCEPT !.at = at]
<1>3. /\ c \in Entry /\ c.at = at
      /\ at # "free" => /\ c.operator = creates[i].operator /\ c.salt = creates[i].salt
                        /\ c.predicted = creates[i].predicted /\ c.lane = creates[i].lane
  <2>1. Free \in Entry /\ Free.at = "free"
    <3>1. -1 \in -1..MaxLanes
      BY WizardAssumption DEF WizardAssumption
    <3> QED BY <3>1 DEF Free, Entry, Ats, Lanes
  <2>2. at # "free" => [creates[i] EXCEPT !.at = at] \in Entry
    BY <1>1, <1>2 DEF Entry, Ats
  <2> QED BY <1>1, <2>1, <2>2 DEF Entry
<1>4. /\ creates' = [creates EXCEPT ![i] = c]
      /\ setup' = setup /\ guess' = guess /\ allow' = allow
      /\ impl' = impl /\ proposed' = proposed /\ deployed' = deployed
      /\ listed' = listed /\ changed' = changed
      /\ dynamic' = dynamic /\ record' = record
      /\ resumed' = resumed /\ crossed' = crossed
  BY <1>2 DEF CreateTo, chainVars, agentVars
<1>5. mounted' \in 0..MaxCreates
  BY <1>1, <1>2, WizardAssumption DEF CreateTo, WizardOK, WizardAssumption
<1> HIDE DEF c
<1>6. creates' \in [1..MaxCreates -> Entry] /\ creates'[i] = c
      /\ \A j \in 1..MaxCreates : j # i => creates'[j] = creates[j]
  BY <1>1, <1>3, <1>4 DEF WizardOK
<1>7. WizardOK'
  <2>1. ASSUME NEW j \in 1..MaxCreates PROVE EntryOK(creates[j])'
    <3>0. EntryOK(creates[j])
      BY <1>1 DEF WizardOK
    <3>1. CASE j = i
      BY <1>2, <1>3, <1>4, <1>6, <3>0, <3>1 DEF EntryOK
    <3>2. CASE j # i
      BY <1>4, <1>6, <3>0, <3>2 DEF EntryOK
    <3> QED BY <3>1, <3>2
  <2> QED BY <1>1, <1>4, <1>5, <1>6, <2>1 DEF WizardOK
<1>8. OneGo => OneGo'
  <2> SUFFICES ASSUME OneGo PROVE OneGo'
    OBVIOUS
  <2>1. ASSUME NEW j \in 1..MaxCreates, Live(creates[j])'
        PROVE  Awaited(creates[j])'
    <3>1. CASE j = i
      <4>1. c.at = "sent" /\ creates[i].at = "prompt"
        BY <1>2, <1>3, <1>6, <2>1, <3>1 DEF Live
      <4>2. Awaited(creates[i])
        BY <4>1 DEF OneGo, Live
      <4> QED BY <1>2, <1>3, <1>4, <1>6, <3>1, <4>1, <4>2 DEF Awaited, Current, Doomed, Past
    <3>2. CASE j # i
      <4>1. Live(creates[j]) /\ creates'[j] = creates[j]
        BY <1>6, <2>1, <3>2 DEF Live
      <4>2. Awaited(creates[j])
        BY <4>1 DEF OneGo
      <4> QED BY <1>4, <4>1, <4>2 DEF Awaited, Current, Doomed, Past
    <3> QED BY <3>1, <3>2
  <2> QED BY <1>4, <2>1 DEF OneGo
<1>9. (guess # NoLane => Active(setup, 4))'
  BY <1>4 DEF WizardInv, Active, Done, Delegated, Confirmed
<1> QED BY <1>4, <1>7, <1>8, <1>9 DEF WizardInv

\* Where a call lands is decided by the implementation of its block.
LEMMA LandKeeps ==
  ASSUME WizardInv, NEW i \in 1..MaxCreates, Land(i)
  PROVE  WizardInv'
<1> DEFINE l == Predicted(creates[i].operator, creates[i].salt)
           at == IF l \in listed THEN "reverted" ELSE "mined"
           c  == IF creates[i].at # "sent" THEN Free
                 ELSE [creates[i] EXCEPT !.at = at, !.lane = l]
<1>1. WizardOK /\ creates[i] \in Entry /\ impl \in 1..MaxImpl /\ EntryOK(creates[i])
  BY DEF WizardInv, WizardOK
<1>2. /\ creates' = [creates EXCEPT ![i] = c]
      /\ setup' = setup /\ guess' = guess /\ allow' = allow /\ mounted' = mounted
      /\ impl' = impl /\ proposed' = proposed
      /\ deployed' = deployed \cup {l} /\ listed' = listed \cup {l} /\ changed' = changed
      /\ dynamic' = dynamic /\ record' = record
      /\ resumed' = resumed /\ crossed' = crossed
  BY DEF Land, agentVars
<1>3. creates[i].at \in {"sent", "gone"} /\ creates[i].operator \in Operator
      /\ creates[i].salt \in 0..MaxLanes /\ creates[i].predicted \in Lane
  BY <1>1 DEF Land, EntryOK
<1>4. l \in Lane /\ l.operator = creates[i].operator /\ l.salt = creates[i].salt /\ l.impl = impl
  BY <1>1, <1>3 DEF Predicted, Lane
<1>5. at \in {"reverted", "mined"}
  OBVIOUS
<1> HIDE DEF l, at
<1>6. /\ c \in Entry /\ c.at \in {"free", "reverted", "mined"}
      /\ c.at # "free" =>
           /\ creates[i].at = "sent" /\ c.lane = l
           /\ c.operator = creates[i].operator /\ c.salt = creates[i].salt
           /\ c.predicted = creates[i].predicted
  <2>1. Free \in Entry /\ Free.at = "free"
    <3>1. -1 \in -1..MaxLanes
      BY WizardAssumption DEF WizardAssumption
    <3> QED BY <3>1 DEF Free, Entry, Ats, Lanes
  <2>2. /\ [creates[i] EXCEPT !.at = at, !.lane = l] \in Entry
        /\ [creates[i] EXCEPT !.at = at, !.lane = l].at = at
        /\ [creates[i] EXCEPT !.at = at, !.lane = l].lane = l
        /\ [creates[i] EXCEPT !.at = at, !.lane = l].operator = creates[i].operator
        /\ [creates[i] EXCEPT !.at = at, !.lane = l].salt = creates[i].salt
        /\ [creates[i] EXCEPT !.at = at, !.lane = l].predicted = creates[i].predicted
    BY <1>1, <1>4, <1>5 DEF Entry, Ats, Lanes
  <2> QED BY <1>3, <1>5, <2>1, <2>2
<1> HIDE DEF c
<1>7. creates' \in [1..MaxCreates -> Entry] /\ creates'[i] = c
      /\ \A j \in 1..MaxCreates : j # i => creates'[j] = creates[j]
  BY <1>1, <1>2, <1>6 DEF WizardOK
<1>8. WizardOK'
  <2>1. ASSUME NEW j \in 1..MaxCreates PROVE EntryOK(creates[j])'
    <3>0. EntryOK(creates[j])
      BY <1>1 DEF WizardOK
    <3>1. CASE j = i
      BY <1>2, <1>3, <1>4, <1>6, <1>7, <3>1 DEF EntryOK
    <3>2. CASE j # i
      BY <1>2, <1>7, <3>0, <3>2 DEF EntryOK
    <3> QED BY <3>1, <3>2
  <2> QED BY <1>1, <1>2, <1>4, <1>7, <2>1 DEF WizardOK
<1>9. OneGo => OneGo'
  <2> SUFFICES ASSUME OneGo PROVE OneGo'
    OBVIOUS
  <2>1. ASSUME NEW j \in 1..MaxCreates, Live(creates[j])'
        PROVE  Awaited(creates[j])'
    <3>1. CASE j = i
      <4>1. c.at = "mined" /\ creates[i].at = "sent"
        BY <1>6, <1>7, <2>1, <3>1 DEF Live
      <4>2. Awaited(creates[i])
        BY <4>1 DEF OneGo, Live
      <4>3. /\ c.lane = l /\ c.operator = creates[i].operator /\ c.salt = creates[i].salt
            /\ c.predicted = creates[i].predicted
        BY <1>6, <4>1
      <4>4. Current(creates[i]) => Current(creates[j])'
        BY <1>2, <1>7, <3>1, <4>3 DEF Current
      <4>5. Doomed(creates[i]) => Doomed(creates[j])'
        <5>1. creates[i].predicted.impl < impl => l # creates[i].predicted
          BY <1>1, <1>3, <1>4 DEF Lane
        <5> QED BY <1>2, <1>7, <3>1, <4>1, <4>3, <5>1 DEF Doomed
      <4>6. Past(creates[i]) => Past(creates[j])'
        BY <1>2, <1>7, <3>1, <4>3 DEF Past
      <4>7. impl \in Int
        BY <1>1
      <4> QED BY <1>2, <1>4, <1>7, <3>1, <4>2, <4>3, <4>4, <4>5, <4>6, <4>7 DEF Awaited
    <3>2. CASE j # i
      <4>1. Live(creates[j]) /\ creates'[j] = creates[j]
        BY <1>7, <2>1, <3>2 DEF Live
      <4>2. Awaited(creates[j])
        BY <4>1 DEF OneGo
      <4> QED BY <1>2, <4>1, <4>2 DEF Awaited, Current, Doomed, Past
    <3> QED BY <3>1, <3>2
  <2> QED BY <1>2, <2>1 DEF OneGo
<1>10. (guess # NoLane => Active(setup, 4))'
  BY <1>2 DEF WizardInv, Active, Done, Delegated, Confirmed
<1> QED BY <1>2, <1>8, <1>9, <1>10 DEF WizardInv

\* A receipt creates the lane the allowlist names, moves the setup to where the lane is,
\* or answers to a setup that is no longer the one it was sent for.
LEMMA ReceiptKeeps ==
  ASSUME WizardInv, NEW i \in 1..MaxCreates, Receipt(i)
  PROVE  WizardInv'
<1> DEFINE c     == creates[i]
           moved == [setup EXCEPT !.predicted = c.lane, !.policyAck = FALSE, !.moved = TRUE]
           made  == [setup EXCEPT !.lane = c.lane, !.moved = FALSE]
<1>1. WizardOK /\ setup \in Setup /\ c \in Entry /\ c.at = "mined" /\ EntryOK(c)
  BY DEF WizardInv, WizardOK, Receipt
<1>2. /\ c.lane \in listed /\ c.lane \in Lane /\ c.predicted \in Lane /\ c.lane # NoLane
  BY <1>1, WizardAssumption DEF EntryOK, WizardAssumption
<1>3. /\ moved \in Setup /\ moved.operator = setup.operator /\ moved.salt = setup.salt
      /\ moved.predicted = c.lane /\ ~moved.policyAck /\ moved.lane = setup.lane
  BY <1>1, <1>2 DEF Setup, Lanes
<1>4. /\ made \in Setup /\ made.operator = setup.operator /\ made.salt = setup.salt
      /\ made.predicted = setup.predicted /\ made.policyAck = setup.policyAck
      /\ made.lane = c.lane
  BY <1>1, <1>2 DEF Setup, Lanes
<1>5. /\ creates' = [creates EXCEPT ![i] = Free] /\ guess' = NoLane /\ allow' = allow
      /\ impl' = impl /\ proposed' = proposed /\ deployed' = deployed
      /\ listed' = listed /\ changed' = changed
      /\ dynamic' = dynamic /\ record' = record /\ resumed' = resumed
  BY DEF Receipt, chainVars, agentVars
<1>6. \/ c.lane # c.predicted /\ setup' = moved
      \/ c.lane = c.predicted /\ Differs(c.lane, c.operator) /\ setup' = setup
      \/ c.lane = c.predicted /\ ~Differs(c.lane, c.operator) /\ setup' = made
  BY DEF Receipt
<1>7. crossed' = (crossed \/ setup.lane # NoLane
                  \/ <<c.operator, c.predicted>> # <<setup.operator, setup.predicted>>)
  BY DEF Receipt
<1>8. mounted' \in 0..MaxCreates
  BY <1>1, WizardAssumption DEF Receipt, WizardOK, WizardAssumption
<1> HIDE DEF moved, made
<1>9. Free \in Entry /\ Free.at = "free"
  <2>1. -1 \in -1..MaxLanes
    BY WizardAssumption DEF WizardAssumption
  <2> QED BY <2>1 DEF Free, Entry, Ats, Lanes
<1>10. creates' \in [1..MaxCreates -> Entry] /\ creates'[i] = Free
       /\ \A j \in 1..MaxCreates : j # i => creates'[j] = creates[j]
  BY <1>1, <1>5, <1>9 DEF WizardOK
<1>11. WizardOK'
  <2>1. ASSUME NEW j \in 1..MaxCreates PROVE EntryOK(creates[j])'
    <3>1. CASE j = i
      BY <1>9, <1>10, <3>1 DEF EntryOK
    <3>2. CASE j # i
      BY <1>1, <1>5, <1>10, <3>2 DEF WizardOK, EntryOK
    <3> QED BY <3>1, <3>2
  <2>2. guess' \in Lanes /\ setup' \in Setup
    BY <1>1, <1>3, <1>4, <1>5, <1>6 DEF Lanes
  <2>3. crossed \in BOOLEAN
    BY <1>1 DEF WizardOK
  <2>4. crossed' \in BOOLEAN
    BY <1>7, <2>3
  <2> QED BY <1>1, <1>5, <1>8, <1>10, <2>1, <2>2, <2>4 DEF WizardOK
<1>12. setup'.lane # NoLane => setup'.lane \in listed'
  BY <1>2, <1>3, <1>4, <1>5, <1>6 DEF WizardInv
<1>13. ASSUME OneGo, ~crossed' PROVE OneGo'
  <2>1. /\ setup.lane = NoLane /\ c.operator = setup.operator /\ c.predicted = setup.predicted
    BY <1>7, <1>13
  <2>2. Live(c) /\ Awaited(c)
    BY <1>1, <1>13 DEF OneGo, Live
  <2>3. /\ setup.predicted \in Lane /\ setup.predicted # NoLane
        /\ setup.predicted.operator = setup.operator /\ setup.predicted.salt = setup.salt
        /\ setup.predicted.impl <= impl
    BY <1>2, <1>13, <2>1, WizardAssumption DEF OneGo, WizardAssumption
  <2>4. /\ c.lane.operator = setup.operator /\ c.lane.salt = setup.salt
        /\ setup.predicted.impl <= c.lane.impl /\ c.lane.impl <= impl
    BY <1>1, <2>1, <2>2, <2>3 DEF Awaited
  <2>5. /\ \A p \in Lane : p.impl \in Int
        /\ impl \in Int
    BY <1>1 DEF WizardOK, Lane
  <2>6. CASE c.lane # c.predicted /\ setup' = moved
    <3>1. setup.predicted.impl < c.lane.impl
      BY <1>2, <2>1, <2>3, <2>4, <2>5, <2>6 DEF Lane
    <3>2. ASSUME NEW j \in 1..MaxCreates, Live(creates[j])'
          PROVE  Awaited(creates[j])'
      <4>1. j # i
        BY <1>9, <1>10, <3>2 DEF Live
      <4>2. Live(creates[j]) /\ creates'[j] = creates[j]
        BY <1>10, <3>2, <4>1 DEF Live
      <4>3. Awaited(creates[j]) /\ creates[j].predicted.impl \in Int
        BY <1>1, <1>13, <2>5, <4>2 DEF OneGo, WizardOK, EntryOK, Live
      <4>4. c.lane.impl \in Int /\ setup.predicted.impl \in Int
        BY <1>2, <2>3, <2>5
      <4>5. Current(creates[j]) => creates[j].predicted.impl < c.lane.impl
        BY <3>1 DEF Current
      <4>6. Past(creates[j]) => creates[j].predicted.impl < c.lane.impl
        BY <2>3, <3>1, <4>3, <4>4 DEF Past
      <4>7. Doomed(creates[j]) => Doomed(creates[j])'
        BY <1>5, <4>2 DEF Doomed
      <4>8. creates[j].predicted.impl < c.lane.impl => Past(creates[j])'
        BY <1>3, <1>5, <2>4, <2>5, <2>6, <4>2, <4>3, <4>4 DEF Past
      <4> QED BY <1>3, <1>5, <2>6, <4>2, <4>3, <4>5, <4>6, <4>7, <4>8 DEF Awaited
    <3> QED BY <1>3, <1>5, <2>1, <2>4, <2>6, <3>2 DEF OneGo
  <2>7. ASSUME setup'.predicted = setup.predicted, setup'.policyAck = setup.policyAck,
               setup'.operator = setup.operator, NEW j \in 1..MaxCreates, Live(creates[j])'
        PROVE  Awaited(creates[j])'
    <3>1. j # i
      BY <1>9, <1>10, <2>7 DEF Live
    <3>2. Live(creates[j]) /\ creates'[j] = creates[j]
      BY <1>10, <2>7, <3>1 DEF Live
    <3>3. Awaited(creates[j])
      BY <1>13, <3>2 DEF OneGo
    <3> QED BY <1>5, <2>7, <3>2, <3>3 DEF Awaited, Current, Doomed, Past
  <2>8. CASE setup' = setup
    BY <1>5, <1>13, <2>7, <2>8 DEF OneGo
  <2>9. CASE c.lane = c.predicted /\ ~Differs(c.lane, c.operator) /\ setup' = made
    <3>1. ~Doomed(c)
      BY <1>1, <2>9 DEF Doomed, Differs
    <3>2. ~Past(c)
      BY <2>1, <2>3, <2>5 DEF Past
    <3>3. setup.policyAck
      BY <2>2, <3>1, <3>2 DEF Awaited, Current
    <3> QED BY <1>4, <1>5, <1>13, <2>1, <2>3, <2>7, <2>9, <3>3 DEF OneGo
  <2> QED BY <1>6, <2>6, <2>8, <2>9
<1>14. ~crossed' => ~crossed
  BY <1>7
<1> QED BY <1>5, <1>11, <1>12, <1>13, <1>14 DEF WizardInv

\* A setup continued from "Your desks" is of a lane the Vault listed.
LEMMA ResumeKeeps ==
  ASSUME WizardInv, NEW l \in listed, Resume(l)
  PROVE  WizardInv'
<1> DEFINE s == [INITIAL EXCEPT !.operator = l.operator, !.gasAck = TRUE, !.predicted = l,
                                !.policyAck = TRUE, !.lane = l]
<1>1. WizardOK /\ l \in Lane /\ l \in Lanes /\ l.operator \in Operator /\ l # NoLane
  BY WizardAssumption DEF WizardInv, WizardOK, Lane, Lanes, WizardAssumption
<1>2. s \in Setup /\ s.lane = l /\ s.predicted = l /\ s.policyAck
  <2>1. s = [INITIAL EXCEPT !.operator = l.operator, !.gasAck = TRUE, !.predicted = l,
                            !.policyAck = TRUE, !.lane = l]
    OBVIOUS
  <2> HIDE DEF s
  <2> QED BY <1>1, <2>1, InitialSetup DEF Setup
<1>3. /\ Set(s) /\ creates' = creates /\ allow' = allow
      /\ impl' = impl /\ proposed' = proposed /\ deployed' = deployed
      /\ listed' = listed /\ changed' = changed
      /\ dynamic' = dynamic /\ record' = record
      /\ resumed' = TRUE /\ crossed' = crossed
  BY DEF Resume, chainVars, agentVars
<1> HIDE DEF s
<1>4. /\ setup' = s /\ guess' \in {guess, NoLane} /\ mounted' \in 0..MaxCreates
      /\ guess' # NoLane => Active(s, 4)
  BY <1>1, <1>2, <1>3, SetKeeps
<1>5. guess' = NoLane
  BY <1>1, <1>2, <1>4, Steps
<1>6. WizardOK'
  <2>1. \A i \in 1..MaxCreates : EntryOK(creates[i])'
    BY <1>1, <1>3 DEF WizardOK, EntryOK
  <2>2. guess' \in Lanes
    BY <1>5 DEF Lanes
  <2> QED BY <1>1, <1>2, <1>3, <1>4, <2>1, <2>2 DEF WizardOK
<1> QED BY <1>2, <1>3, <1>4, <1>5, <1>6 DEF WizardInv

\* A page that is loaded again awaits nothing.
LEMMA ReloadKeeps ==
  ASSUME WizardInv, Reload
  PROVE  WizardInv'
<1>1. WizardOK
  BY DEF WizardInv
<1>2. /\ setup' = setup /\ guess' = NoLane /\ mounted' = 0 /\ allow' = allow
      /\ impl' = impl /\ proposed' = proposed /\ deployed' = deployed
      /\ listed' = listed /\ changed' = changed
      /\ dynamic' = dynamic /\ record' = record
      /\ resumed' = resumed /\ crossed' = crossed
  BY DEF Reload, chainVars, agentVars
<1>3. creates' = [i \in 1..MaxCreates |->
        IF creates[i].at \in {"sent", "gone"} THEN [creates[i] EXCEPT !.at = "gone"] ELSE Free]
  BY DEF Reload
<1>4. ASSUME NEW i \in 1..MaxCreates
      PROVE  creates'[i] \in Entry /\ EntryOK(creates[i])' /\ ~Live(creates[i])'
  <2>0. creates[i] \in Entry /\ EntryOK(creates[i])
    BY <1>1 DEF WizardOK
  <2>1. CASE creates[i].at \in {"sent", "gone"}
    <3>1. creates'[i] = [creates[i] EXCEPT !.at = "gone"]
      BY <1>3, <2>1
    <3>2. /\ creates'[i] \in Entry /\ creates'[i].at = "gone"
          /\ creates'[i].operator = creates[i].operator /\ creates'[i].salt = creates[i].salt
          /\ creates'[i].predicted = creates[i].predicted
      BY <2>0, <3>1 DEF Entry, Ats
    <3> QED BY <2>0, <2>1, <3>2 DEF EntryOK, Live
  <2>2. CASE creates[i].at \notin {"sent", "gone"}
    <3>1. creates'[i] = Free
      BY <1>3, <2>2
    <3>2. Free \in Entry /\ Free.at = "free"
      <4>1. -1 \in -1..MaxLanes
        BY WizardAssumption DEF WizardAssumption
      <4> QED BY <4>1 DEF Free, Entry, Ats, Lanes
    <3> QED BY <3>1, <3>2 DEF EntryOK, Live
  <2> QED BY <2>1, <2>2
<1>5. creates' \in [1..MaxCreates -> Entry]
  BY <1>3, <1>4
<1>6. WizardOK'
  <2>1. guess' \in Lanes /\ mounted' \in 0..MaxCreates
    BY <1>2, WizardAssumption DEF Lanes, WizardAssumption
  <2> QED BY <1>1, <1>2, <1>4, <1>5, <2>1 DEF WizardOK
<1>7. OneGo => OneGo'
  BY <1>2, <1>4 DEF OneGo
<1> QED BY <1>2, <1>6, <1>7 DEF WizardInv

\* The chain only adds: implementations, lanes, and what owners change of theirs.
LEMMA ChainKeeps ==
  ASSUME WizardInv, Chain
  PROVE  WizardInv'
<1>1. WizardOK /\ impl \in 1..MaxImpl
  BY DEF WizardInv, WizardOK
<1>2. /\ setup' = setup /\ guess' = guess /\ creates' = creates /\ mounted' = mounted
      /\ allow' = allow /\ listed' = listed /\ dynamic' = dynamic /\ record' = record
      /\ resumed' = resumed /\ crossed' = crossed
  BY DEF Chain, pageVars, agentVars
<1>3. /\ impl' \in 1..MaxImpl /\ impl <= impl' /\ proposed' \in BOOLEAN
      /\ proposed' => impl' < MaxImpl
      /\ deployed \subseteq deployed' /\ deployed' \subseteq Lane
      /\ changed \subseteq changed' /\ changed' \subseteq deployed'
  <2>1. CASE impl < MaxImpl /\ ~proposed /\ proposed' = TRUE /\ UNCHANGED <<impl, deployed, changed>>
    BY <1>1, <2>1 DEF WizardOK
  <2>2. CASE proposed /\ proposed' = FALSE /\ impl' \in {impl, impl + 1} /\ UNCHANGED <<deployed, changed>>
    <3>1. impl < MaxImpl /\ proposed' = FALSE /\ impl' \in {impl, impl + 1}
          /\ deployed' = deployed /\ changed' = changed
      BY <1>1, <2>2 DEF WizardOK
    <3>2. impl' \in 1..MaxImpl /\ impl <= impl'
      BY <1>1, <3>1, WizardAssumption DEF WizardAssumption
    <3> QED BY <1>1, <3>1, <3>2 DEF WizardOK
  <2>3. ASSUME NEW o \in Operator, NEW n \in 0..MaxLanes,
               deployed' = deployed \cup {Predicted(o, n)}, UNCHANGED <<impl, proposed, changed>>
        PROVE  /\ impl' \in 1..MaxImpl /\ impl <= impl' /\ proposed' \in BOOLEAN
               /\ proposed' => impl' < MaxImpl
               /\ deployed \subseteq deployed' /\ deployed' \subseteq Lane
               /\ changed \subseteq changed' /\ changed' \subseteq deployed'
    <3>1. Predicted(o, n) \in Lane
      BY <1>1 DEF Predicted, Lane
    <3> QED BY <1>1, <2>3, <3>1 DEF WizardOK
  <2>4. ASSUME NEW l \in deployed, changed' = changed \cup {l}, UNCHANGED <<impl, proposed, deployed>>
        PROVE  /\ impl' \in 1..MaxImpl /\ impl <= impl' /\ proposed' \in BOOLEAN
               /\ proposed' => impl' < MaxImpl
               /\ deployed \subseteq deployed' /\ deployed' \subseteq Lane
               /\ changed \subseteq changed' /\ changed' \subseteq deployed'
    BY <1>1, <2>4 DEF WizardOK
  <2> QED BY <2>1, <2>2, <2>3, <2>4 DEF Chain
<1>4. WizardOK'
  <2>1. \A i \in 1..MaxCreates : EntryOK(creates[i])'
    BY <1>1, <1>2 DEF WizardOK, EntryOK
  <2> QED BY <1>1, <1>2, <1>3, <2>1 DEF WizardOK
<1>5. OneGo => OneGo'
  <2> SUFFICES ASSUME OneGo PROVE OneGo'
    OBVIOUS
  <2>1. ASSUME NEW p \in Lane PROVE p.impl \in Int
    BY DEF Lane
  <2>2. impl \in Int /\ impl' \in Int
    BY <1>1, <1>3
  <2>3. ASSUME NEW i \in 1..MaxCreates, Live(creates[i])
        PROVE  Awaited(creates[i])'
    <3>1. Awaited(creates[i])
      BY <2>3 DEF OneGo
    <3>2. EntryOK(creates[i])
      BY <1>1 DEF WizardOK
    <3>3. /\ creates[i].predicted.impl \in Int
          /\ creates[i].at = "mined" => creates[i].lane.impl \in Int
      BY <2>1, <2>3, <3>2 DEF EntryOK, Live
    <3>4. Current(creates[i]) => Current(creates[i])'
      BY <1>2 DEF Current
    <3>5. Doomed(creates[i]) => Doomed(creates[i])'
      BY <1>2, <1>3, <2>2, <3>3 DEF Doomed
    <3>6. Past(creates[i]) => Past(creates[i])'
      BY <1>2, <1>3, <2>2, <3>3 DEF Past
    <3> QED BY <1>2, <1>3, <2>2, <3>1, <3>3, <3>4, <3>5, <3>6 DEF Awaited
  <2>4. \A i \in 1..MaxCreates : Live(creates[i])' => Awaited(creates[i])'
    BY <1>2, <2>3 DEF Live
  <2>5. /\ setup.predicted # NoLane => setup.predicted.impl \in Int
        /\ guess # NoLane => guess.impl \in Int
    <3>1. setup.predicted \in Lanes /\ guess \in Lanes
      BY <1>1 DEF WizardOK, Setup
    <3> QED BY <2>1, <3>1 DEF Lanes
  <2> QED BY <1>2, <1>3, <2>2, <2>4, <2>5 DEF OneGo
<1>6. (guess # NoLane => Active(setup, 4))'
  BY <1>2 DEF WizardInv, Active, Done, Delegated, Confirmed
<1> QED BY <1>2, <1>4, <1>5, <1>6 DEF WizardInv

-----------------------------------------------------------------------------
\* The setup is as said from the start, and every step keeps it so.
LEMMA WizardInvHolds == WizardSpec => []WizardInv
<1>1. WizardInit => WizardInv
  <2> SUFFICES ASSUME WizardInit PROVE WizardInv
    OBVIOUS
  <2>1. /\ setup = INITIAL /\ guess = NoLane /\ mounted = 0 /\ allow = NoLane
        /\ impl = 1 /\ proposed = FALSE /\ deployed = {} /\ listed = {} /\ changed = {}
        /\ dynamic = {} /\ record = [o \in Operator |-> "unknown"]
        /\ resumed = FALSE /\ crossed = FALSE
        /\ creates = [i \in 1..MaxCreates |-> Free]
    BY DEF WizardInit
  <2>2. Free \in Entry /\ Free.at = "free"
    <3>1. -1 \in -1..MaxLanes
      BY WizardAssumption DEF WizardAssumption
    <3> QED BY <3>1 DEF Free, Entry, Ats, Lanes
  <2>3. WizardOK
    <3>1. \A i \in 1..MaxCreates : creates[i] = Free
      BY <2>1
    <3>2. creates \in [1..MaxCreates -> Entry] /\ \A i \in 1..MaxCreates : EntryOK(creates[i])
      BY <2>1, <2>2, <3>1 DEF EntryOK
    <3>3. /\ 1 \in 1..MaxImpl /\ 0 \in 0..MaxCreates
          /\ record \in [Operator -> {"unknown", "active", "revoked"}]
      BY <2>1, WizardAssumption DEF WizardAssumption
    <3> QED BY <2>1, <3>2, <3>3, InitialSetup DEF WizardOK, Lanes
  <2>4. OneGo
    BY <2>1, <2>2, InitialSetup DEF OneGo, Live
  <2> QED BY <2>1, <2>3, <2>4, InitialSetup DEF WizardInv
<1>2. WizardInv /\ [WizardNext]_wizardVars => WizardInv'
  <2> SUFFICES ASSUME WizardInv, [WizardNext]_wizardVars PROVE WizardInv'
    OBVIOUS
  <2>1. ASSUME NEW o \in Operator, PickOperator(o) \/ RecordMoves(o) \/ DynamicGone(o)
        PROVE  WizardInv'
    BY <2>1, PickOperatorKeeps, AsideSteps
  <2>2. CASE AckGas \/ PredictLane \/ Guessed \/ Acknowledge
    BY <2>2, AsideSteps, PredictKeeps, GuessedKeeps, AcknowledgeKeeps
  <2>3. CASE Ready \/ Repredict \/ StartOver
    BY <2>3, ReadyKeeps, GiveUpKeeps
  <2>4. ASSUME NEW i \in 1..MaxCreates,
               Create(i) \/ Answer(i) \/ GiveUp(i) \/ Refused(i) \/ Land(i) \/ Receipt(i)
        PROVE  WizardInv'
    BY <2>4, CreateKeeps, CreateToKeeps, LandKeeps, ReceiptKeeps
  <2>5. CASE Delegate \/ Confirm \/ ForgetConfirmed \/ Recheck \/ AckFunds \/ Register
    BY <2>5, AsideSteps
  <2>6. ASSUME NEW l \in listed, Resume(l) PROVE WizardInv'
    BY <2>6, ResumeKeeps
  <2>7. CASE Reload \/ Chain
    BY <2>7, ReloadKeeps, ChainKeeps
  <2>8. CASE UNCHANGED wizardVars
    <3>1. /\ setup' = setup /\ guess' = guess /\ creates' = creates /\ mounted' = mounted
          /\ allow' = allow /\ listed' = listed /\ dynamic' = dynamic /\ record' = record
          /\ impl' = impl /\ proposed' = proposed /\ deployed' = deployed /\ changed' = changed
          /\ resumed' = resumed /\ crossed' = crossed
      BY <2>8 DEF wizardVars, pageVars, chainVars, agentVars
    <3>2. WizardOK
      BY DEF WizardInv
    <3>3. guess' # NoLane => Active(setup', 4)
      BY <3>1 DEF WizardInv
    <3> QED BY <3>1, <3>2, <3>3, StepAside DEF WizardOK, chainVars
  <2> QED BY <2>1, <2>2, <2>3, <2>4, <2>5, <2>6, <2>7, <2>8 DEF WizardNext
<1> QED BY <1>1, <1>2, PTL DEF WizardSpec

\* The stored state, the calls in flight and the chain are of their types (StartDesk.tsx
\* WizardState, DeskLaneFactory.sol).
THEOREM WizardTyped == WizardSpec => []WizardTypeOK
<1>1. WizardInv => WizardTypeOK
  <2> SUFFICES ASSUME WizardInv PROVE WizardTypeOK
    OBVIOUS
  <2>1. WizardOK
    BY DEF WizardInv
  <2>2. \A i \in 1..MaxCreates : creates[i].at \in Ats
    BY <2>1 DEF WizardOK, Entry
  <2> QED BY <2>1, <2>2 DEF WizardOK, WizardTypeOK, Setup, Lanes, Ats
<1> QED BY <1>1, WizardInvHolds, PTL

\* Whoever deploys the lane first, whatever lands late and however often the address
\* changes: the lane a setup delegates, funds and registers for is one the Vault listed,
\* and in a setup made in one go its operator is the Operator and the allowlist names it
\* (create.ts judge, StartDesk.tsx done and onMoved).
THEOREM SetUpIsForOwnLane == WizardSpec => []SetUpForOwnLane
<1>1. WizardInv => SetUpForOwnLane
  <2> SUFFICES ASSUME WizardInv, Beyond(setup, 5)
               PROVE  /\ setup.lane \in listed
                      /\ ~resumed /\ ~crossed =>
                           setup.lane.operator = setup.operator /\ allow = setup.lane
    BY DEF SetUpForOwnLane
  <2>1. setup \in Setup
    BY DEF WizardInv, WizardOK
  <2>2. setup.predicted # NoLane /\ setup.policyAck /\ setup.lane # NoLane
    BY <2>1, Steps
  <2> QED BY <2>2 DEF WizardInv, OneGo
<1> QED BY <1>1, WizardInvHolds, PTL
=============================================================================
