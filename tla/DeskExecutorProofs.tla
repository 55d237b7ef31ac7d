-------------------------- MODULE DeskExecutorProofs --------------------------
(***************************************************************************)
(* Theorems about DeskExecutor, for every set of decision steps and every  *)
(* value of its parameters.                                                *)
(***************************************************************************)
EXTENDS DeskExecutor, TLAPS

\* An attempt is a pair of a decision step and a signature number.
LEMMA AttemptFacts ==
  /\ \A a \in Attempt : a[1] \in Decision /\ a[2] \in 1..MaxAttempts /\ a = <<a[1], a[2]>>
  /\ \A d \in Decision, k \in 1..MaxAttempts :
       <<d, k>> \in Attempt /\ <<d, k>>[1] = d /\ <<d, k>>[2] = k
BY DEF Attempt

\* The attempts of one decision are ordered by their number.
LEMMA AttemptOrder ==
  ASSUME NEW a \in Attempt, NEW b \in Attempt, a[1] = b[1]
  PROVE  a = b \/ a[2] < b[2] \/ a[2] > b[2]
<1>1. a[2] \in 1..MaxAttempts /\ b[2] \in 1..MaxAttempts /\ a = <<a[1], a[2]>> /\ b = <<b[1], b[2]>>
  BY AttemptFacts
<1>2. CASE a[2] = b[2]
  BY <1>1, <1>2
<1>3. CASE a[2] # b[2]
  BY <1>1, <1>3, ExecutorAssumption
<1> QED
  BY <1>2, <1>3

\* The pending transaction count is a natural number.
LEMMA PendingCountType ==
  ASSUME TypeOK
  PROVE  PendingCount \in Nat
BY DEF TypeOK, ChainTyped, PendingCount

\* Whenever the process awaits something, it does so for an attempt.
LEMMA CurFacts ==
  ASSUME TypeOK, pc \notin {"idle", "down"}
  PROVE  cur \in Attempt /\ cur[1] \in Decision /\ cur[2] \in 1..MaxAttempts
BY AttemptFacts DEF TypeOK, ProcessTyped

\* What the shared record keeping writes has the type of the columns it writes.
LEMMA FinalizeTyped ==
  ASSUME TypeOK, NEW a \in Attempt, NEW to \in {"unknown", "dropped"}, NEW c \in Code,
         Finalize(a, to, c), UNCHANGED <<signed, deadline, count, nonceOf, lastNonce>>
  PROVE  RecordsTyped'
BY AttemptFacts DEF Finalize, TypeOK, RecordsTyped, InFlight, Settled, Open

\* An execution's own failure leaves the records well-typed,
LEMMA CaughtTyped ==
  ASSUME TypeOK, NEW d \in Decision, Caught(d), lastNonce' \in Int
  PROVE  RecordsTyped'
<1>1. exec' \in [Decision -> {"none"} \cup InFlight \cup Settled]
  BY DEF Caught, TypeOK, RecordsTyped, InFlight, Settled
<1>2. code' \in [Decision -> Code]
  BY DEF Caught, TypeOK, RecordsTyped, Code
<1> QED
  BY <1>1, <1>2 DEF Caught, TypeOK, RecordsTyped

\* so does what a receipt settles,
LEMMA RecordReceiptTyped ==
  ASSUME TypeOK, NEW a \in Attempt, RecordReceipt(a),
         UNCHANGED <<signed, deadline, count, nonceOf, lastNonce>>
  PROVE  RecordsTyped'
BY AttemptFacts DEF RecordReceipt, TypeOK, RecordsTyped, InFlight, Settled, Open, Code

\* so does a drop,
LEMMA DropTyped ==
  ASSUME TypeOK, NEW a \in Attempt, NEW c \in Code, Drop(a, c),
         UNCHANGED <<signed, deadline, count, nonceOf, lastNonce>>
  PROVE  RecordsTyped'
BY AttemptFacts DEF Drop, TypeOK, RecordsTyped, InFlight, Settled, Open, Code

\* and so does the mark that bytes were sent.
LEMMA MarkBroadcastTyped ==
  ASSUME TypeOK, NEW a \in Attempt, MarkBroadcast(a),
         UNCHANGED <<signed, code, deadline, nonceOf, lastNonce>>
  PROVE  RecordsTyped'
BY AttemptFacts DEF MarkBroadcast, TypeOK, RecordsTyped, InFlight, Settled, Open

\* The initial state is well typed.
LEMMA InitType == Init => TypeOK
BY ExecutorAssumption DEF Init, TypeOK, RecordsTyped, ChainTyped, ProcessTyped, Code, Status, Pc, Nobody

\* Every step keeps the types: one step per action, one per group of variables.
LEMMA NextType == TypeOK /\ [Next]_vars => TypeOK'
<1> SUFFICES ASSUME TypeOK, [Next]_vars PROVE TypeOK'
  OBVIOUS
<1> USE AttemptFacts, ExecutorAssumption
<1>1. ASSUME NEW d \in Decision, Prepare(d) PROVE TypeOK'
  <2>1. RecordsTyped'
    BY <1>1 DEF Prepare, TypeOK, RecordsTyped, ChainTyped, InFlight
  <2>2. ChainTyped'
    BY <1>1 DEF Prepare, TypeOK, ChainTyped, ProcessTyped, chainVars, Visible, Mined
  <2>3. ProcessTyped'
    BY <1>1 DEF Prepare, TypeOK, ChainTyped, ProcessTyped, procVars, Idle, Await, Pc
  <2>4. desk' \in Status
    BY <1>1 DEF Prepare, TypeOK, Status
  <2> QED
    BY <2>1, <2>2, <2>3, <2>4 DEF TypeOK
<1>2. CASE Simulate
  <2>1. RecordsTyped'
    <3>1. CASE Caught(cur[1]) /\ lastNonce' = lastNonce
      BY <1>2, <3>1, CurFacts, CaughtTyped DEF Simulate, TypeOK, RecordsTyped
    <3>2. CASE ~(Caught(cur[1]) /\ lastNonce' = lastNonce)
      BY <1>2, <3>2, CurFacts DEF Simulate, TypeOK, RecordsTyped, InFlight, Await
    <3> QED
      BY <3>1, <3>2
  <2>2. ChainTyped'
    BY <1>2 DEF Simulate, TypeOK, ChainTyped, ProcessTyped, chainVars, Visible, Mined
  <2>3. ProcessTyped'
    BY <1>2 DEF Simulate, TypeOK, ChainTyped, ProcessTyped, procVars, Idle, Await, Pc
  <2>4. desk' \in Status
    BY <1>2 DEF Simulate, TypeOK, Status
  <2> QED
    BY <2>1, <2>2, <2>3, <2>4 DEF TypeOK
<1>3. CASE ReadNonce
  <2>1. RecordsTyped'
    <3>1. CASE Caught(cur[1]) /\ lastNonce' = lastNonce
      BY <1>3, <3>1, CurFacts, CaughtTyped DEF ReadNonce, TypeOK, RecordsTyped
    <3>2. CASE ~(Caught(cur[1]) /\ lastNonce' = lastNonce)
      BY <1>3, <3>2, CurFacts, PendingCountType DEF ReadNonce, TypeOK, RecordsTyped, InFlight, Await
    <3> QED
      BY <3>1, <3>2
  <2>2. ChainTyped'
    BY <1>3 DEF ReadNonce, TypeOK, ChainTyped, ProcessTyped, chainVars, Visible, Mined
  <2>3. ProcessTyped'
    BY <1>3, PendingCountType DEF ReadNonce, TypeOK, ChainTyped, ProcessTyped, procVars, Idle, Await, Pc
  <2>4. desk' \in Status
    BY <1>3 DEF ReadNonce, TypeOK, Status
  <2> QED
    BY <2>1, <2>2, <2>3, <2>4 DEF TypeOK
<1>4. CASE Sign
  <2>1. RecordsTyped'
    BY <1>4 DEF Sign, TypeOK, RecordsTyped, ProcessTyped, recordVars, InFlight, Settled, Open, Code
  <2>2. ChainTyped'
    BY <1>4 DEF Sign, TypeOK, ChainTyped, ProcessTyped, chainVars, Visible, Mined
  <2>3. ProcessTyped'
    BY <1>4 DEF Sign, TypeOK, ChainTyped, ProcessTyped, procVars, Idle, Await, Pc
  <2>4. desk' \in Status
    BY <1>4 DEF Sign, TypeOK, Status
  <2> QED
    BY <2>1, <2>2, <2>3, <2>4 DEF TypeOK
<1>5. CASE SignFails
  <2>1. RecordsTyped'
    BY <1>5, CurFacts, CaughtTyped DEF SignFails, TypeOK, RecordsTyped
  <2>2. ChainTyped'
    BY <1>5 DEF SignFails, TypeOK, ChainTyped, ProcessTyped, chainVars, Visible, Mined
  <2>3. ProcessTyped'
    BY <1>5 DEF SignFails, TypeOK, ChainTyped, ProcessTyped, procVars, Idle, Await, Pc
  <2>4. desk' \in Status
    BY <1>5 DEF SignFails, SafeModed, TypeOK, Status
  <2> QED
    BY <2>1, <2>2, <2>3, <2>4 DEF TypeOK
<1>6. CASE Broadcast
  <2>1. RecordsTyped'
    <3>1. CASE UNCHANGED <<exec, code, att>>
      BY <1>6, <3>1 DEF Broadcast, TypeOK, RecordsTyped
    <3>2. CASE ~UNCHANGED <<exec, code, att>>
      BY <1>6, <3>2, CurFacts, FinalizeTyped DEF Broadcast, Code
    <3> QED
      BY <3>1, <3>2
  <2>2. ChainTyped'
    BY <1>6 DEF Broadcast, TypeOK, ChainTyped, ProcessTyped, chainVars, Visible, Mined
  <2>3. ProcessTyped'
    BY <1>6 DEF Broadcast, TypeOK, ChainTyped, ProcessTyped, procVars, Idle, Await, Pc
  <2>4. desk' \in Status
    BY <1>6 DEF Broadcast, TypeOK, Status
  <2> QED
    BY <2>1, <2>2, <2>3, <2>4 DEF TypeOK
<1>7. CASE SendAccepted
  <2>1. RecordsTyped'
    BY <1>7, CurFacts, MarkBroadcastTyped DEF SendAccepted
  <2>2. ChainTyped'
    BY <1>7 DEF SendAccepted, TypeOK, ChainTyped, ProcessTyped, chainVars, Visible, Mined
  <2>3. ProcessTyped'
    BY <1>7 DEF SendAccepted, TypeOK, ChainTyped, ProcessTyped, procVars, Idle, Await, Pc
  <2>4. desk' \in Status
    BY <1>7 DEF SendAccepted, TypeOK, Status
  <2> QED
    BY <2>1, <2>2, <2>3, <2>4 DEF TypeOK
<1>8. CASE FeeCapTooLow
  <2>1. RecordsTyped'
    <3>1. CASE Halted(cur[1])
      BY <1>8, <3>1, CurFacts, FinalizeTyped DEF FeeCapTooLow, Code
    <3>2. CASE ~Halted(cur[1])
      BY <1>8, <3>2 DEF FeeCapTooLow, TypeOK, RecordsTyped
    <3> QED
      BY <3>1, <3>2
  <2>2. ChainTyped'
    BY <1>8 DEF FeeCapTooLow, RefusedBytes, TypeOK, ChainTyped, ProcessTyped, chainVars, Visible, Mined
  <2>3. ProcessTyped'
    BY <1>8 DEF FeeCapTooLow, TypeOK, ChainTyped, ProcessTyped, procVars, Idle, Await, Pc
  <2>4. desk' \in Status
    BY <1>8 DEF FeeCapTooLow, TypeOK, Status
  <2> QED
    BY <2>1, <2>2, <2>3, <2>4 DEF TypeOK
<1>9. CASE NonceTooLow
  <2>1. RecordsTyped'
    BY <1>9 DEF NonceTooLow, TypeOK, RecordsTyped, ProcessTyped, recordVars, InFlight, Settled, Open, Code
  <2>2. ChainTyped'
    BY <1>9 DEF NonceTooLow, TypeOK, ChainTyped, ProcessTyped, chainVars, Visible, Mined
  <2>3. ProcessTyped'
    BY <1>9 DEF NonceTooLow, TypeOK, ChainTyped, ProcessTyped, procVars, Idle, Await, Pc
  <2>4. desk' \in Status
    BY <1>9 DEF NonceTooLow, TypeOK, Status
  <2> QED
    BY <2>1, <2>2, <2>3, <2>4 DEF TypeOK
<1>10. CASE SendUnknown
  <2>1. RecordsTyped'
    BY <1>10, CurFacts, FinalizeTyped DEF SendUnknown, Code
  <2>2. ChainTyped'
    BY <1>10 DEF SendUnknown, AnswerLost, TypeOK, ChainTyped, ProcessTyped, chainVars, Visible, Mined
  <2>3. ProcessTyped'
    BY <1>10 DEF SendUnknown, TypeOK, ChainTyped, ProcessTyped, procVars, Idle, Await, Pc
  <2>4. desk' \in Status
    BY <1>10 DEF SendUnknown, TypeOK, Status
  <2> QED
    BY <2>1, <2>2, <2>3, <2>4 DEF TypeOK
<1>11. CASE SendRefused
  <2>1. RecordsTyped'
    BY <1>11, CurFacts, FinalizeTyped DEF SendRefused, Code
  <2>2. ChainTyped'
    BY <1>11 DEF SendRefused, RefusedBytes, TypeOK, ChainTyped, ProcessTyped, chainVars, Visible, Mined
  <2>3. ProcessTyped'
    BY <1>11 DEF SendRefused, TypeOK, ChainTyped, ProcessTyped, procVars, Idle, Await, Pc
  <2>4. desk' \in Status
    BY <1>11 DEF SendRefused, SafeModed, TypeOK, Status
  <2> QED
    BY <2>1, <2>2, <2>3, <2>4 DEF TypeOK
<1>12. CASE Lookup
  <2>1. RecordsTyped'
    <3>1. CASE net[cur] \in Visible
      BY <1>12, <3>1, CurFacts, MarkBroadcastTyped DEF Lookup
    <3>2. CASE net[cur] \notin Visible
      BY <1>12, <3>2, CurFacts, FinalizeTyped DEF Lookup, Code
    <3> QED
      BY <3>1, <3>2
  <2>2. ChainTyped'
    BY <1>12 DEF Lookup, TypeOK, ChainTyped, ProcessTyped, chainVars, Visible, Mined
  <2>3. ProcessTyped'
    BY <1>12 DEF Lookup, TypeOK, ChainTyped, ProcessTyped, procVars, Idle, Await, Pc
  <2>4. desk' \in Status
    BY <1>12 DEF Lookup, SafeModed, TypeOK, Status
  <2> QED
    BY <2>1, <2>2, <2>3, <2>4 DEF TypeOK
<1>13. CASE LookupFails
  <2>1. RecordsTyped'
    BY <1>13, CurFacts, CaughtTyped DEF LookupFails, TypeOK, RecordsTyped
  <2>2. ChainTyped'
    BY <1>13 DEF LookupFails, TypeOK, ChainTyped, ProcessTyped, chainVars, Visible, Mined
  <2>3. ProcessTyped'
    BY <1>13 DEF LookupFails, TypeOK, ChainTyped, ProcessTyped, procVars, Idle, Await, Pc
  <2>4. desk' \in Status
    BY <1>13 DEF LookupFails, TypeOK, Status
  <2> QED
    BY <2>1, <2>2, <2>3, <2>4 DEF TypeOK
<1>14. CASE Receipt
  <2>1. RecordsTyped'
    BY <1>14, CurFacts, RecordReceiptTyped DEF Receipt
  <2>2. ChainTyped'
    BY <1>14 DEF Receipt, TypeOK, ChainTyped, ProcessTyped, chainVars, Visible, Mined
  <2>3. ProcessTyped'
    BY <1>14 DEF Receipt, TypeOK, ChainTyped, ProcessTyped, procVars, Idle, Await, Pc
  <2>4. desk' \in Status
    BY <1>14 DEF Receipt, TypeOK, Status
  <2> QED
    BY <2>1, <2>2, <2>3, <2>4 DEF TypeOK
<1>15. CASE ReceiptTimeout
  <2>1. RecordsTyped'
    BY <1>15, CurFacts, FinalizeTyped DEF ReceiptTimeout, Code
  <2>2. ChainTyped'
    BY <1>15 DEF ReceiptTimeout, TypeOK, ChainTyped, ProcessTyped, chainVars, Visible, Mined
  <2>3. ProcessTyped'
    BY <1>15 DEF ReceiptTimeout, TypeOK, ChainTyped, ProcessTyped, procVars, Idle, Await, Pc
  <2>4. desk' \in Status
    BY <1>15 DEF ReceiptTimeout, TypeOK, Status
  <2> QED
    BY <2>1, <2>2, <2>3, <2>4 DEF TypeOK
<1>16. ASSUME NEW a \in Attempt, Resolve(a) PROVE TypeOK'
  <2>1. RecordsTyped'
    BY <1>16 DEF Resolve, TypeOK, RecordsTyped, ProcessTyped, recordVars, InFlight, Settled, Open, Code
  <2>2. ChainTyped'
    BY <1>16 DEF Resolve, TypeOK, ChainTyped, ProcessTyped, chainVars, Visible, Mined
  <2>3. ProcessTyped'
    BY <1>16 DEF Resolve, TypeOK, ChainTyped, ProcessTyped, procVars, Idle, Await, Pc
  <2>4. desk' \in Status
    BY <1>16 DEF Resolve, TypeOK, Status
  <2> QED
    BY <2>1, <2>2, <2>3, <2>4 DEF TypeOK
<1>17. CASE ReadReceipt
  <2>1. RecordsTyped'
    <3>1. CASE net[cur] \in Mined
      BY <1>17, <3>1, CurFacts, RecordReceiptTyped DEF ReadReceipt
    <3>2. CASE net[cur] \notin Mined
      BY <1>17, <3>2 DEF ReadReceipt, TypeOK, RecordsTyped
    <3> QED
      BY <3>1, <3>2
  <2>2. ChainTyped'
    BY <1>17 DEF ReadReceipt, TypeOK, ChainTyped, ProcessTyped, chainVars, Visible, Mined
  <2>3. ProcessTyped'
    BY <1>17 DEF ReadReceipt, TypeOK, ChainTyped, ProcessTyped, procVars, Idle, Await, Pc
  <2>4. desk' \in Status
    BY <1>17 DEF ReadReceipt, TypeOK, Status
  <2> QED
    BY <2>1, <2>2, <2>3, <2>4 DEF TypeOK
<1>18. CASE ReadPool
  <2>1. RecordsTyped'
    BY <1>18 DEF ReadPool, TypeOK, RecordsTyped, ProcessTyped, recordVars, InFlight, Settled, Open, Code
  <2>2. ChainTyped'
    BY <1>18 DEF ReadPool, TypeOK, ChainTyped, ProcessTyped, chainVars, Visible, Mined
  <2>3. ProcessTyped'
    BY <1>18 DEF ReadPool, TypeOK, ChainTyped, ProcessTyped, procVars, Idle, Await, Pc
  <2>4. desk' \in Status
    BY <1>18 DEF ReadPool, TypeOK, Status
  <2> QED
    BY <2>1, <2>2, <2>3, <2>4 DEF TypeOK
<1>19. CASE NonceUsed
  <2>1. RecordsTyped'
    BY <1>19, CurFacts, RecordReceiptTyped, DropTyped DEF NonceUsed, Code
  <2>2. ChainTyped'
    BY <1>19 DEF NonceUsed, TypeOK, ChainTyped, ProcessTyped, chainVars, Visible, Mined
  <2>3. ProcessTyped'
    BY <1>19 DEF NonceUsed, TypeOK, ChainTyped, ProcessTyped, procVars, Idle, Await, Pc
  <2>4. desk' \in Status
    BY <1>19 DEF NonceUsed, SafeModed, TypeOK, Status
  <2> QED
    BY <2>1, <2>2, <2>3, <2>4 DEF TypeOK
<1>20. CASE DeadlinePassed
  <2>1. RecordsTyped'
    BY <1>20, CurFacts, DropTyped DEF DeadlinePassed, Code
  <2>2. ChainTyped'
    BY <1>20 DEF DeadlinePassed, TypeOK, ChainTyped, ProcessTyped, chainVars, Visible, Mined
  <2>3. ProcessTyped'
    BY <1>20 DEF DeadlinePassed, TypeOK, ChainTyped, ProcessTyped, procVars, Idle, Await, Pc
  <2>4. desk' \in Status
    BY <1>20 DEF DeadlinePassed, TypeOK, Status
  <2> QED
    BY <2>1, <2>2, <2>3, <2>4 DEF TypeOK
<1>21. CASE Rebroadcast
  <2>1. RecordsTyped'
    BY <1>21 DEF Rebroadcast, TypeOK, RecordsTyped, ProcessTyped, recordVars, InFlight, Settled, Open, Code
  <2>2. ChainTyped'
    BY <1>21 DEF Rebroadcast, TypeOK, ChainTyped, ProcessTyped, chainVars, Visible, Mined
  <2>3. ProcessTyped'
    BY <1>21 DEF Rebroadcast, TypeOK, ChainTyped, ProcessTyped, procVars, Idle, Await, Pc
  <2>4. desk' \in Status
    BY <1>21 DEF Rebroadcast, TypeOK, Status
  <2> QED
    BY <2>1, <2>2, <2>3, <2>4 DEF TypeOK
<1>22. CASE ResendAccepted
  <2>1. RecordsTyped'
    BY <1>22, CurFacts, MarkBroadcastTyped DEF ResendAccepted
  <2>2. ChainTyped'
    BY <1>22 DEF ResendAccepted, TypeOK, ChainTyped, ProcessTyped, chainVars, Visible, Mined
  <2>3. ProcessTyped'
    BY <1>22 DEF ResendAccepted, TypeOK, ChainTyped, ProcessTyped, procVars, Idle, Await, Pc
  <2>4. desk' \in Status
    BY <1>22 DEF ResendAccepted, TypeOK, Status
  <2> QED
    BY <2>1, <2>2, <2>3, <2>4 DEF TypeOK
<1>23. CASE ResendFails
  <2>1. RecordsTyped'
    BY <1>23 DEF ResendFails, TypeOK, RecordsTyped, ProcessTyped, recordVars, InFlight, Settled, Open, Code
  <2>2. ChainTyped'
    BY <1>23 DEF ResendFails, AnswerLost, TypeOK, ChainTyped, ProcessTyped, chainVars, Visible, Mined
  <2>3. ProcessTyped'
    BY <1>23 DEF ResendFails, TypeOK, ChainTyped, ProcessTyped, procVars, Idle, Await, Pc
  <2>4. desk' \in Status
    BY <1>23 DEF ResendFails, TypeOK, Status
  <2> QED
    BY <2>1, <2>2, <2>3, <2>4 DEF TypeOK
<1>24. CASE ResolveFails
  <2>1. RecordsTyped'
    BY <1>24 DEF ResolveFails, TypeOK, RecordsTyped, ProcessTyped, recordVars, InFlight, Settled, Open, Code
  <2>2. ChainTyped'
    BY <1>24 DEF ResolveFails, TypeOK, ChainTyped, ProcessTyped, chainVars, Visible, Mined
  <2>3. ProcessTyped'
    BY <1>24 DEF ResolveFails, TypeOK, ChainTyped, ProcessTyped, procVars, Idle, Await, Pc
  <2>4. desk' \in Status
    BY <1>24 DEF ResolveFails, TypeOK, Status
  <2> QED
    BY <2>1, <2>2, <2>3, <2>4 DEF TypeOK
<1>25. ASSUME NEW a \in Attempt, LaneEvent(a) PROVE TypeOK'
  <2>1. RecordsTyped'
    BY <1>25 DEF LaneEvent, TypeOK, RecordsTyped, ProcessTyped, recordVars, InFlight, Settled, Open, Code
  <2>2. ChainTyped'
    BY <1>25 DEF LaneEvent, TypeOK, ChainTyped, ProcessTyped, chainVars, Visible, Mined
  <2>3. ProcessTyped'
    BY <1>25 DEF LaneEvent, TypeOK, ChainTyped, ProcessTyped, procVars, Idle, Await, Pc
  <2>4. desk' \in Status
    BY <1>25 DEF LaneEvent, TypeOK, Status
  <2> QED
    BY <2>1, <2>2, <2>3, <2>4 DEF TypeOK
<1>26. CASE DeskChange
  <2>1. RecordsTyped'
    BY <1>26 DEF DeskChange, TypeOK, RecordsTyped, ProcessTyped, recordVars, InFlight, Settled, Open, Code
  <2>2. ChainTyped'
    BY <1>26 DEF DeskChange, TypeOK, ChainTyped, ProcessTyped, chainVars, Visible, Mined
  <2>3. ProcessTyped'
    BY <1>26 DEF DeskChange, TypeOK, ChainTyped, ProcessTyped, procVars, Idle, Await, Pc
  <2>4. desk' \in Status
    BY <1>26 DEF DeskChange, TypeOK, Status
  <2> QED
    BY <2>1, <2>2, <2>3, <2>4 DEF TypeOK
<1>27. CASE Crash
  <2>1. RecordsTyped'
    BY <1>27 DEF Crash, TypeOK, RecordsTyped, ProcessTyped, recordVars, InFlight, Settled, Open, Code
  <2>2. ChainTyped'
    BY <1>27 DEF Crash, TypeOK, ChainTyped, ProcessTyped, chainVars, Visible, Mined
  <2>3. ProcessTyped'
    BY <1>27 DEF Crash, TypeOK, ChainTyped, ProcessTyped, procVars, Idle, Await, Pc
  <2>4. desk' \in Status
    BY <1>27 DEF Crash, TypeOK, Status
  <2> QED
    BY <2>1, <2>2, <2>3, <2>4 DEF TypeOK
<1>28. CASE Restart
  <2>1. RecordsTyped'
    BY <1>28 DEF Restart, TypeOK, RecordsTyped, ProcessTyped, recordVars, InFlight, Settled, Open, Code
  <2>2. ChainTyped'
    BY <1>28 DEF Restart, TypeOK, ChainTyped, ProcessTyped, chainVars, Visible, Mined
  <2>3. ProcessTyped'
    BY <1>28 DEF Restart, TypeOK, ChainTyped, ProcessTyped, procVars, Idle, Await, Pc
  <2>4. desk' \in Status
    BY <1>28 DEF Restart, TypeOK, Status
  <2> QED
    BY <2>1, <2>2, <2>3, <2>4 DEF TypeOK
<1>29. ASSUME NEW a \in Attempt, Mine(a) PROVE TypeOK'
  <2>1. RecordsTyped'
    BY <1>29 DEF Mine, TypeOK, RecordsTyped, ProcessTyped, recordVars, InFlight, Settled, Open, Code
  <2>2. ChainTyped'
    BY <1>29 DEF Mine, TypeOK, ChainTyped, ProcessTyped, chainVars, Visible, Mined
  <2>3. ProcessTyped'
    BY <1>29 DEF Mine, TypeOK, ChainTyped, ProcessTyped, procVars, Idle, Await, Pc
  <2>4. desk' \in Status
    BY <1>29 DEF Mine, TypeOK, Status
  <2> QED
    BY <2>1, <2>2, <2>3, <2>4 DEF TypeOK
<1>30. ASSUME NEW a \in Attempt, Evict(a) PROVE TypeOK'
  <2>1. RecordsTyped'
    BY <1>30 DEF Evict, TypeOK, RecordsTyped, ProcessTyped, recordVars, InFlight, Settled, Open, Code
  <2>2. ChainTyped'
    BY <1>30 DEF Evict, TypeOK, ChainTyped, ProcessTyped, chainVars, Visible, Mined
  <2>3. ProcessTyped'
    BY <1>30 DEF Evict, TypeOK, ChainTyped, ProcessTyped, procVars, Idle, Await, Pc
  <2>4. desk' \in Status
    BY <1>30 DEF Evict, TypeOK, Status
  <2> QED
    BY <2>1, <2>2, <2>3, <2>4 DEF TypeOK
<1>31. CASE ForeignUse
  <2>1. RecordsTyped'
    BY <1>31 DEF ForeignUse, TypeOK, RecordsTyped, ProcessTyped, recordVars, InFlight, Settled, Open, Code
  <2>2. ChainTyped'
    BY <1>31 DEF ForeignUse, TypeOK, ChainTyped, ProcessTyped, chainVars, Visible, Mined
  <2>3. ProcessTyped'
    BY <1>31 DEF ForeignUse, TypeOK, ChainTyped, ProcessTyped, procVars, Idle, Await, Pc
  <2>4. desk' \in Status
    BY <1>31 DEF ForeignUse, TypeOK, Status
  <2> QED
    BY <2>1, <2>2, <2>3, <2>4 DEF TypeOK
<1>32. CASE Tick
  <2>1. RecordsTyped'
    BY <1>32 DEF Tick, TypeOK, RecordsTyped, ProcessTyped, recordVars, InFlight, Settled, Open, Code
  <2>2. ChainTyped'
    BY <1>32 DEF Tick, TypeOK, ChainTyped, ProcessTyped, chainVars, Visible, Mined
  <2>3. ProcessTyped'
    BY <1>32 DEF Tick, TypeOK, ChainTyped, ProcessTyped, procVars, Idle, Await, Pc
  <2>4. desk' \in Status
    BY <1>32 DEF Tick, TypeOK, Status
  <2> QED
    BY <2>1, <2>2, <2>3, <2>4 DEF TypeOK
<1>33. CASE UNCHANGED vars
  <2>1. RecordsTyped'
    BY <1>33 DEF vars, TypeOK, RecordsTyped, ProcessTyped, recordVars, InFlight, Settled, Open, Code
  <2>2. ChainTyped'
    BY <1>33 DEF vars, TypeOK, ChainTyped, ProcessTyped, chainVars, Visible, Mined
  <2>3. ProcessTyped'
    BY <1>33 DEF vars, TypeOK, ChainTyped, ProcessTyped, procVars, Idle, Await, Pc
  <2>4. desk' \in Status
    BY <1>33 DEF vars, TypeOK, Status
  <2> QED
    BY <2>1, <2>2, <2>3, <2>4 DEF TypeOK
<1> QED
  BY <1>1, <1>2, <1>3, <1>4, <1>5, <1>6, <1>7, <1>8, <1>9, <1>10, <1>11, <1>12, <1>13, <1>14, <1>15, <1>16, <1>17, <1>18, <1>19, <1>20, <1>21, <1>22, <1>23, <1>24, <1>25, <1>26, <1>27, <1>28, <1>29, <1>30, <1>31, <1>32, <1>33 DEF Next, Executor, Resolver, Beside, Chain

\* Every record, every await and the chain keep their types, whatever crashes or gets lost.
THEOREM TypeCorrect == Spec => []TypeOK
BY InitType, NextType, PTL DEF Spec

-----------------------------------------------------------------------------
(* The inductive invariant, in named parts.                                *)

ExecPhase == {"simulate", "nonce", "sign", "gate", "sending", "lookup", "receipt"}
HeldPhase == {"gate", "sending", "lookup", "receipt", "readReceipt", "readPool", "readCount",
              "resending"}

\* While the executor works on a step, no other execution is in flight: what it
\* writes when it comes back from an await cannot meet a newer execution.
FlightInv ==
  /\ SingleInFlight
  /\ pc \in ExecPhase => \A d \in Decision : d # cur[1] => exec[d] \notin InFlight

\* Every attempt of an execution carries one nonce, and its bytes are recorded
\* before they can be on the network.
NonceInv ==
  /\ \A a \in Attempt : net[a] # "none" => att[a] # "none"
  /\ \A a \in Attempt : net[a] \in Mined => nonceOf[a] < chainNonce
  /\ \A a, b \in Attempt :
       a[1] = b[1] /\ att[a] # "none" /\ att[b] # "none" => nonceOf[a] = nonceOf[b]
  /\ \A a \in Attempt : exec[a[1]] = "none" => att[a] = "none"
  /\ pc \in {"simulate", "nonce"} => \A a \in Attempt : a[1] = cur[1] => att[a] = "none"
  /\ pc = "sign" => \A a \in Attempt : a[1] = cur[1] =>
       /\ att[a] # "none" => nonceOf[a] = txNonce
       /\ a[2] >= cur[2] => att[a] = "none"
  /\ pc \in {"gate", "sending"} =>
       /\ nonceOf[cur] = txNonce
       /\ \A a \in Attempt : a[1] = cur[1] /\ a[2] > cur[2] => att[a] = "none"
  /\ pc \in HeldPhase => att[cur] # "none"
  /\ pc = "gate" => net[cur] = "none"

\* While an attempt is being signed, sent or resolved, no other attempt of the
\* same execution is open.
LiveInv ==
  /\ OneLiveAttempt
  /\ pc = "sign" => \A a \in Attempt : a[1] = cur[1] => att[a] \notin Open
  /\ pc \in HeldPhase => \A a \in Attempt : a[1] = cur[1] /\ att[a] \in Open => a = cur

\* What the execution row says is backed by the attempts and by the chain.
RecordInv ==
  /\ \A a \in Attempt : att[a] # "none" => signed[a[1]]
  /\ \A d \in Decision : signed[d] => exec[d] \notin {"none", "prepared", "simulated", "failed"}
  /\ pc \in {"simulate", "nonce"} => ~signed[cur[1]]
  /\ \A d \in Decision :
       /\ exec[d] = "confirmed" => \E a \in Attempt : a[1] = d /\ net[a] = "ok"
       /\ exec[d] = "reverted" => \E a \in Attempt : a[1] = d /\ net[a] = "reverted"

\* The resolver's deadline drop: decided at or after the deadline, with nothing mined.
DroppedAtDeadline(d) ==
  /\ now >= deadline[d]
  /\ \A a \in Attempt : a[1] = d /\ net[a] = "ok" => minedAt[a] = deadline[d]

\* The executor's deadline drop: these bytes never left, nothing is left to send, and
\* what the network holds are copies of the bytes refused for their fee before.
DroppedUnsent(d) ==
  /\ \E b \in Attempt : b[1] = d /\ att[b] = "dropped" /\ net[b] = "none"
  /\ \A a \in Attempt : a[1] = d =>
       /\ att[a] \notin Open
       /\ net[a] # "none" => Resend /\ att[a] \in {"replaced", "confirmed"}
  /\ pc \notin {"idle", "down"} => cur[1] # d

\* While a step is re-signed, its earlier bytes are retired, and only a transport
\* that sends twice still has copies of them.
RetiredInv ==
  pc \in {"sign", "gate", "sending"} => \A a \in Attempt : a[1] = cur[1] /\ a[2] < cur[2] =>
    /\ att[a] \in {"none", "replaced", "confirmed"}
    /\ net[a] # "none" => Resend

\* Every deadline drop is one of the two.
DeadlineInv ==
  /\ pc \in {"readReceipt", "readPool", "readCount"} => asOf <= now
  /\ \A d \in Decision : exec[d] = "dropped" /\ code[d] = "DEADLINE_PASSED" =>
       DroppedAtDeadline(d) \/ DroppedUnsent(d)

IInv == TypeOK /\ FlightInv /\ NonceInv /\ AtMostOneLanding /\ LiveInv /\ RecordInv /\ RetiredInv /\ DeadlineInv

\* The shared record keeping never erases an attempt or an execution row.
LEMMA FinalizeKeeps ==
  ASSUME TypeOK, NEW a \in Attempt, NEW to \in {"unknown", "dropped"}, NEW c,
         Finalize(a, to, c), att[a] # "none"
  PROVE  /\ \A b \in Attempt : att'[b] = "none" <=> att[b] = "none"
         /\ \A d \in Decision : exec'[d] = "none" => exec[d] = "none"
BY AttemptFacts DEF Finalize, TypeOK, RecordsTyped

\* Nor does a receipt,
LEMMA ReceiptKeeps ==
  ASSUME TypeOK, NEW a \in Attempt, RecordReceipt(a), att[a] # "none"
  PROVE  /\ \A b \in Attempt : att'[b] = "none" <=> att[b] = "none"
         /\ \A d \in Decision : exec'[d] = "none" => exec[d] = "none"
BY AttemptFacts DEF RecordReceipt, Open, TypeOK, RecordsTyped

\* nor a drop.
LEMMA DropKeeps ==
  ASSUME TypeOK, NEW a \in Attempt, NEW c, Drop(a, c), att[a] # "none"
  PROVE  /\ \A b \in Attempt : att'[b] = "none" <=> att[b] = "none"
         /\ \A d \in Decision : exec'[d] = "none" => exec[d] = "none"
BY AttemptFacts DEF Drop, TypeOK, RecordsTyped

\* No action puts a second execution in flight.
LEMMA FlightInvStep == IInv /\ [Next]_vars => FlightInv'
<1> SUFFICES ASSUME IInv, [Next]_vars PROVE FlightInv'
  OBVIOUS
<1> USE AttemptFacts, CurFacts DEF IInv, FlightInv, SingleInFlight, ExecPhase, InFlight, Settled, TypeOK, RecordsTyped, recordVars, chainVars, procVars
<1>1. ASSUME NEW d \in Decision, Prepare(d) PROVE FlightInv'
  BY <1>1 DEF Prepare
<1>2. CASE Simulate
  BY <1>2, SMTT(30) DEF Simulate, Halted, Caught, Await, Idle
<1>3. CASE ReadNonce
  BY <1>3, SMTT(30) DEF ReadNonce, Caught, Await, Idle
<1>4. CASE Sign
  BY <1>4, SMTT(30) DEF Sign, Await
<1>5. CASE SignFails
  BY <1>5, SMTT(30) DEF SignFails, Caught, Idle
<1>6. CASE Broadcast
  BY <1>6, SMTT(30) DEF Broadcast, Halted, Finalize, Await, Idle
<1>7. CASE SendAccepted
  BY <1>7, SMTT(30) DEF SendAccepted, MarkBroadcast, Await
<1>8. CASE FeeCapTooLow
  BY <1>8, SMTT(30) DEF FeeCapTooLow, RefusedBytes, Finalize, Idle
<1>9. CASE NonceTooLow
  BY <1>9 DEF NonceTooLow, Await
<1>10. CASE SendUnknown
  BY <1>10, SMTT(60) DEF SendUnknown, AnswerLost, Finalize, Idle
<1>11. CASE SendRefused
  BY <1>11, SMTT(30) DEF SendRefused, RefusedBytes, Finalize, Idle
<1>12. CASE Lookup
  <2>1. CASE net[cur] \in Visible
    <3>1. MarkBroadcast(cur) /\ pc = "lookup" /\ pc' = "receipt" /\ cur' = cur
      BY <1>12, <2>1 DEF Lookup, Await
    <3>2. \A d \in Decision : exec'[d] \in InFlight => exec[d] \in InFlight
      BY <3>1 DEF MarkBroadcast
    <3> QED
      BY <3>1, <3>2
  <2>2. CASE net[cur] \notin Visible
    BY <1>12, <2>2, SMTT(30) DEF Lookup, Finalize, Idle
  <2> QED
    BY <2>1, <2>2
<1>13. CASE LookupFails
  BY <1>13, SMTT(30) DEF LookupFails, Caught, Idle
<1>14. CASE Receipt
  BY <1>14, SMTT(30) DEF Receipt, RecordReceipt, Idle
<1>15. CASE ReceiptTimeout
  BY <1>15, SMTT(30) DEF ReceiptTimeout, Finalize
<1>16. ASSUME NEW a \in Attempt, Resolve(a) PROVE FlightInv'
  BY <1>16 DEF Resolve
<1>17. CASE ReadReceipt
  BY <1>17, SMTT(30) DEF ReadReceipt, RecordReceipt, Await, Idle
<1>18. CASE ReadPool
  BY <1>18 DEF ReadPool, Await, Idle
<1>19. CASE NonceUsed
  BY <1>19, SMTT(30) DEF NonceUsed, RecordReceipt, Drop, Idle
<1>20. CASE DeadlinePassed
  BY <1>20, SMTT(30) DEF DeadlinePassed, Drop, Idle
<1>21. CASE Rebroadcast
  BY <1>21, SMTT(30) DEF Rebroadcast, Await, Idle
<1>22. CASE ResendAccepted
  BY <1>22, SMTT(30) DEF ResendAccepted, MarkBroadcast, Idle
<1>23. CASE ResendFails
  BY <1>23 DEF ResendFails, AnswerLost, Idle
<1>24. CASE ResolveFails
  BY <1>24 DEF ResolveFails, Idle
<1>25. ASSUME NEW a \in Attempt, LaneEvent(a) PROVE FlightInv'
  BY <1>25 DEF LaneEvent
<1>26. CASE DeskChange
  BY <1>26 DEF DeskChange
<1>27. CASE Crash
  BY <1>27 DEF Crash
<1>28. CASE Restart
  BY <1>28 DEF Restart, Idle
<1>29. ASSUME NEW a \in Attempt, Mine(a) PROVE FlightInv'
  BY <1>29, SMTT(30) DEF Mine
<1>30. ASSUME NEW a \in Attempt, Evict(a) PROVE FlightInv'
  BY <1>30 DEF Evict
<1>31. CASE ForeignUse
  BY <1>31 DEF ForeignUse
<1>32. CASE Tick
  BY <1>32 DEF Tick
<1>33. CASE UNCHANGED vars
  BY <1>33 DEF vars
<1> QED
  BY <1>1, <1>2, <1>3, <1>4, <1>5, <1>6, <1>7, <1>8, <1>9, <1>10, <1>11, <1>12, <1>13, <1>14, <1>15, <1>16, <1>17, <1>18, <1>19, <1>20, <1>21, <1>22, <1>23, <1>24, <1>25, <1>26, <1>27, <1>28, <1>29, <1>30, <1>31, <1>32, <1>33 DEF Next, Executor, Resolver, Beside, Chain

\* No action gives an execution a second nonce, or sends bytes nobody recorded.
LEMMA NonceInvStep == IInv /\ [Next]_vars => NonceInv'
<1> SUFFICES ASSUME IInv, [Next]_vars PROVE NonceInv'
  OBVIOUS
<1> USE AttemptFacts, CurFacts DEF IInv, NonceInv, HeldPhase, Visible, Mined, Open, Signable, TypeOK, RecordsTyped, ChainTyped, recordVars, chainVars, procVars
<1>1. ASSUME NEW d \in Decision, Prepare(d) PROVE NonceInv'
  BY <1>1 DEF Prepare
<1>2. CASE Simulate
  BY <1>2, SMTT(30) DEF Simulate, Halted, Caught, Await, Idle
<1>3. CASE ReadNonce
  BY <1>3, SMTT(30) DEF ReadNonce, Caught, Await, Idle
<1>4. CASE Sign
  BY <1>4, SMTT(30) DEF Sign, Await
<1>5. CASE SignFails
  BY <1>5, SMTT(30) DEF SignFails, Caught, Idle
<1>6. CASE Broadcast
  <2>1. CASE pc' = "sending"
    BY <1>6, <2>1 DEF Broadcast, Await, Idle
  <2>2. CASE pc' # "sending"
    <3>1. PICK c \in Code : Finalize(cur, "dropped", c) /\ Idle /\ net' = net
      BY <1>6, <2>2 DEF Broadcast, Await, Code
    <3> QED
      BY <1>6, <3>1, FinalizeKeeps DEF Broadcast, Idle
  <2> QED
    BY <2>1, <2>2
<1>7. CASE SendAccepted
  BY <1>7, SMTT(30) DEF SendAccepted, MarkBroadcast, Await
<1>8. CASE FeeCapTooLow
  <2>1. \A a \in Attempt : net'[a] = net[a] \/ (net[a] = "transit" /\ net'[a] = "none")
    BY <1>8 DEF FeeCapTooLow, RefusedBytes
  <2>2. CASE Halted(cur[1])
    <3>1. Finalize(cur, "dropped", "DESK_HALTED") /\ Idle
      BY <1>8, <2>2 DEF FeeCapTooLow
    <3> QED
      BY <1>8, <2>1, <3>1, FinalizeKeeps DEF FeeCapTooLow, Idle
  <2>3. CASE ~Halted(cur[1])
    <3>1. /\ att' = [att EXCEPT ![cur] = "replaced"]
          /\ cur' = <<cur[1], cur[2] + 1>> /\ pc' = "sign"
          /\ cur' \in Attempt /\ cur'[1] = cur[1] /\ cur'[2] = cur[2] + 1
      BY <1>8, <2>3, ExecutorAssumption DEF FeeCapTooLow
    <3>2. \A a \in Attempt : att'[a] = "none" <=> att[a] = "none"
      BY <1>8, <3>1 DEF FeeCapTooLow
    <3>3. \A a \in Attempt : a[1] = cur[1] =>
            /\ att[a] # "none" => nonceOf[a] = txNonce
            /\ a[2] >= cur[2] + 1 => att[a] = "none"
      BY <1>8 DEF FeeCapTooLow
    <3>4. /\ UNCHANGED <<nonceOf, chainNonce, txNonce>>
          /\ \A d \in Decision : exec'[d] = "none" => exec[d] = "none"
      BY <1>8, <2>3 DEF FeeCapTooLow
    <3>5. /\ \A a \in Attempt : net'[a] # "none" => att'[a] # "none"
          /\ \A a \in Attempt : net'[a] \in Mined => nonceOf'[a] < chainNonce'
      BY <2>1, <3>2, <3>4
    <3>6. pc' = "sign" => \A a \in Attempt : a[1] = cur'[1] =>
            /\ att'[a] # "none" => nonceOf'[a] = txNonce'
            /\ a[2] >= cur'[2] => att'[a] = "none"
      BY <3>1, <3>2, <3>3, <3>4
    <3> QED
      BY <3>1, <3>2, <3>4, <3>5, <3>6
  <2> QED
    BY <2>2, <2>3
<1>9. CASE NonceTooLow
  BY <1>9 DEF NonceTooLow, Await
<1>10. CASE SendUnknown
  <2>1. Finalize(cur, "unknown", "UNKNOWN") /\ Idle
    BY <1>10 DEF SendUnknown
  <2> QED
    BY <1>10, <2>1, FinalizeKeeps DEF SendUnknown, AnswerLost, Idle
<1>11. CASE SendRefused
  BY <1>11, SMTT(30) DEF SendRefused, RefusedBytes, Finalize, Idle
<1>12. CASE Lookup
  <2>1. CASE net[cur] \in Visible
    <3>1. /\ pc = "lookup" /\ cur \in Attempt /\ pc' = "receipt"
          /\ UNCHANGED <<cur, txNonce, nonceOf, net, chainNonce>>
      BY <1>12, <2>1 DEF Lookup, Await
    <3>2. /\ \A a \in Attempt : att'[a] = "none" <=> att[a] = "none"
          /\ \A d \in Decision : exec'[d] = "none" <=> exec[d] = "none"
      BY <1>12, <2>1 DEF Lookup, MarkBroadcast
    <3> QED
      BY <3>1, <3>2
  <2>2. CASE net[cur] \notin Visible
    <3>1. Finalize(cur, "dropped", "NONCE_CONFLICT") /\ Idle
      BY <1>12, <2>2 DEF Lookup
    <3> QED
      BY <1>12, <3>1, FinalizeKeeps DEF Lookup, Idle
  <2> QED
    BY <2>1, <2>2
<1>13. CASE LookupFails
  BY <1>13, SMTT(30) DEF LookupFails, Caught, Idle
<1>14. CASE Receipt
  BY <1>14, SMTT(30) DEF Receipt, RecordReceipt, Idle
<1>15. CASE ReceiptTimeout
  BY <1>15, SMTT(30) DEF ReceiptTimeout, Finalize
<1>16. ASSUME NEW a \in Attempt, Resolve(a) PROVE NonceInv'
  BY <1>16 DEF Resolve
<1>17. CASE ReadReceipt
  <2>1. CASE net[cur] \in Mined
    BY <1>17, <2>1, ReceiptKeeps DEF ReadReceipt, Idle
  <2>2. CASE net[cur] \notin Mined
    BY <1>17, <2>2 DEF ReadReceipt, Await
  <2> QED
    BY <2>1, <2>2
<1>18. CASE ReadPool
  BY <1>18 DEF ReadPool, Await, Idle
<1>19. CASE NonceUsed
  <2>1. PICK b \in Attempt : att[b] # "none" /\ (RecordReceipt(b) \/ Drop(b, "NONCE_CONFLICT"))
    BY <1>19 DEF NonceUsed
  <2>2. \A a \in Attempt : att'[a] = "none" <=> att[a] = "none"
    BY <2>1, ReceiptKeeps, DropKeeps
  <2>3. \A d \in Decision : exec'[d] = "none" => exec[d] = "none"
    BY <2>1, ReceiptKeeps, DropKeeps
  <2> QED
    BY <1>19, <2>2, <2>3 DEF NonceUsed, Idle
<1>20. CASE DeadlinePassed
  BY <1>20, SMTT(30) DEF DeadlinePassed, Drop, Idle
<1>21. CASE Rebroadcast
  BY <1>21, SMTT(30) DEF Rebroadcast, Await, Idle
<1>22. CASE ResendAccepted
  BY <1>22, SMTT(30) DEF ResendAccepted, MarkBroadcast, Idle
<1>23. CASE ResendFails
  BY <1>23 DEF ResendFails, AnswerLost, Idle
<1>24. CASE ResolveFails
  BY <1>24 DEF ResolveFails, Idle
<1>25. ASSUME NEW a \in Attempt, LaneEvent(a) PROVE NonceInv'
  BY <1>25 DEF LaneEvent
<1>26. CASE DeskChange
  BY <1>26 DEF DeskChange
<1>27. CASE Crash
  BY <1>27 DEF Crash
<1>28. CASE Restart
  BY <1>28 DEF Restart, Idle
<1>29. ASSUME NEW a \in Attempt, Mine(a) PROVE NonceInv'
  BY <1>29, SMTT(30) DEF Mine
<1>30. ASSUME NEW a \in Attempt, Evict(a) PROVE NonceInv'
  BY <1>30 DEF Evict
<1>31. CASE ForeignUse
  BY <1>31 DEF ForeignUse
<1>32. CASE Tick
  BY <1>32 DEF Tick
<1>33. CASE UNCHANGED vars
  BY <1>33 DEF vars
<1> QED
  BY <1>1, <1>2, <1>3, <1>4, <1>5, <1>6, <1>7, <1>8, <1>9, <1>10, <1>11, <1>12, <1>13, <1>14, <1>15, <1>16, <1>17, <1>18, <1>19, <1>20, <1>21, <1>22, <1>23, <1>24, <1>25, <1>26, <1>27, <1>28, <1>29, <1>30, <1>31, <1>32, <1>33 DEF Next, Executor, Resolver, Beside, Chain

\* No block takes a second attempt: its nonce has been passed.
LEMMA AtMostOneLandingStep == IInv /\ [Next]_vars => AtMostOneLanding'
<1> SUFFICES ASSUME IInv, [Next]_vars PROVE AtMostOneLanding'
  OBVIOUS
<1> USE AttemptFacts, CurFacts DEF IInv, AtMostOneLanding, NonceInv, HeldPhase, Visible, Mined, TypeOK, RecordsTyped, ChainTyped, recordVars, chainVars, procVars
<1>1. ASSUME NEW d \in Decision, Prepare(d) PROVE AtMostOneLanding'
  BY <1>1 DEF Prepare
<1>2. CASE Simulate
  BY <1>2, SMTT(30) DEF Simulate, Halted, Caught, Await, Idle
<1>3. CASE ReadNonce
  BY <1>3, SMTT(30) DEF ReadNonce, Caught, Await, Idle
<1>4. CASE Sign
  BY <1>4, SMTT(30) DEF Sign, Await
<1>5. CASE SignFails
  BY <1>5, SMTT(30) DEF SignFails, Caught, Idle
<1>6. CASE Broadcast
  BY <1>6, SMTT(30) DEF Broadcast, Halted, Finalize, Await, Idle
<1>7. CASE SendAccepted
  BY <1>7, SMTT(30) DEF SendAccepted, MarkBroadcast, Await
<1>8. CASE FeeCapTooLow
  BY <1>8, SMTT(30) DEF FeeCapTooLow, RefusedBytes, Finalize, Idle
<1>9. CASE NonceTooLow
  BY <1>9 DEF NonceTooLow, Await
<1>10. CASE SendUnknown
  BY <1>10, SMTT(60) DEF SendUnknown, AnswerLost, Finalize, Idle
<1>11. CASE SendRefused
  BY <1>11, SMTT(30) DEF SendRefused, RefusedBytes, Finalize, Idle
<1>12. CASE Lookup
  BY <1>12 DEF Lookup
<1>13. CASE LookupFails
  BY <1>13, SMTT(30) DEF LookupFails, Caught, Idle
<1>14. CASE Receipt
  BY <1>14, SMTT(30) DEF Receipt, RecordReceipt, Idle
<1>15. CASE ReceiptTimeout
  BY <1>15, SMTT(30) DEF ReceiptTimeout, Finalize
<1>16. ASSUME NEW a \in Attempt, Resolve(a) PROVE AtMostOneLanding'
  BY <1>16 DEF Resolve
<1>17. CASE ReadReceipt
  BY <1>17, SMTT(30) DEF ReadReceipt, RecordReceipt, Await, Idle
<1>18. CASE ReadPool
  BY <1>18 DEF ReadPool, Await, Idle
<1>19. CASE NonceUsed
  BY <1>19, SMTT(30) DEF NonceUsed, RecordReceipt, Drop, Idle
<1>20. CASE DeadlinePassed
  BY <1>20, SMTT(30) DEF DeadlinePassed, Drop, Idle
<1>21. CASE Rebroadcast
  BY <1>21, SMTT(30) DEF Rebroadcast, Await, Idle
<1>22. CASE ResendAccepted
  BY <1>22, SMTT(30) DEF ResendAccepted, MarkBroadcast, Idle
<1>23. CASE ResendFails
  BY <1>23 DEF ResendFails, AnswerLost, Idle
<1>24. CASE ResolveFails
  BY <1>24 DEF ResolveFails, Idle
<1>25. ASSUME NEW a \in Attempt, LaneEvent(a) PROVE AtMostOneLanding'
  BY <1>25 DEF LaneEvent
<1>26. CASE DeskChange
  BY <1>26 DEF DeskChange
<1>27. CASE Crash
  BY <1>27 DEF Crash
<1>28. CASE Restart
  BY <1>28 DEF Restart, Idle
<1>29. ASSUME NEW a \in Attempt, Mine(a) PROVE AtMostOneLanding'
  BY <1>29, SMTT(30) DEF Mine
<1>30. ASSUME NEW a \in Attempt, Evict(a) PROVE AtMostOneLanding'
  BY <1>30 DEF Evict
<1>31. CASE ForeignUse
  BY <1>31 DEF ForeignUse
<1>32. CASE Tick
  BY <1>32 DEF Tick
<1>33. CASE UNCHANGED vars
  BY <1>33 DEF vars
<1> QED
  BY <1>1, <1>2, <1>3, <1>4, <1>5, <1>6, <1>7, <1>8, <1>9, <1>10, <1>11, <1>12, <1>13, <1>14, <1>15, <1>16, <1>17, <1>18, <1>19, <1>20, <1>21, <1>22, <1>23, <1>24, <1>25, <1>26, <1>27, <1>28, <1>29, <1>30, <1>31, <1>32, <1>33 DEF Next, Executor, Resolver, Beside, Chain

\* No action opens a second attempt of an execution.
LEMMA LiveInvStep == IInv /\ [Next]_vars => LiveInv'
<1> SUFFICES ASSUME IInv, [Next]_vars PROVE LiveInv'
  OBVIOUS
<1> USE AttemptFacts, CurFacts DEF IInv, LiveInv, OneLiveAttempt, NonceInv, HeldPhase, Open, TypeOK, RecordsTyped, recordVars, chainVars, procVars
<1>1. ASSUME NEW d \in Decision, Prepare(d) PROVE LiveInv'
  BY <1>1 DEF Prepare
<1>2. CASE Simulate
  BY <1>2, SMTT(30) DEF Simulate, Halted, Caught, Await, Idle
<1>3. CASE ReadNonce
  BY <1>3, SMTT(30) DEF ReadNonce, Caught, Await, Idle
<1>4. CASE Sign
  BY <1>4, SMTT(30) DEF Sign, Await
<1>5. CASE SignFails
  BY <1>5, SMTT(30) DEF SignFails, Caught, Idle
<1>6. CASE Broadcast
  BY <1>6, SMTT(90) DEF Broadcast, Halted, Finalize, Await, Idle
<1>7. CASE SendAccepted
  BY <1>7, SMTT(30) DEF SendAccepted, MarkBroadcast, Await
<1>8. CASE FeeCapTooLow
  <2>1. CASE Halted(cur[1])
    BY <1>8, <2>1 DEF FeeCapTooLow, Finalize, Idle
  <2>2. CASE ~Halted(cur[1])
    <3>1. /\ att' = [att EXCEPT ![cur] = "replaced"] /\ pc' = "sign"
          /\ cur'[1] = cur[1] /\ pc = "sending"
      BY <1>8, <2>2 DEF FeeCapTooLow
    <3> QED
      BY <3>1
  <2> QED
    BY <2>1, <2>2
<1>9. CASE NonceTooLow
  BY <1>9 DEF NonceTooLow, Await
<1>10. CASE SendUnknown
  BY <1>10, SMTT(60) DEF SendUnknown, AnswerLost, Finalize, Idle
<1>11. CASE SendRefused
  BY <1>11, SMTT(30) DEF SendRefused, RefusedBytes, Finalize, Idle
<1>12. CASE Lookup
  <2>1. CASE net[cur] \in Visible
    BY <1>12, <2>1, SMTT(30) DEF Lookup, MarkBroadcast, Await
  <2>2. CASE net[cur] \notin Visible
    <3>1. Finalize(cur, "dropped", "NONCE_CONFLICT") /\ Idle
      BY <1>12, <2>2 DEF Lookup
    <3> QED
      BY <1>12, <3>1 DEF Lookup, Finalize, Idle
  <2> QED
    BY <2>1, <2>2
<1>13. CASE LookupFails
  BY <1>13, SMTT(30) DEF LookupFails, Caught, Idle
<1>14. CASE Receipt
  BY <1>14, SMTT(30) DEF Receipt, RecordReceipt, Idle
<1>15. CASE ReceiptTimeout
  BY <1>15, SMTT(30) DEF ReceiptTimeout, Finalize
<1>16. ASSUME NEW a \in Attempt, Resolve(a) PROVE LiveInv'
  BY <1>16 DEF Resolve
<1>17. CASE ReadReceipt
  BY <1>17, SMTT(30) DEF ReadReceipt, RecordReceipt, Await, Idle
<1>18. CASE ReadPool
  BY <1>18 DEF ReadPool, Await, Idle
<1>19. CASE NonceUsed
  BY <1>19, SMTT(30) DEF NonceUsed, RecordReceipt, Drop, Idle
<1>20. CASE DeadlinePassed
  BY <1>20, SMTT(30) DEF DeadlinePassed, Drop, Idle
<1>21. CASE Rebroadcast
  BY <1>21, SMTT(30) DEF Rebroadcast, Await, Idle
<1>22. CASE ResendAccepted
  BY <1>22, SMTT(30) DEF ResendAccepted, MarkBroadcast, Idle
<1>23. CASE ResendFails
  BY <1>23 DEF ResendFails, AnswerLost, Idle
<1>24. CASE ResolveFails
  BY <1>24 DEF ResolveFails, Idle
<1>25. ASSUME NEW a \in Attempt, LaneEvent(a) PROVE LiveInv'
  BY <1>25 DEF LaneEvent
<1>26. CASE DeskChange
  BY <1>26 DEF DeskChange
<1>27. CASE Crash
  BY <1>27 DEF Crash
<1>28. CASE Restart
  BY <1>28 DEF Restart, Idle
<1>29. ASSUME NEW a \in Attempt, Mine(a) PROVE LiveInv'
  BY <1>29, SMTT(30) DEF Mine
<1>30. ASSUME NEW a \in Attempt, Evict(a) PROVE LiveInv'
  BY <1>30 DEF Evict
<1>31. CASE ForeignUse
  BY <1>31 DEF ForeignUse
<1>32. CASE Tick
  BY <1>32 DEF Tick
<1>33. CASE UNCHANGED vars
  BY <1>33 DEF vars
<1> QED
  BY <1>1, <1>2, <1>3, <1>4, <1>5, <1>6, <1>7, <1>8, <1>9, <1>10, <1>11, <1>12, <1>13, <1>14, <1>15, <1>16, <1>17, <1>18, <1>19, <1>20, <1>21, <1>22, <1>23, <1>24, <1>25, <1>26, <1>27, <1>28, <1>29, <1>30, <1>31, <1>32, <1>33 DEF Next, Executor, Resolver, Beside, Chain

\* No action settles a record that the chain does not back.
LEMMA RecordInvStep == IInv /\ [Next]_vars => RecordInv'
<1> SUFFICES ASSUME IInv, [Next]_vars PROVE RecordInv'
  OBVIOUS
<1> USE AttemptFacts, CurFacts DEF IInv, RecordInv, NonceInv, HeldPhase, Visible, Mined, Open, TypeOK, RecordsTyped, ChainTyped, recordVars, chainVars, procVars
<1>1. ASSUME NEW d \in Decision, Prepare(d) PROVE RecordInv'
  BY <1>1 DEF Prepare
<1>2. CASE Simulate
  BY <1>2, SMTT(30) DEF Simulate, Halted, Caught, Await, Idle
<1>3. CASE ReadNonce
  BY <1>3, SMTT(30) DEF ReadNonce, Caught, Await, Idle
<1>4. CASE Sign
  BY <1>4, SMTT(30) DEF Sign, Await
<1>5. CASE SignFails
  BY <1>5, SMTT(30) DEF SignFails, Caught, Idle
<1>6. CASE Broadcast
  BY <1>6, SMTT(30) DEF Broadcast, Halted, Finalize, Await, Idle
<1>7. CASE SendAccepted
  BY <1>7, SMTT(30) DEF SendAccepted, MarkBroadcast, Await
<1>8. CASE FeeCapTooLow
  BY <1>8, SMTT(30) DEF FeeCapTooLow, RefusedBytes, Finalize, Idle
<1>9. CASE NonceTooLow
  BY <1>9 DEF NonceTooLow, Await
<1>10. CASE SendUnknown
  BY <1>10, SMTT(60) DEF SendUnknown, AnswerLost, Finalize, Idle
<1>11. CASE SendRefused
  BY <1>11, SMTT(30) DEF SendRefused, RefusedBytes, Finalize, Idle
<1>12. CASE Lookup
  <2>1. CASE net[cur] \in Visible
    BY <1>12, <2>1, SMTT(30) DEF Lookup, MarkBroadcast, Await
  <2>2. CASE net[cur] \notin Visible
    BY <1>12, <2>2, SMTT(30) DEF Lookup, Finalize, Idle
  <2> QED
    BY <2>1, <2>2
<1>13. CASE LookupFails
  BY <1>13, SMTT(30) DEF LookupFails, Caught, Idle
<1>14. CASE Receipt
  BY <1>14, SMTT(30) DEF Receipt, RecordReceipt, Idle
<1>15. CASE ReceiptTimeout
  BY <1>15, SMTT(30) DEF ReceiptTimeout, Finalize
<1>16. ASSUME NEW a \in Attempt, Resolve(a) PROVE RecordInv'
  BY <1>16 DEF Resolve
<1>17. CASE ReadReceipt
  BY <1>17, SMTT(90) DEF ReadReceipt, RecordReceipt, Await, Idle
<1>18. CASE ReadPool
  BY <1>18 DEF ReadPool, Await, Idle
<1>19. CASE NonceUsed
  <2>1. CASE Drop(cur, "NONCE_CONFLICT")
    BY <1>19, <2>1 DEF NonceUsed, Drop, Idle
  <2>2. ASSUME NEW b \in Attempt, net[b] \in Mined, att[b] # "none", RecordReceipt(b)
        PROVE  RecordInv'
    BY <1>19, <2>2, SMTT(30) DEF NonceUsed, RecordReceipt, Idle
  <2> QED
    BY <1>19, <2>1, <2>2 DEF NonceUsed
<1>20. CASE DeadlinePassed
  BY <1>20, SMTT(30) DEF DeadlinePassed, Drop, Idle
<1>21. CASE Rebroadcast
  BY <1>21, SMTT(30) DEF Rebroadcast, Await, Idle
<1>22. CASE ResendAccepted
  BY <1>22, SMTT(30) DEF ResendAccepted, MarkBroadcast, Idle
<1>23. CASE ResendFails
  BY <1>23 DEF ResendFails, AnswerLost, Idle
<1>24. CASE ResolveFails
  BY <1>24 DEF ResolveFails, Idle
<1>25. ASSUME NEW a \in Attempt, LaneEvent(a) PROVE RecordInv'
  BY <1>25 DEF LaneEvent
<1>26. CASE DeskChange
  BY <1>26 DEF DeskChange
<1>27. CASE Crash
  BY <1>27 DEF Crash
<1>28. CASE Restart
  BY <1>28 DEF Restart, Idle
<1>29. ASSUME NEW a \in Attempt, Mine(a) PROVE RecordInv'
  BY <1>29, SMTT(30) DEF Mine
<1>30. ASSUME NEW a \in Attempt, Evict(a) PROVE RecordInv'
  BY <1>30 DEF Evict
<1>31. CASE ForeignUse
  BY <1>31 DEF ForeignUse
<1>32. CASE Tick
  BY <1>32 DEF Tick
<1>33. CASE UNCHANGED vars
  BY <1>33 DEF vars
<1> QED
  BY <1>1, <1>2, <1>3, <1>4, <1>5, <1>6, <1>7, <1>8, <1>9, <1>10, <1>11, <1>12, <1>13, <1>14, <1>15, <1>16, <1>17, <1>18, <1>19, <1>20, <1>21, <1>22, <1>23, <1>24, <1>25, <1>26, <1>27, <1>28, <1>29, <1>30, <1>31, <1>32, <1>33 DEF Next, Executor, Resolver, Beside, Chain

\* Retired bytes stay retired while the step is signed anew: what the executor gives
\* up before a re-signature is never sent by anybody else.
LEMMA RetiredInvStep == IInv /\ [Next]_vars => RetiredInv'
<1> SUFFICES ASSUME IInv, [Next]_vars PROVE RetiredInv'
  OBVIOUS
<1> USE AttemptFacts, CurFacts DEF IInv, RetiredInv, NonceInv, HeldPhase, Open, TypeOK, RecordsTyped, ChainTyped, recordVars, chainVars, procVars
<1>1. ASSUME NEW d \in Decision, Prepare(d) PROVE RetiredInv'
  BY <1>1 DEF Prepare
<1>2. CASE Simulate
  BY <1>2 DEF Simulate, Halted, Caught, Await, Idle
<1>3. CASE ReadNonce
  BY <1>3 DEF ReadNonce, Caught, Await, Idle
<1>4. CASE Sign
  BY <1>4 DEF Sign, Await
<1>5. CASE SignFails
  BY <1>5 DEF SignFails, Caught, Idle
<1>6. CASE Broadcast
  BY <1>6 DEF Broadcast, Halted, Finalize, Await, Idle
<1>7. CASE SendAccepted
  BY <1>7 DEF SendAccepted, MarkBroadcast, Await
<1>8. CASE FeeCapTooLow
  <2>1. CASE Halted(cur[1])
    BY <1>8, <2>1 DEF FeeCapTooLow, Finalize, Idle
  <2>2. CASE ~Halted(cur[1])
    <3>1. cur' = <<cur[1], cur[2] + 1>> /\ att' = [att EXCEPT ![cur] = "replaced"] /\ cur \in Attempt
      BY <1>8, <2>2 DEF FeeCapTooLow
    <3>2. \/ Resend
          \/ net' = [net EXCEPT ![cur] = "none"]
      BY <1>8 DEF FeeCapTooLow, RefusedBytes
    <3>3. Resend \/ \A a \in Attempt : net'[a] # "none" => net[a] # "none" /\ a # cur
      BY <3>2
    <3>4. ASSUME NEW a \in Attempt, a[1] = cur[1], a[2] < cur[2] + 1 PROVE a = cur \/ a[2] < cur[2]
      <4>1. a[2] \in Int /\ cur[2] \in Int /\ ~(a[2] > cur[2])
        <5> HIDE CurFacts DEF IInv, NonceInv, RetiredInv, TypeOK, RecordsTyped, ChainTyped
        <5> QED
          BY <3>1, <3>4, ExecutorAssumption
      <4> QED
        BY <3>1, <3>4, <4>1, AttemptOrder
    <3>5. pc = "sending"
      BY <1>8 DEF FeeCapTooLow
    <3> QED
      BY <3>1, <3>3, <3>4, <3>5
  <2> QED
    BY <2>1, <2>2
<1>9. CASE NonceTooLow
  BY <1>9 DEF NonceTooLow, Await
<1>10. CASE SendUnknown
  BY <1>10 DEF SendUnknown, AnswerLost, Finalize, Idle
<1>11. CASE SendRefused
  BY <1>11 DEF SendRefused, RefusedBytes, Finalize, Idle
<1>12. CASE Lookup
  BY <1>12 DEF Lookup, MarkBroadcast, Finalize, Await, Idle
<1>13. CASE LookupFails
  BY <1>13 DEF LookupFails, Caught, Idle
<1>14. CASE Receipt
  BY <1>14 DEF Receipt, RecordReceipt, Idle
<1>15. CASE ReceiptTimeout
  BY <1>15 DEF ReceiptTimeout, Finalize
<1>16. ASSUME NEW a \in Attempt, Resolve(a) PROVE RetiredInv'
  BY <1>16 DEF Resolve
<1>17. CASE ReadReceipt
  BY <1>17 DEF ReadReceipt, RecordReceipt, Await, Idle
<1>18. CASE ReadPool
  BY <1>18 DEF ReadPool, Await, Idle
<1>19. CASE NonceUsed
  BY <1>19 DEF NonceUsed, RecordReceipt, Drop, Idle
<1>20. CASE DeadlinePassed
  BY <1>20 DEF DeadlinePassed, Drop, Idle
<1>21. CASE Rebroadcast
  BY <1>21 DEF Rebroadcast, Await, Idle
<1>22. CASE ResendAccepted
  BY <1>22 DEF ResendAccepted, MarkBroadcast, Idle
<1>23. CASE ResendFails
  BY <1>23 DEF ResendFails, AnswerLost, Idle
<1>24. CASE ResolveFails
  BY <1>24 DEF ResolveFails, Idle
<1>25. ASSUME NEW a \in Attempt, LaneEvent(a) PROVE RetiredInv'
  BY <1>25 DEF LaneEvent
<1>26. CASE DeskChange
  BY <1>26 DEF DeskChange
<1>27. CASE Crash
  BY <1>27 DEF Crash
<1>28. CASE Restart
  BY <1>28 DEF Restart, Idle
<1>29. ASSUME NEW a \in Attempt, Mine(a) PROVE RetiredInv'
  BY <1>29 DEF Mine
<1>30. ASSUME NEW a \in Attempt, Evict(a) PROVE RetiredInv'
  BY <1>30 DEF Evict
<1>31. CASE ForeignUse
  BY <1>31 DEF ForeignUse
<1>32. CASE Tick
  BY <1>32 DEF Tick
<1>33. CASE UNCHANGED vars
  BY <1>33 DEF vars
<1> QED
  BY <1>1, <1>2, <1>3, <1>4, <1>5, <1>6, <1>7, <1>8, <1>9, <1>10, <1>11, <1>12, <1>13, <1>14, <1>15, <1>16, <1>17, <1>18, <1>19, <1>20, <1>21, <1>22, <1>23, <1>24, <1>25, <1>26, <1>27, <1>28, <1>29, <1>30, <1>31, <1>32, <1>33 DEF Next, Executor, Resolver, Beside, Chain

\* A deadline drop keeps its explanation while nobody touches the step.
LEMMA DropKept ==
  ASSUME TypeOK, NEW d \in Decision, DroppedAtDeadline(d) \/ DroppedUnsent(d),
         \A a \in Attempt : a[1] = d => att'[a] = att[a] /\ net'[a] = net[a],
         UNCHANGED <<deadline, minedAt, now>>, pc' \notin {"idle", "down"} => cur'[1] # d
  PROVE  DroppedAtDeadline(d)' \/ DroppedUnsent(d)'
<1>1. CASE DroppedAtDeadline(d)
  BY <1>1 DEF DroppedAtDeadline
<1>2. CASE DroppedUnsent(d)
  BY <1>2 DEF DroppedUnsent
<1> QED
  BY <1>1, <1>2

\* No action drops for the deadline before it, and none lands after it.
LEMMA DeadlineInvStep == IInv /\ [Next]_vars => DeadlineInv'
<1> SUFFICES ASSUME IInv, [Next]_vars PROVE DeadlineInv'
  OBVIOUS
<1> USE AttemptFacts, CurFacts DEF IInv, DeadlineInv, DroppedAtDeadline, DroppedUnsent, NonceInv, HeldPhase, Visible, Mined, Open, TypeOK, RecordsTyped, ChainTyped, recordVars, chainVars, procVars
<1>1. ASSUME NEW d \in Decision, Prepare(d) PROVE DeadlineInv'
  BY <1>1 DEF Prepare
<1>2. CASE Simulate
  BY <1>2, SMTT(30) DEF Simulate, Halted, Caught, Await, Idle
<1>3. CASE ReadNonce
  BY <1>3, SMTT(30) DEF ReadNonce, Caught, Await, Idle
<1>4. CASE Sign
  BY <1>4, SMTT(30) DEF Sign, Await
<1>5. CASE SignFails
  BY <1>5, SMTT(30) DEF SignFails, Caught, Idle
<1>6. CASE Broadcast
  <2>1. /\ pc = "gate" /\ cur \in Attempt /\ cur[1] \in Decision /\ net[cur] = "none"
        /\ UNCHANGED <<deadline, minedAt, now>>
    BY <1>6 DEF Broadcast
  <2>2. CASE net' = net /\ Finalize(cur, "dropped", "DESK_HALTED") /\ Idle
    BY <2>1, <2>2, SMTT(30) DEF Finalize, Idle
  <2>3. CASE net' = net /\ Finalize(cur, "dropped", "DEADLINE_PASSED") /\ Idle
    <3>1. /\ pc' = "idle" /\ net' = net
          /\ att' = [att EXCEPT ![cur] = "dropped"]
          /\ exec' = [exec EXCEPT ![cur[1]] = "dropped"]
          /\ code' = [code EXCEPT ![cur[1]] = "DEADLINE_PASSED"]
      BY <2>3 DEF Finalize, Idle
    <3> PICK own \in Decision : own = cur[1]
      BY <2>1
    <3>2. DroppedUnsent(own)'
      <4>1. net'[cur] = "none" /\ att'[cur] = "dropped"
        BY <2>1, <3>1
      <4>2. ASSUME NEW a \in Attempt, a[1] = cur[1]
            PROVE  /\ att'[a] \notin Open
                   /\ net'[a] # "none" => Resend /\ att'[a] \in {"replaced", "confirmed"}
        <5>1. CASE a = cur
          BY <4>1, <5>1
        <5>2. CASE a[2] < cur[2]
          BY <2>1, <3>1, <4>2, <5>2 DEF RetiredInv
        <5>3. CASE a[2] > cur[2]
          BY <2>1, <3>1, <4>2, <5>3
        <5> QED
          BY <2>1, <4>2, <5>1, <5>2, <5>3, AttemptOrder
      <4>3. \E b \in Attempt : b[1] = cur[1] /\ att'[b] = "dropped" /\ net'[b] = "none"
        BY <2>1, <4>1
      <4> QED
        BY <3>1, <4>2, <4>3
    <3>3. \A d \in Decision : d # cur[1] =>
             /\ exec'[d] = exec[d] /\ code'[d] = code[d]
             /\ \A a \in Attempt : a[1] = d => att'[a] = att[a]
      BY <3>1
    <3> QED
      BY <2>1, <3>1, <3>2, <3>3, SMTT(30)
  <2>4. CASE /\ net' = [net EXCEPT ![cur] = "transit"] /\ Await("sending")
             /\ UNCHANGED <<exec, code, att>>
    BY <2>1, <2>4, SMTT(30) DEF Await
  <2> QED
    BY <1>6, <2>2, <2>3, <2>4 DEF Broadcast
<1>7. CASE SendAccepted
  BY <1>7, SMTT(30) DEF SendAccepted, MarkBroadcast, Await
<1>8. CASE FeeCapTooLow
  BY <1>8, SMTT(30) DEF FeeCapTooLow, RefusedBytes, Finalize, Idle
<1>9. CASE NonceTooLow
  BY <1>9 DEF NonceTooLow, Await
<1>10. CASE SendUnknown
  BY <1>10, SMTT(60) DEF SendUnknown, AnswerLost, Finalize, Idle
<1>11. CASE SendRefused
  BY <1>11, SMTT(30) DEF SendRefused, RefusedBytes, Finalize, Idle
<1>12. CASE Lookup
  <2>1. CASE net[cur] \in Visible
    BY <1>12, <2>1, SMTT(30) DEF Lookup, MarkBroadcast, Await
  <2>2. CASE net[cur] \notin Visible
    BY <1>12, <2>2, SMTT(30) DEF Lookup, Finalize, Idle
  <2> QED
    BY <2>1, <2>2
<1>13. CASE LookupFails
  BY <1>13, SMTT(30) DEF LookupFails, Caught, Idle
<1>14. CASE Receipt
  BY <1>14, SMTT(30) DEF Receipt, RecordReceipt, Idle
<1>15. CASE ReceiptTimeout
  BY <1>15, SMTT(30) DEF ReceiptTimeout, Finalize
<1>16. ASSUME NEW a \in Attempt, Resolve(a) PROVE DeadlineInv'
  BY <1>16 DEF Resolve
<1>17. CASE ReadReceipt
  BY <1>17, SMTT(30) DEF ReadReceipt, RecordReceipt, Await, Idle
<1>18. CASE ReadPool
  BY <1>18 DEF ReadPool, Await, Idle
<1>19. CASE NonceUsed
  BY <1>19, SMTT(30) DEF NonceUsed, RecordReceipt, Drop, Idle
<1>20. CASE DeadlinePassed
  <2>1. \A a \in Attempt : a[1] = cur[1] => net[a] # "ok"
    <3> SUFFICES ASSUME NEW a \in Attempt, a[1] = cur[1], net[a] = "ok" PROVE FALSE
      OBVIOUS
    <3>1. nonceOf[a] = nonceOf[cur] /\ nonceOf[a] < chainNonce
      BY <1>20 DEF DeadlinePassed
    <3> QED
      BY <1>20, <3>1 DEF DeadlinePassed
  <2>2. asOf <= now /\ asOf >= deadline[cur[1]] /\ now \in Nat /\ asOf \in Nat
    BY <1>20 DEF DeadlinePassed, ProcessTyped
  <2>3. now >= deadline[cur[1]]
    BY <2>2, <1>20 DEF DeadlinePassed
  <2> PICK own \in Decision : own = cur[1]
    BY <1>20 DEF DeadlinePassed
  <2>4. DroppedAtDeadline(own)'
    BY <1>20, <2>1, <2>3 DEF DeadlinePassed
  <2>5. \A d \in Decision : d # own =>
           /\ exec'[d] = exec[d] /\ code'[d] = code[d]
           /\ \A a \in Attempt : a[1] = d => att'[a] = att[a]
    BY <1>20 DEF DeadlinePassed, Drop
  <2>6. UNCHANGED <<net, deadline, minedAt, now>> /\ pc' = "idle"
    BY <1>20 DEF DeadlinePassed, Idle
  <2>7. ASSUME NEW d \in Decision, d # own, exec'[d] = "dropped", code'[d] = "DEADLINE_PASSED"
        PROVE  DroppedAtDeadline(d)' \/ DroppedUnsent(d)'
    <3>1. DroppedAtDeadline(d) \/ DroppedUnsent(d)
      BY <2>5, <2>7
    <3> HIDE DEF DroppedAtDeadline, DroppedUnsent
    <3> QED
      BY <2>5, <2>6, <2>7, <3>1, DropKept
  <2> HIDE DEF DroppedAtDeadline, DroppedUnsent
  <2> QED
    BY <2>4, <2>6, <2>7
<1>21. CASE Rebroadcast
  <2>1. /\ pc = "readCount" /\ pc' \in {"idle", "resending"}
        /\ pc' # "idle" => cur' = cur
        /\ UNCHANGED <<exec, code, att, deadline, minedAt, now>>
        /\ \A a \in Attempt : a # cur => net'[a] = net[a]
    BY <1>21 DEF Rebroadcast, Await, Idle
  <2>2. ASSUME NEW d \in Decision, exec'[d] = "dropped", code'[d] = "DEADLINE_PASSED"
        PROVE  DroppedAtDeadline(d)' \/ DroppedUnsent(d)'
    <3>1. CASE DroppedAtDeadline(d)
      BY <1>21, <2>1, <3>1 DEF Rebroadcast
    <3>2. CASE DroppedUnsent(d)
      <4>1. cur[1] # d
        BY <2>1, <3>2
      <4>2. \A a \in Attempt : a[1] = d => a # cur
        BY <4>1
      <4> HIDE DEF DroppedAtDeadline, DroppedUnsent
      <4> QED
        BY <2>1, <3>2, <4>1, <4>2, DropKept
    <3> QED
      BY <2>1, <2>2, <3>1, <3>2
  <2> HIDE DEF DroppedAtDeadline, DroppedUnsent
  <2> QED
    BY <2>1, <2>2
<1>22. CASE ResendAccepted
  <2>1. /\ pc = "resending" /\ pc' = "idle" /\ cur \in Attempt /\ cur[1] \in Decision
        /\ UNCHANGED <<code, deadline, minedAt, now>>
        /\ \A a \in Attempt : net'[a] = "ok" <=> net[a] = "ok"
    BY <1>22 DEF ResendAccepted, Idle
  <2>2. /\ \A d \in Decision : exec'[d] = "dropped" => exec[d] = "dropped"
        /\ \A a \in Attempt : a[1] # cur[1] => att'[a] = att[a] /\ net'[a] = net[a]
    BY <1>22 DEF ResendAccepted, MarkBroadcast
  <2>3. ASSUME NEW d \in Decision, exec'[d] = "dropped", code'[d] = "DEADLINE_PASSED"
        PROVE  DroppedAtDeadline(d)' \/ DroppedUnsent(d)'
    <3>1. CASE DroppedAtDeadline(d)
      BY <2>1, <3>1
    <3>2. CASE DroppedUnsent(d)
      <4>1. cur[1] # d
        BY <2>1, <3>2
      <4> HIDE DEF DroppedAtDeadline, DroppedUnsent
      <4> QED
        BY <2>1, <2>2, <3>2, <4>1, DropKept
    <3> QED
      BY <2>1, <2>2, <2>3, <3>1, <3>2
  <2> HIDE DEF DroppedAtDeadline, DroppedUnsent
  <2> QED
    BY <2>1, <2>3
<1>23. CASE ResendFails
  BY <1>23 DEF ResendFails, AnswerLost, Idle
<1>24. CASE ResolveFails
  BY <1>24 DEF ResolveFails, Idle
<1>25. ASSUME NEW a \in Attempt, LaneEvent(a) PROVE DeadlineInv'
  BY <1>25 DEF LaneEvent
<1>26. CASE DeskChange
  BY <1>26 DEF DeskChange
<1>27. CASE Crash
  BY <1>27 DEF Crash
<1>28. CASE Restart
  BY <1>28 DEF Restart, Idle
<1>29. ASSUME NEW a \in Attempt, Mine(a) PROVE DeadlineInv'
  <2>1. ASSUME NEW d \in Decision, DroppedAtDeadline(d) PROVE DroppedAtDeadline(d)'
    <3>1. ASSUME NEW b \in Attempt, b[1] = d, net'[b] = "ok" PROVE minedAt'[b] = deadline[d]
      <4>1. CASE b = a
        <5>1. now <= deadline[d] /\ now >= deadline[d] /\ minedAt'[b] = now
          BY <1>29, <2>1, <3>1, <4>1 DEF Mine
        <5>2. now \in Nat /\ deadline[d] \in Nat
          BY DEF RecordsTyped, ChainTyped
        <5>3. now = deadline[d]
          <6> HIDE AttemptFacts, CurFacts DEF IInv, NonceInv, DeadlineInv, TypeOK, RecordsTyped, ChainTyped
          <6> QED
            BY <5>1, <5>2
        <5> QED
          BY <5>1, <5>3
      <4>2. CASE b # a
        BY <1>29, <2>1, <3>1, <4>2 DEF Mine
      <4> QED
        BY <4>1, <4>2
    <3> QED
      BY <1>29, <2>1, <3>1 DEF Mine
  <2>2. ASSUME NEW d \in Decision, DroppedUnsent(d) PROVE DroppedUnsent(d)'
    BY <1>29, <2>2 DEF Mine
  <2> QED
    BY <1>29, <2>1, <2>2 DEF Mine
<1>30. ASSUME NEW a \in Attempt, Evict(a) PROVE DeadlineInv'
  BY <1>30 DEF Evict
<1>31. CASE ForeignUse
  BY <1>31 DEF ForeignUse
<1>32. CASE Tick
  <2>1. now' = now + 1 /\ now \in Nat /\ asOf \in Nat
    BY <1>32 DEF Tick, ProcessTyped
  <2>2. \A n \in Nat : n <= now => n <= now'
    BY <2>1
  <2> QED
    BY <1>32, <2>1, <2>2 DEF Tick
<1>33. CASE UNCHANGED vars
  BY <1>33 DEF vars
<1> QED
  BY <1>1, <1>2, <1>3, <1>4, <1>5, <1>6, <1>7, <1>8, <1>9, <1>10, <1>11, <1>12, <1>13, <1>14, <1>15, <1>16, <1>17, <1>18, <1>19, <1>20, <1>21, <1>22, <1>23, <1>24, <1>25, <1>26, <1>27, <1>28, <1>29, <1>30, <1>31, <1>32, <1>33 DEF Next, Executor, Resolver, Beside, Chain

\* The invariant holds before anything was written.
LEMMA InitInv == Init => IInv
<1> SUFFICES ASSUME Init PROVE IInv
  OBVIOUS
<1> USE AttemptFacts
<1>1. TypeOK
  BY InitType
<1>2. FlightInv
  BY DEF Init, FlightInv, SingleInFlight, ExecPhase, InFlight
<1>3. NonceInv
  BY DEF Init, NonceInv, HeldPhase, Mined
<1>7. AtMostOneLanding
  BY DEF Init, AtMostOneLanding, Mined
<1>4. LiveInv
  BY DEF Init, LiveInv, OneLiveAttempt, HeldPhase, Open
<1>5. RecordInv
  BY DEF Init, RecordInv
<1>6. DeadlineInv
  BY DEF Init, DeadlineInv
<1>8. RetiredInv
  BY DEF Init, RetiredInv
<1> QED
  BY <1>1, <1>2, <1>3, <1>4, <1>5, <1>6, <1>7, <1>8 DEF IInv

\* The invariant is inductive, so every reachable state satisfies all of its parts.
THEOREM InvariantHolds == Spec => []IInv
<1>1. IInv /\ [Next]_vars => IInv'
  BY NextType, FlightInvStep, NonceInvStep, AtMostOneLandingStep, LiveInvStep, RecordInvStep, RetiredInvStep, DeadlineInvStep DEF IInv
<1> QED
  BY InitInv, <1>1, PTL DEF Spec

\* However the awaits of executor, resolver and reconcile timer interleave with
\* crashes and the chain, one signer never has two executions in flight.
THEOREM OneInFlight == Spec => []SingleInFlight
<1>1. IInv => SingleInFlight
  BY DEF IInv, FlightInv
<1> QED
  BY InvariantHolds, <1>1, PTL

\* A decision step lands at most once: all its attempts carry one nonce, and a
\* nonce the chain has passed is never mined again.
THEOREM LandsAtMostOnce == Spec => []AtMostOneLanding
<1>1. IInv => AtMostOneLanding
  BY DEF IInv
<1> QED
  BY InvariantHolds, <1>1, PTL

\* At most one attempt of an execution is open for the resolver to send again.
THEOREM OneAttemptLive == Spec => []OneLiveAttempt
<1>1. IInv => OneLiveAttempt
  BY DEF IInv, LiveInv
<1> QED
  BY InvariantHolds, <1>1, PTL

\* Bytes on the network are recorded and signed for, and a settled execution says
\* what happened to them.
THEOREM RecordsAreSound == Spec => []RecordSound
<1>1. IInv => RecordSound
  BY AttemptFacts DEF IInv, NonceInv, RecordInv, RecordSound
<1> QED
  BY InvariantHolds, <1>1, PTL

\* A step dropped as past its deadline lands after all only in the deadline second,
\* or through a second copy of bytes that were retired before the drop.
THEOREM LateLandingsExplained == Spec => []LateLandingExplained
<1>1. IInv => LateLandingExplained
  BY AttemptFacts DEF IInv, DeadlineInv, DroppedAtDeadline, DroppedUnsent, LateLandingExplained
<1> QED
  BY InvariantHolds, <1>1, PTL

\* Only the executor's gate and the resolver's rebroadcast send bytes, and both look
\* at the desk in the same step: none leave for a desk that is not active.
THEOREM HaltedDesksSendNothing == Spec => HaltedSendsNothing
<1> DEFINE A == \A a \in Attempt :
      a[1] \in Adding /\ pc' \in {"sending", "resending"} /\ pc # pc' /\ cur' = a
        => desk = "active"
<1>1. ASSUME [Next]_vars PROVE [A]_vars
  <2>1. CASE pc' \notin {"sending", "resending"} \/ pc' = pc
    BY <2>1
  <2>2. CASE pc' \in {"sending", "resending"} /\ pc' # pc
    <3>1. Broadcast \/ Rebroadcast
      BY <1>1, <2>2, SMTT(30) DEF Next, Executor, Resolver, Beside, Chain, vars, procVars, Idle, Await,
         Prepare, Simulate, ReadNonce, Sign, SignFails, SendAccepted, FeeCapTooLow, NonceTooLow,
         SendUnknown, SendRefused, Lookup, LookupFails, Receipt, ReceiptTimeout, Resolve,
         ReadReceipt, ReadPool, NonceUsed, DeadlinePassed, ResendAccepted, ResendFails,
         ResolveFails, LaneEvent, DeskChange, Crash, Restart, Mine, Evict, ForeignUse, Tick
    <3>2. CASE Broadcast
      BY <2>2, <3>2 DEF Broadcast, Halted, Await, Idle
    <3>3. CASE Rebroadcast
      BY <2>2, <3>3 DEF Rebroadcast, Halted, Await, Idle
    <3> QED
      BY <3>1, <3>2, <3>3
  <2> QED
    BY <2>1, <2>2
<1> QED
  BY <1>1, PTL DEF Spec, HaltedSendsNothing
-----------------------------------------------------------------------------
(* The contract of a step (StepRun).                                       *)

\* What anybody works on, or may still send, is in flight or was confirmed by an
\* event of the lane meanwhile: nothing writes to a record that failed.
WorkInv ==
  /\ \A a \in Attempt : att[a] \in Open => exec[a[1]] \in InFlight \cup {"confirmed"}
  /\ pc \notin {"idle", "down"} => exec[cur[1]] \in InFlight \cup {"confirmed"}

\* No action leaves work on a record that failed.
LEMMA WorkInvStep == IInv /\ WorkInv /\ [Next]_vars => WorkInv'
<1> SUFFICES ASSUME IInv, WorkInv, [Next]_vars PROVE WorkInv'
  OBVIOUS
<1> USE AttemptFacts, CurFacts DEF IInv, WorkInv, RecordInv, NonceInv, LiveInv, OneLiveAttempt, HeldPhase, Open, InFlight, Settled, TypeOK, RecordsTyped, ChainTyped, recordVars, chainVars, procVars
<1>1. ASSUME NEW d \in Decision, Prepare(d) PROVE WorkInv'
  BY <1>1 DEF Prepare
<1>2. CASE Simulate
  BY <1>2, SMTT(30) DEF Simulate, Halted, Caught, Await, Idle
<1>3. CASE ReadNonce
  BY <1>3, SMTT(30) DEF ReadNonce, Caught, Await, Idle
<1>4. CASE Sign
  BY <1>4, SMTT(30) DEF Sign, Await
<1>5. CASE SignFails
  BY <1>5, SMTT(30) DEF SignFails, Caught, Idle
<1>6. CASE Broadcast
  BY <1>6, SMTT(30) DEF Broadcast, Halted, Finalize, Await, Idle
<1>7. CASE SendAccepted
  BY <1>7, SMTT(30) DEF SendAccepted, MarkBroadcast, Await
<1>8. CASE FeeCapTooLow
  BY <1>8, SMTT(30) DEF FeeCapTooLow, RefusedBytes, Finalize, Idle
<1>9. CASE NonceTooLow
  BY <1>9 DEF NonceTooLow, Await
<1>10. CASE SendUnknown
  BY <1>10, SMTT(60) DEF SendUnknown, AnswerLost, Finalize, Idle
<1>11. CASE SendRefused
  BY <1>11, SMTT(30) DEF SendRefused, RefusedBytes, Finalize, Idle
<1>12. CASE Lookup
  <2>1. CASE net[cur] \in Visible
    BY <1>12, <2>1, SMTT(30) DEF Lookup, MarkBroadcast, Await
  <2>2. CASE net[cur] \notin Visible
    BY <1>12, <2>2, SMTT(30) DEF Lookup, Finalize, Idle
  <2> QED
    BY <2>1, <2>2
<1>13. CASE LookupFails
  BY <1>13, SMTT(30) DEF LookupFails, Caught, Idle
<1>14. CASE Receipt
  BY <1>14, SMTT(30) DEF Receipt, RecordReceipt, Idle
<1>15. CASE ReceiptTimeout
  BY <1>15, SMTT(30) DEF ReceiptTimeout, Finalize
<1>16. ASSUME NEW a \in Attempt, Resolve(a) PROVE WorkInv'
  BY <1>16 DEF Resolve
<1>17. CASE ReadReceipt
  BY <1>17, SMTT(30) DEF ReadReceipt, RecordReceipt, Await, Idle
<1>18. CASE ReadPool
  BY <1>18 DEF ReadPool, Await, Idle
<1>19. CASE NonceUsed
  <2>1. CASE Drop(cur, "NONCE_CONFLICT")
    BY <1>19, <2>1 DEF NonceUsed, Drop, Idle
  <2>2. ASSUME NEW b \in Attempt, net[b] \in Mined, att[b] # "none", RecordReceipt(b)
        PROVE  WorkInv'
    BY <1>19, <2>2, SMTT(30) DEF NonceUsed, RecordReceipt, Idle
  <2> QED
    BY <1>19, <2>1, <2>2 DEF NonceUsed
<1>20. CASE DeadlinePassed
  BY <1>20, SMTT(30) DEF DeadlinePassed, Drop, Idle
<1>21. CASE Rebroadcast
  BY <1>21, SMTT(30) DEF Rebroadcast, Await, Idle
<1>22. CASE ResendAccepted
  BY <1>22, SMTT(30) DEF ResendAccepted, MarkBroadcast, Idle
<1>23. CASE ResendFails
  BY <1>23 DEF ResendFails, AnswerLost, Idle
<1>24. CASE ResolveFails
  BY <1>24 DEF ResolveFails, Idle
<1>25. ASSUME NEW a \in Attempt, LaneEvent(a) PROVE WorkInv'
  BY <1>25 DEF LaneEvent
<1>26. CASE DeskChange
  BY <1>26 DEF DeskChange
<1>27. CASE Crash
  BY <1>27 DEF Crash
<1>28. CASE Restart
  BY <1>28 DEF Restart, Idle
<1>29. ASSUME NEW a \in Attempt, Mine(a) PROVE WorkInv'
  BY <1>29, SMTT(30) DEF Mine
<1>30. ASSUME NEW a \in Attempt, Evict(a) PROVE WorkInv'
  BY <1>30 DEF Evict
<1>31. CASE ForeignUse
  BY <1>31 DEF ForeignUse
<1>32. CASE Tick
  BY <1>32 DEF Tick
<1>33. CASE UNCHANGED vars
  BY <1>33 DEF vars
<1> QED
  BY <1>1, <1>2, <1>3, <1>4, <1>5, <1>6, <1>7, <1>8, <1>9, <1>10, <1>11, <1>12, <1>13, <1>14, <1>15, <1>16, <1>17, <1>18, <1>19, <1>20, <1>21, <1>22, <1>23, <1>24, <1>25, <1>26, <1>27, <1>28, <1>29, <1>30, <1>31, <1>32, <1>33 DEF Next, Executor, Resolver, Beside, Chain

\* In every reachable state only records in flight or confirmed are worked on.
THEOREM WorkIsLive == Spec => []WorkInv
<1>1. Init => WorkInv
  BY AttemptFacts DEF Init, WorkInv, Open
<1> QED
  BY InvariantHolds, <1>1, WorkInvStep, PTL DEF Spec

Run == [d \in Decision |-> Recorded(exec[d])]

\* One record that moves as the contract lets it is a step of the contract.
LEMMA WorkStep ==
  ASSUME TypeOK, NEW d \in Decision, NEW v \in InFlight \cup Settled,
         exec' = [exec EXCEPT ![d] = v],
         \/ exec[d] \in InFlight
         \/ exec[d] = "confirmed" /\ v \in Settled
         \/ exec[d] \in {"none", "confirmed"} /\ v \in InFlight
              /\ \A e \in Decision : exec[e] \notin InFlight
  PROVE  [Steps!RunNext]_Run
<1>1. /\ Run[d] = Recorded(exec[d])
      /\ Run' = [Run EXCEPT ![d] = Recorded(v)]
  BY DEF Run, TypeOK, RecordsTyped
<1>2. \A e \in Decision : exec[e] \notin InFlight => Run[e] # "flight"
  BY DEF Run, Recorded
<1>3. CASE exec[d] \in InFlight
  <2>1. Run[d] = "flight" /\ Recorded(v) \in {"flight", "confirmed", "failed"}
    BY <1>1, <1>3 DEF Recorded, InFlight, Settled
  <2>2. CASE Recorded(v) = "flight"
    BY <1>1, <2>1, <2>2 DEF Run
  <2>3. CASE Recorded(v) \in {"confirmed", "failed"}
    <3>1. Steps!Finish(d)
      BY <1>1, <2>1, <2>3 DEF Steps!Finish, Steps!Becomes, Run
    <3> QED BY <3>1 DEF Steps!RunNext
  <2> QED BY <2>1, <2>2, <2>3
<1>4. CASE exec[d] = "confirmed" /\ v \in Settled
  <2>1. Run[d] = "confirmed" /\ Recorded(v) \in {"confirmed", "failed"}
    BY <1>1, <1>4 DEF Recorded, InFlight, Settled
  <2>2. CASE Recorded(v) = "confirmed"
    BY <1>1, <2>1, <2>2 DEF Run
  <2>3. CASE Recorded(v) = "failed"
    <3>1. Steps!Overwrite(d)
      BY <1>1, <2>1, <2>3 DEF Steps!Overwrite, Steps!Becomes, Run
    <3> QED BY <3>1 DEF Steps!RunNext
  <2> QED BY <2>1, <2>2, <2>3
<1>5. CASE exec[d] \in {"none", "confirmed"} /\ v \in InFlight
             /\ \A e \in Decision : exec[e] \notin InFlight
  <2>1. Run[d] \in {"none", "confirmed"} /\ Recorded(v) = "flight"
    BY <1>1, <1>5 DEF Recorded, InFlight
  <2>2. Steps!NoneFlying
    BY <1>2, <1>5 DEF Steps!NoneFlying, Run
  <2>3. Steps!Start(d) \/ Steps!Overwrite(d)
    BY <1>1, <2>1, <2>2 DEF Steps!Start, Steps!Overwrite, Steps!Becomes, Run
  <2> QED BY <2>3 DEF Steps!RunNext
<1> QED BY <1>3, <1>4, <1>5

\* What a handler writes for the attempt it works on: any outcome, and in flight
\* again only while nothing else is.
LEMMA WrittenStep ==
  ASSUME IInv, WorkInv, pc \notin {"idle", "down"}, NEW v \in InFlight \cup Settled,
         exec' = [exec EXCEPT ![cur[1]] = v], v \in InFlight => pc \in ExecPhase
  PROVE  [Steps!RunNext]_Run
<1>1. TypeOK /\ cur[1] \in Decision /\ exec[cur[1]] \in InFlight \cup {"confirmed"}
  BY CurFacts DEF IInv, WorkInv
<1>2. v \in InFlight /\ exec[cur[1]] = "confirmed" => \A e \in Decision : exec[e] \notin InFlight
  BY <1>1 DEF IInv, FlightInv, InFlight
<1> QED BY <1>1, <1>2, WorkStep

\* A step that writes no record is a stuttering step of the contract.
LEMMA NothingWritten ==
  ASSUME UNCHANGED exec
  PROVE  [Steps!RunNext]_Run
BY DEF Run

\* Every action of the executor, the resolver and what runs beside them keeps the
\* contract of a step.
LEMMA ContractStep == IInv /\ WorkInv /\ [Next]_vars => [Steps!RunNext]_Run
<1> SUFFICES ASSUME IInv, WorkInv, [Next]_vars PROVE [Steps!RunNext]_Run
  OBVIOUS
<1> DEFINE Written == \E v \in InFlight \cup Settled :
      exec' = [exec EXCEPT ![cur[1]] = v] /\ (v \in InFlight => pc \in ExecPhase)
<1>w. ASSUME pc \notin {"idle", "down"}, Written PROVE [Steps!RunNext]_Run
  BY <1>w, WrittenStep
<1>t. TypeOK /\ exec \in [Decision -> {"none"} \cup InFlight \cup Settled]
  BY DEF IInv, TypeOK, RecordsTyped
<1>c. pc \notin {"idle", "down"} =>
        cur \in Attempt /\ cur[1] \in Decision /\ exec[cur[1]] \in InFlight \cup {"confirmed"}
  BY <1>t, CurFacts DEF WorkInv
<1>1. ASSUME NEW d \in Decision, Prepare(d) PROVE [Steps!RunNext]_Run
  <2>1. exec' = [exec EXCEPT ![d] = "prepared"] /\ "prepared" \in InFlight
    BY <1>1 DEF Prepare, InFlight
  <2>2. exec[d] = "none" /\ \A e \in Decision : exec[e] \notin InFlight
    BY <1>1 DEF Prepare
  <2> QED BY <1>t, <2>1, <2>2, WorkStep
<1>2. CASE Simulate
  <2>1. pc \notin {"idle", "down"} /\ Written
    BY <1>2, <1>t, <1>c DEF Simulate, Caught, Await, ExecPhase, InFlight, Settled
  <2> QED BY <1>w, <2>1
<1>3. CASE ReadNonce
  <2>1. UNCHANGED exec \/ (pc \notin {"idle", "down"} /\ Written)
    BY <1>3, <1>t, <1>c DEF ReadNonce, Caught, ExecPhase, InFlight, Settled
  <2> QED BY <1>w, <2>1, NothingWritten
<1>4. CASE Sign
  <2>1. pc \notin {"idle", "down"} /\ Written
    BY <1>4, <1>t, <1>c DEF Sign, Await, ExecPhase, InFlight, Settled
  <2> QED BY <1>w, <2>1
<1>5. CASE SignFails
  <2>1. pc \notin {"idle", "down"} /\ Written
    BY <1>5, <1>t, <1>c DEF SignFails, Caught, ExecPhase, InFlight, Settled
  <2> QED BY <1>w, <2>1
<1>6. CASE Broadcast
  <2>1. UNCHANGED exec \/ (pc \notin {"idle", "down"} /\ Written)
    BY <1>6, <1>t, <1>c DEF Broadcast, Finalize, ExecPhase, InFlight, Settled
  <2> QED BY <1>w, <2>1, NothingWritten
<1>7. CASE SendAccepted
  <2>1. UNCHANGED exec \/ (pc \notin {"idle", "down"} /\ Written)
    BY <1>7, <1>t, <1>c DEF SendAccepted, MarkBroadcast, ExecPhase, InFlight, Settled
  <2> QED BY <1>w, <2>1, NothingWritten
<1>8. CASE FeeCapTooLow
  <2>1. UNCHANGED exec \/ (pc \notin {"idle", "down"} /\ Written)
    BY <1>8, <1>t, <1>c DEF FeeCapTooLow, Finalize, ExecPhase, InFlight, Settled
  <2> QED BY <1>w, <2>1, NothingWritten
<1>9. CASE NonceTooLow
  BY <1>9, NothingWritten DEF NonceTooLow, recordVars
<1>10. CASE SendUnknown
  <2>1. pc \notin {"idle", "down"} /\ Written
    BY <1>10, <1>t, <1>c DEF SendUnknown, Finalize, ExecPhase, InFlight, Settled
  <2> QED BY <1>w, <2>1
<1>11. CASE SendRefused
  <2>1. pc \notin {"idle", "down"} /\ Written
    BY <1>11, <1>t, <1>c DEF SendRefused, Finalize, ExecPhase, InFlight, Settled
  <2> QED BY <1>w, <2>1
<1>12. CASE Lookup
  <2>1. UNCHANGED exec \/ (pc \notin {"idle", "down"} /\ Written)
    BY <1>12, <1>t, <1>c DEF Lookup, Finalize, MarkBroadcast, ExecPhase, InFlight, Settled
  <2> QED BY <1>w, <2>1, NothingWritten
<1>13. CASE LookupFails
  <2>1. pc \notin {"idle", "down"} /\ Written
    BY <1>13, <1>t, <1>c DEF LookupFails, Caught, ExecPhase, InFlight, Settled
  <2> QED BY <1>w, <2>1
<1>14. CASE Receipt
  <2>1. pc \notin {"idle", "down"} /\ Written
    BY <1>14, <1>t, <1>c DEF Receipt, RecordReceipt, ExecPhase, InFlight, Settled
  <2> QED BY <1>w, <2>1
<1>15. CASE ReceiptTimeout
  <2>1. pc \notin {"idle", "down"} /\ Written
    BY <1>15, <1>t, <1>c DEF ReceiptTimeout, Finalize, ExecPhase, InFlight, Settled
  <2> QED BY <1>w, <2>1
<1>16. ASSUME NEW a \in Attempt, Resolve(a) PROVE [Steps!RunNext]_Run
  BY <1>16, NothingWritten DEF Resolve, recordVars
<1>17. CASE ReadReceipt
  <2>1. UNCHANGED exec \/ (pc \notin {"idle", "down"} /\ Written)
    BY <1>17, <1>t, <1>c DEF ReadReceipt, RecordReceipt, ExecPhase, InFlight, Settled
  <2> QED BY <1>w, <2>1, NothingWritten
<1>18. CASE ReadPool
  BY <1>18, NothingWritten DEF ReadPool, recordVars
<1>19. CASE NonceUsed
  <2>1. UNCHANGED exec \/ (pc \notin {"idle", "down"} /\ Written)
    BY <1>19, <1>t, <1>c DEF NonceUsed, RecordReceipt, Drop, ExecPhase, InFlight, Settled
  <2> QED BY <1>w, <2>1, NothingWritten
<1>20. CASE DeadlinePassed
  <2>1. UNCHANGED exec \/ (pc \notin {"idle", "down"} /\ Written)
    BY <1>20, <1>t, <1>c DEF DeadlinePassed, Drop, ExecPhase, InFlight, Settled
  <2> QED BY <1>w, <2>1, NothingWritten
<1>21. CASE Rebroadcast
  BY <1>21, NothingWritten DEF Rebroadcast, recordVars
<1>22. CASE ResendAccepted
  <2>1. UNCHANGED exec \/ exec' = [exec EXCEPT ![cur[1]] = "broadcast"]
    BY <1>22, <1>t, <1>c DEF ResendAccepted, MarkBroadcast
  <2>2. exec[cur[1]] \notin InFlight => UNCHANGED exec
    BY <1>22, <1>t, <1>c DEF ResendAccepted, MarkBroadcast, InFlight
  <2> QED BY <1>t, <1>c, <1>22, <2>1, <2>2, NothingWritten, WorkStep DEF ResendAccepted, InFlight
<1>23. CASE ResendFails
  BY <1>23, NothingWritten DEF ResendFails, recordVars
<1>24. CASE ResolveFails
  BY <1>24, NothingWritten DEF ResolveFails
<1>25. ASSUME NEW a \in Attempt, LaneEvent(a) PROVE [Steps!RunNext]_Run
  <2>1. a[1] \in Decision /\ exec[a[1]] \in InFlight /\ "confirmed" \in Settled
    BY <1>25, AttemptFacts DEF LaneEvent, InFlight, Settled
  <2> QED BY <1>25, <1>t, <2>1, WorkStep DEF LaneEvent
<1>26. CASE DeskChange
  BY <1>26, NothingWritten DEF DeskChange, recordVars
<1>27. CASE Crash
  BY <1>27, NothingWritten DEF Crash, recordVars
<1>28. CASE Restart
  <2>1. CASE \E d \in Decision : exec[d] \in {"prepared", "simulated"} /\ ~signed[d]
    <3>1. PICK d \in Decision : exec[d] \in {"prepared", "simulated"} /\ ~signed[d]
      BY <2>1
    <3>2. \A e \in Decision : e # d => exec[e] \notin InFlight
      BY <3>1 DEF IInv, FlightInv, SingleInFlight, InFlight
    <3>3. exec' = [exec EXCEPT ![d] = "failed"]
      BY <1>28, <1>t, <3>1, <3>2 DEF Restart, InFlight
    <3> QED BY <1>t, <3>1, <3>3, WorkStep DEF InFlight, Settled
  <2>2. CASE ~ \E d \in Decision : exec[d] \in {"prepared", "simulated"} /\ ~signed[d]
    <3>1. exec' = exec
      BY <1>28, <1>t, <2>2 DEF Restart
    <3> QED BY <3>1, NothingWritten
  <2> QED BY <2>1, <2>2
<1>29. ASSUME NEW a \in Attempt, Mine(a) PROVE [Steps!RunNext]_Run
  BY <1>29, NothingWritten DEF Mine, recordVars
<1>30. ASSUME NEW a \in Attempt, Evict(a) PROVE [Steps!RunNext]_Run
  BY <1>30, NothingWritten DEF Evict, recordVars
<1>31. CASE ForeignUse
  BY <1>31, NothingWritten DEF ForeignUse, recordVars
<1>32. CASE Tick
  BY <1>32, NothingWritten DEF Tick, recordVars
<1>33. CASE UNCHANGED vars
  BY <1>33, NothingWritten DEF vars, recordVars
<1> QED
  BY <1>1, <1>2, <1>3, <1>4, <1>5, <1>6, <1>7, <1>8, <1>9, <1>10, <1>11, <1>12, <1>13, <1>14, <1>15, <1>16, <1>17, <1>18, <1>19, <1>20, <1>21, <1>22, <1>23, <1>24, <1>25, <1>26, <1>27, <1>28, <1>29, <1>30, <1>31, <1>32, <1>33 DEF Next, Executor, Resolver, Beside, Chain

\* Executor, resolver, lane events, crashes and restarts together implement the
\* contract of a step the daemon is modelled on: one in flight, started once, failed
\* for good, confirmed until an older outcome is written over it.
THEOREM ExecutorKeepsContract == Spec => ImplementsStepRun
<1>1. Init => Steps!RunInit
  BY DEF Init, Steps!RunInit, Recorded
<1>2. IInv /\ WorkInv /\ [Next]_vars => [Steps!RunNext]_Run
  BY ContractStep
<1> QED
  BY InvariantHolds, WorkIsLive, <1>1, <1>2, PTL DEF Spec, ImplementsStepRun, Steps!RunSpec, Run
=============================================================================
