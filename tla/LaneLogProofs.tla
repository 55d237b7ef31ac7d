--------------------------- MODULE LaneLogProofs ---------------------------
(***************************************************************************)
(* Proofs about LaneLog, for every chain, number of confirmations, chunk   *)
(* and look-back the assumption allows: the cursor never passes an action  *)
(* that was not stored, matched and, if foreign, answered by halting the   *)
(* desk.                                                                   *)
(***************************************************************************)
EXTENDS LaneLog, TLAPS

\* What is owed to the action in a block has been done.
Handled(b) ==
  /\ b \in DOMAIN logs
  /\ logs[b] = "us" => stored[b] = "matched"
  /\ logs[b] = "other" => stored[b] = "foreign" /\ b \in halted

Processing == pass.at \in {"store", "match", "halt"}

\* The chain never loses more than the last MaxReorg blocks it has had.
ChainInv == Len(logs) >= longest - MaxReorg

\* The pass continues at the cursor, and reads nothing that can still be dropped or that
\* a node may lack.
PassInv ==
  pass.at # "idle" =>
    /\ pass.safeHead <= longest - Confirmations
    /\ pass.from <= pass.safeHead
    /\ cursor # Null => pass.from = cursor + 1
    /\ cursor = Null => pass.safeHead - Lookback <= pass.from
    /\ Processing => pass.to = To(pass.from, pass.safeHead)

\* Each log of the chunk is handled, being processed, or to be processed.
TodoInv ==
  Processing =>
    /\ \A l \in todo : l.block \in pass.from..pass.to /\ l.block \in DOMAIN logs /\ logs[l.block] = l.by
    /\ \A b \in pass.from..pass.to : b \in Block =>
         Handled(b) \/ (\E l \in todo : l.block = b) \/ (pass.at # "store" /\ log.block = b)
    /\ pass.at # "store" =>
         log.block \in pass.from..pass.to /\ log.block \in DOMAIN logs /\ logs[log.block] = log.by
    /\ pass.at = "halt" => log.by = "other" /\ stored[log.block] = "foreign"

CursorInv ==
  cursor # Null =>
    /\ cursor <= longest - Confirmations
    /\ \A b \in Block : first <= b /\ b <= cursor => Handled(b)

StoredInv ==
  \A b \in Block : stored[b] # "none" =>
    /\ b <= longest - Confirmations
    /\ cursor # Null => b <= cursor + ChunkBlocks
    /\ cursor = Null /\ pass.at # "idle" => b <= pass.safeHead + Confirmations

LogInv == LogTypeOK /\ ChainInv /\ PassInv /\ TodoInv /\ CursorInv /\ StoredInv

----------------------------------------------------------------------------
\* The invariant is what the property says of a state.
LEMMA InvTrails == LogInv => CursorTrails
BY DEF LogInv, CursorInv, StoredInv, CursorTrails, Handled

\* The invariant holds before the first pass,
LEMMA InvInit == LogInit => LogInv
<1> SUFFICES ASSUME LogInit PROVE LogInv
  OBVIOUS
<1> USE LaneLogAssumption DEF LogInit, NoPass, NoLog, Null, Processing
<1>1. LogTypeOK
  BY DEF LogTypeOK, Log, Block
<1>2. ChainInv /\ PassInv /\ TodoInv /\ CursorInv /\ StoredInv
  BY DEF ChainInv, PassInv, TodoInv, CursorInv, StoredInv
<1> QED
  BY <1>1, <1>2 DEF LogInv

\* A pass starts at a head no further back than the lag and the reorg allow, which is
\* what keeps earlier chunks that a crash cut short within reach of the first cursor.
LEMMA InvStartPass == LogInv /\ StartPass => LogInv'
<1> SUFFICES ASSUME LogInv, StartPass PROVE LogInv'
  OBVIOUS
<1> USE LaneLogAssumption DEF LogInv, StartPass, NodeHead, SafeHead, From, Greatest, Null
<1>1. PICK latest \in NodeHead :
        /\ SafeHead(latest) >= 0 /\ From(SafeHead(latest)) <= SafeHead(latest)
        /\ pass' = [at |-> "fetch", from |-> From(SafeHead(latest)), to |-> 0,
                    safeHead |-> SafeHead(latest)]
  BY DEF StartPass
<1>2. /\ latest \in Nat /\ latest <= Len(logs) /\ latest >= Len(logs) - MaxLag
      /\ Len(logs) \in Nat /\ longest \in Nat /\ Len(logs) <= longest /\ longest <= MaxBlock
      /\ cursor \in Int /\ cursor >= -1
  BY DEF LogTypeOK, ChainInv
<1>3. UNCHANGED <<logs, longest, stored, cursor, log, todo, first, halted>>
  BY DEF StartPass
<1>4. LogTypeOK'
  BY <1>1, <1>2, <1>3 DEF LogTypeOK
<1>5. ChainInv'
  BY <1>3 DEF ChainInv
<1>6. PassInv'
  BY <1>1, <1>2, <1>3 DEF PassInv, Processing
<1>7. TodoInv'
  BY <1>1 DEF TodoInv, Processing
<1>8. CursorInv'
  BY <1>3 DEF CursorInv, Handled
<1>9. StoredInv'
  BY <1>1, <1>2, <1>3 DEF StoredInv, ChainInv, Block
<1> QED
  BY <1>4, <1>5, <1>6, <1>7, <1>8, <1>9 DEF LogInv
\* No node that answers lacks a block of the chunk: the logs read are those of the chain.
LEMMA InvGetLogs == LogInv /\ GetLogs => LogInv'
<1> SUFFICES ASSUME LogInv, GetLogs PROVE LogInv'
  OBVIOUS
<1> DEFINE to == To(pass.from, pass.safeHead)
<1>1. PICK head \in NodeHead :
        /\ pass' = [pass EXCEPT !.at = "store", !.to = to]
        /\ todo' = {[block |-> b, by |-> logs[b]] :
                      b \in {c \in pass.from..Least(to, head) :
                               c \in DOMAIN logs /\ logs[c] # "nobody"}}
  BY DEF GetLogs
<1>2. UNCHANGED <<logs, longest, stored, cursor, log, first, halted>> /\ pass.at = "fetch"
  BY DEF GetLogs
<1>3. /\ Len(logs) \in Nat /\ longest \in Nat /\ cursor \in Int /\ DOMAIN logs = 1..Len(logs)
      /\ pass.from \in Nat /\ pass.safeHead \in Nat /\ pass.safeHead <= longest - Confirmations
      /\ pass.from <= pass.safeHead /\ pass.safeHead <= MaxBlock /\ longest <= MaxBlock
      /\ Len(logs) >= longest - MaxReorg /\ Len(logs) <= longest
      /\ pass \in [at : {"idle", "fetch", "store", "match", "halt"}, from : 0..MaxBlock,
                   to : 0..MaxBlock, safeHead : 0..MaxBlock]
      /\ \A b \in DOMAIN logs : logs[b] \in {"nobody", "us", "other"}
  BY <1>2, LaneLogAssumption DEF LogInv, LogTypeOK, PassInv, ChainInv, Null
<1>4. to \in Nat /\ to <= pass.safeHead /\ pass.from <= to
  BY <1>3, LaneLogAssumption DEF To, Least
<1>5. Least(to, head) = to
  BY <1>3, <1>4, LaneLogAssumption DEF NodeHead, Least
<1> HIDE DEF to
<1>6. \A l \in todo' : /\ l \in Log /\ l.block \in pass.from..to
                       /\ l.block \in DOMAIN logs /\ logs[l.block] = l.by
  <2> SUFFICES ASSUME NEW b \in pass.from..to, b \in DOMAIN logs, logs[b] # "nobody"
               PROVE  [block |-> b, by |-> logs[b]] \in Log
    BY <1>1, <1>5
  <2> QED
    BY <1>3, LaneLogAssumption DEF Log, Block
<1>7. /\ pass'.at = "store" /\ pass'.to = to
      /\ pass'.from = pass.from /\ pass'.safeHead = pass.safeHead
      /\ pass' \in [at : {"idle", "fetch", "store", "match", "halt"}, from : 0..MaxBlock,
                    to : 0..MaxBlock, safeHead : 0..MaxBlock]
  <2>1. to \in 0..MaxBlock
    BY <1>3, <1>4, LaneLogAssumption
  <2>2. /\ pass'.at = "store" /\ pass'.to = to
        /\ pass'.from = pass.from /\ pass'.safeHead = pass.safeHead
    BY <1>1, <1>3
  <2>3. pass' = [at |-> "store", from |-> pass.from, to |-> to, safeHead |-> pass.safeHead]
    BY <1>1, <1>3
  <2>4. pass.from \in 0..MaxBlock /\ pass.safeHead \in 0..MaxBlock
    BY <1>3
  <2> QED
    BY <2>1, <2>2, <2>3, <2>4
<1>8. LogTypeOK'
  BY <1>2, <1>6, <1>7 DEF LogInv, LogTypeOK
<1>9. ChainInv'
  BY <1>2 DEF LogInv, ChainInv
<1>10. PassInv'
  BY <1>2, <1>7 DEF LogInv, PassInv, To, Least, Processing, to
<1>11. TodoInv'
  <2>1. \A b \in pass.from..to : b \in Block => Handled(b)' \/ \E l \in todo' : l.block = b
    <3> SUFFICES ASSUME NEW b \in pass.from..to, b \in Block
                 PROVE  Handled(b)' \/ \E l \in todo' : l.block = b
      OBVIOUS
    <3>1. b \in DOMAIN logs
      BY <1>3, <1>4, LaneLogAssumption DEF Block
    <3>2. CASE logs[b] = "nobody"
      BY <3>1, <3>2, <1>2 DEF Handled
    <3>3. CASE logs[b] # "nobody"
      <4>1. [block |-> b, by |-> logs[b]] \in todo'
        BY <1>1, <1>5, <3>1, <3>3
      <4> QED
        BY <4>1
    <3> QED
      BY <3>2, <3>3
  <2> QED
    BY <1>2, <1>6, <1>7, <2>1 DEF TodoInv, Processing
<1>12. CursorInv'
  BY <1>2 DEF LogInv, CursorInv, Handled
<1>13. StoredInv'
  BY <1>2, <1>7 DEF LogInv, StoredInv
<1> QED
  BY <1>8, <1>9, <1>10, <1>11, <1>12, <1>13 DEF LogInv

\* A pass that is given up leaves nothing to continue from but the cursor.
LEMMA InvGivenUp == LogInv /\ (GetLogsFails \/ ReaderDies) => LogInv'
<1> SUFFICES ASSUME LogInv, GetLogsFails \/ ReaderDies PROVE LogInv'
  OBVIOUS
<1>1. /\ UNCHANGED <<logs, longest, stored, cursor, first, halted>> /\ pass' = NoPass
      /\ log' \in {log, NoLog} /\ todo' \in {todo, {}}
  BY DEF GetLogsFails, ReaderDies
<1>2. LogTypeOK'
  BY <1>1, LaneLogAssumption DEF LogInv, LogTypeOK, NoPass
<1>3. ChainInv' /\ PassInv' /\ TodoInv' /\ CursorInv' /\ StoredInv'
  BY <1>1 DEF LogInv, ChainInv, PassInv, TodoInv, CursorInv, StoredInv, Handled, Processing, NoPass
<1> QED
  BY <1>2, <1>3 DEF LogInv

\* Taking up a log writes nothing that was there and keeps to the chunk.
LEMMA InvStore == LogInv /\ Store => LogInv'
<1> SUFFICES ASSUME LogInv, Store PROVE LogInv'
  OBVIOUS
<1>1. PICK l \in todo :
        /\ log' = l /\ todo' = todo \ {l}
        /\ stored' = [stored EXCEPT ![l.block] = IF @ = "none" THEN "pending" ELSE @]
  BY DEF Store
<1>2. /\ pass.at = "store" /\ pass' = [pass EXCEPT !.at = "match"]
      /\ UNCHANGED <<logs, longest, cursor, first, halted>>
  BY DEF Store
<1>3. /\ pass' = [at |-> "match", from |-> pass.from, to |-> pass.to, safeHead |-> pass.safeHead]
      /\ pass.from \in 0..MaxBlock /\ pass.to \in 0..MaxBlock /\ pass.safeHead \in 0..MaxBlock
  BY <1>2 DEF LogInv, LogTypeOK
<1>4. /\ l \in Log /\ l.block \in pass.from..pass.to
      /\ l.block \in DOMAIN logs /\ logs[l.block] = l.by
  BY <1>1, <1>2 DEF LogInv, LogTypeOK, TodoInv, Processing
<1>5. \A b \in Block : /\ b # l.block => stored'[b] = stored[b]
                       /\ stored[b] # "none" => stored'[b] = stored[b]
  BY <1>1 DEF LogInv, LogTypeOK
<1>6. /\ l.block <= pass.safeHead /\ pass.safeHead <= longest - Confirmations
      /\ cursor # Null => l.block <= cursor + ChunkBlocks
  <2>1. /\ pass.to = To(pass.from, pass.safeHead) /\ pass.from <= pass.safeHead
        /\ pass.safeHead <= longest - Confirmations
        /\ cursor # Null => pass.from = cursor + 1
        /\ cursor \in Int /\ longest \in Int
    BY <1>2 DEF LogInv, PassInv, LogTypeOK, Processing, Null
  <2> QED
    BY <2>1, <1>3, <1>4, LaneLogAssumption DEF To, Least, Null
<1>7. LogTypeOK'
  <2>1. stored' \in [Block -> {"none", "pending", "matched", "foreign"}]
    BY <1>1 DEF LogInv, LogTypeOK
  <2> QED
    BY <1>1, <1>2, <1>3, <1>4, <2>1 DEF LogInv, LogTypeOK
<1>8. \A b \in Block : Handled(b) => Handled(b)'
  <2> SUFFICES ASSUME NEW b \in Block, Handled(b) PROVE Handled(b)'
    OBVIOUS
  <2>1. stored[b] # "none" => stored'[b] = stored[b]
    BY <1>5
  <2> QED
    BY <2>1, <1>2 DEF Handled
<1>9. ChainInv' /\ PassInv'
  BY <1>2, <1>3 DEF LogInv, ChainInv, PassInv, Processing
<1>10. TodoInv'
  BY <1>1, <1>2, <1>3, <1>4, <1>8 DEF LogInv, TodoInv, Processing
<1>11. CursorInv'
  BY <1>2, <1>8 DEF LogInv, CursorInv
<1>12. StoredInv'
  <2> SUFFICES ASSUME NEW b \in Block, stored'[b] # "none"
               PROVE  /\ b <= longest - Confirmations
                      /\ cursor # Null => b <= cursor + ChunkBlocks
                      /\ cursor = Null => b <= pass.safeHead + Confirmations
    BY <1>2, <1>3 DEF StoredInv
  <2>1. CASE b = l.block
    BY <2>1, <1>3, <1>4, <1>6, LaneLogAssumption DEF LogInv, LogTypeOK
  <2>2. CASE b # l.block
    BY <2>2, <1>2, <1>5 DEF LogInv, StoredInv
  <2> QED
    BY <2>1, <2>2
<1> QED
  BY <1>7, <1>9, <1>10, <1>11, <1>12 DEF LogInv

\* What the verdict on a log writes is what it is owed; the verdict on another block's
\* log is not touched.
LEMMA InvVerdict ==
  ASSUME LogInv, Match \/ Foreign \/ EnterSafeMode
  PROVE  LogInv'
<1>1. /\ pass.at \in {"match", "halt"} /\ UNCHANGED <<logs, longest, cursor, log, todo, first>>
      /\ \/ pass' = [pass EXCEPT !.at = "store"]
         \/ pass' = [pass EXCEPT !.at = "halt"]
  BY DEF Match, Foreign, EnterSafeMode
<1>2. /\ log \in Log /\ log.block \in Block /\ log.block \in pass.from..pass.to
      /\ log.block \in DOMAIN logs /\ logs[log.block] = log.by
  BY <1>1 DEF LogInv, LogTypeOK, TodoInv, Processing, Log
<1>3. /\ pass'.at \in {"store", "halt"} /\ pass'.from = pass.from /\ pass'.to = pass.to
      /\ pass'.safeHead = pass.safeHead
      /\ pass' \in [at : {"idle", "fetch", "store", "match", "halt"}, from : 0..MaxBlock,
                    to : 0..MaxBlock, safeHead : 0..MaxBlock]
  <2>1. /\ pass.from \in 0..MaxBlock /\ pass.to \in 0..MaxBlock /\ pass.safeHead \in 0..MaxBlock
        /\ \E x \in {"store", "halt"} :
             pass' = [at |-> x, from |-> pass.from, to |-> pass.to, safeHead |-> pass.safeHead]
    BY <1>1 DEF LogInv, LogTypeOK
  <2> QED
    BY <2>1
<1>4. /\ \A b \in Block \ {log.block} : stored'[b] = stored[b]
      /\ stored' \in [Block -> {"none", "pending", "matched", "foreign"}]
      /\ halted \subseteq halted' /\ halted' \subseteq Block
  BY <1>2 DEF Match, Foreign, EnterSafeMode, LogInv, LogTypeOK
<1>5. /\ stored'[log.block] # "none"
      /\ pass'.at = "store" => Handled(log.block)'
      /\ pass'.at = "halt" => log.by = "other" /\ stored'[log.block] = "foreign"
  <2>1. CASE Match
    BY <2>1, <1>1, <1>2 DEF Match, Handled, LogInv, LogTypeOK
  <2>2. CASE Foreign
    BY <2>2, <1>1, <1>2 DEF Foreign, LogInv, LogTypeOK
  <2>3. CASE EnterSafeMode
    BY <2>3, <1>1, <1>2 DEF EnterSafeMode, Handled, LogInv, LogTypeOK, TodoInv, Processing
  <2> QED
    BY <2>1, <2>2, <2>3
<1>6. \A b \in Block : Handled(b) => Handled(b)'
  <2> SUFFICES ASSUME NEW b \in Block, Handled(b) PROVE Handled(b)'
    OBVIOUS
  <2>1. CASE b # log.block
    BY <2>1, <1>1, <1>4 DEF Handled
  <2>2. CASE b = log.block
    BY <2>2, <1>1, <1>2, <1>4 DEF Handled, Match, Foreign, EnterSafeMode, LogInv, LogTypeOK
  <2> QED
    BY <2>1, <2>2
<1>7. LogTypeOK'
  BY <1>1, <1>2, <1>3, <1>4 DEF LogInv, LogTypeOK
<1>8. ChainInv' /\ PassInv'
  BY <1>1, <1>3 DEF LogInv, ChainInv, PassInv, Processing
<1>9. TodoInv'
  BY <1>1, <1>2, <1>3, <1>5, <1>6 DEF LogInv, TodoInv, Processing
<1>10. CursorInv'
  BY <1>1, <1>6 DEF LogInv, CursorInv
<1>11. StoredInv'
  <2>1. /\ log.block <= pass.safeHead /\ pass.safeHead <= longest - Confirmations
        /\ cursor # Null => log.block <= cursor + ChunkBlocks
    <3>1. /\ pass.to = To(pass.from, pass.safeHead) /\ pass.from <= pass.safeHead
          /\ pass.safeHead <= longest - Confirmations
          /\ cursor # Null => pass.from = cursor + 1
          /\ cursor \in Int /\ longest \in Int
          /\ pass.from \in Int /\ pass.to \in Int /\ pass.safeHead \in Int
      BY <1>1 DEF LogInv, PassInv, LogTypeOK, Processing, Null
    <3> QED
      BY <3>1, <1>2, LaneLogAssumption DEF To, Least, Null
  <2> SUFFICES ASSUME NEW b \in Block, stored'[b] # "none"
               PROVE  /\ b <= longest - Confirmations
                      /\ cursor # Null => b <= cursor + ChunkBlocks
                      /\ cursor = Null => b <= pass.safeHead + Confirmations
    BY <1>1, <1>3 DEF StoredInv
  <2>2. CASE b = log.block
    BY <2>1, <2>2, <1>2, LaneLogAssumption DEF LogInv, LogTypeOK, Block
  <2>3. CASE b # log.block
    BY <2>3, <1>1, <1>4 DEF LogInv, StoredInv
  <2> QED
    BY <2>2, <2>3
<1> QED
  BY <1>7, <1>8, <1>9, <1>10, <1>11 DEF LogInv

\* The cursor moves to the end of a chunk whose every log is handled; the first chunk
\* reaches the head it was started for, so nothing stored before it is left far ahead.
LEMMA InvSetCursor == LogInv /\ SetCursor => LogInv'
<1> SUFFICES ASSUME LogInv, SetCursor PROVE LogInv'
  OBVIOUS
<1>1. /\ pass.at = "store" /\ todo = {} /\ UNCHANGED <<logs, longest, stored, log, todo, halted>>
      /\ cursor' = Greatest(cursor, pass.to)
      /\ first' = IF cursor = Null THEN pass.from ELSE first
  BY DEF SetCursor
<1>2. /\ pass.from \in 0..MaxBlock /\ pass.to \in 0..MaxBlock /\ pass.safeHead \in 0..MaxBlock
      /\ cursor \in Int /\ cursor >= -1 /\ cursor <= MaxBlock /\ longest \in Int
  BY LaneLogAssumption DEF LogInv, LogTypeOK, Null
<1>3. /\ pass.to = To(pass.from, pass.safeHead) /\ pass.from <= pass.safeHead
      /\ pass.safeHead <= longest - Confirmations
      /\ cursor # Null => pass.from = cursor + 1
      /\ cursor = Null => pass.safeHead - Lookback <= pass.from
  BY <1>1 DEF LogInv, PassInv, Processing
<1>4. /\ pass.from <= pass.to /\ pass.to <= pass.safeHead
      /\ cursor = Null => pass.to = pass.safeHead
  BY <1>2, <1>3, LaneLogAssumption DEF To, Least
<1>5. cursor' = pass.to /\ cursor' # Null /\ cursor' >= cursor
  BY <1>1, <1>2, <1>3, <1>4 DEF Greatest, Null
<1>6. \/ pass' = NoPass
      \/ /\ pass.to < pass.safeHead
         /\ pass' = [at |-> "fetch", from |-> pass.to + 1, to |-> pass.to,
                     safeHead |-> pass.safeHead]
  BY <1>2 DEF SetCursor, LogInv, LogTypeOK
<1>7. LogTypeOK'
  <2>1. pass' \in [at : {"idle", "fetch", "store", "match", "halt"}, from : 0..MaxBlock,
                   to : 0..MaxBlock, safeHead : 0..MaxBlock]
    BY <1>2, <1>6, LaneLogAssumption DEF NoPass
  <2>2. pass'.at \notin {"match", "halt"}
    BY <1>6 DEF NoPass
  <2>3. cursor' \in Null..MaxBlock /\ first' \in Null..MaxBlock
    BY <1>1, <1>2, <1>5 DEF LogInv, LogTypeOK, Null
  <2> QED
    BY <1>1, <2>1, <2>2, <2>3 DEF LogInv, LogTypeOK
<1>8. ChainInv'
  BY <1>1 DEF LogInv, ChainInv
<1>9. PassInv'
  BY <1>1, <1>2, <1>3, <1>4, <1>5, <1>6 DEF PassInv, Processing, NoPass
<1>10. TodoInv'
  BY <1>6 DEF TodoInv, Processing, NoPass
<1>11. CursorInv'
  <2>1. \A b \in pass.from..pass.to : b \in Block => Handled(b)
    BY <1>1 DEF LogInv, TodoInv, Processing
  <2>2. \A b \in Block : Handled(b) => Handled(b)'
    BY <1>1 DEF Handled
  <2>3. ASSUME NEW b \in Block, first' <= b, b <= cursor'
        PROVE  Handled(b)
    <3>1. CASE cursor = Null
      BY <3>1, <2>1, <2>3, <1>1, <1>2, <1>5 DEF Block
    <3>2. CASE cursor # Null /\ b <= cursor
      BY <3>2, <2>3, <1>1 DEF LogInv, CursorInv
    <3>3. CASE cursor # Null /\ b > cursor
      BY <3>3, <2>1, <2>3, <1>2, <1>3, <1>5 DEF Block
    <3> QED
      BY <3>1, <3>2, <3>3, <1>2 DEF Block
  <2>4. cursor' <= longest' - Confirmations
    BY <1>1, <1>2, <1>3, <1>4, <1>5, LaneLogAssumption
  <2> QED
    BY <2>2, <2>3, <2>4 DEF CursorInv
<1>12. StoredInv'
  <2> SUFFICES ASSUME NEW b \in Block, stored[b] # "none"
               PROVE  b <= longest - Confirmations /\ b <= cursor' + ChunkBlocks
    BY <1>1, <1>5 DEF StoredInv
  <2>1. /\ b <= longest - Confirmations
        /\ cursor # Null => b <= cursor + ChunkBlocks
        /\ cursor = Null => b <= pass.safeHead + Confirmations
    BY <1>1 DEF LogInv, StoredInv
  <2> QED
    BY <2>1, <1>2, <1>4, <1>5, LaneLogAssumption DEF Block
<1> QED
  BY <1>7, <1>8, <1>9, <1>10, <1>11, <1>12 DEF LogInv

\* What lies behind the confirmations of a chain does so of a longer one.
LEMMA StaysBehind ==
  ASSUME NEW x \in Int, NEW a \in Int, NEW b \in Int, NEW c \in Int, x <= a - c, a <= b
  PROVE  x <= b - c
OBVIOUS

\* The chain changes only beyond what any pass reads.
LEMMA InvChain ==
  ASSUME LogInv, Mine \/ Reorg
  PROVE  LogInv'
<1>1. UNCHANGED <<stored, cursor, pass, log, todo, first, halted>>
  BY DEF Mine, Reorg, passVars
<1>2. /\ logs \in Seq({"nobody", "us", "other"}) /\ Len(logs) \in Nat /\ longest \in Nat
      /\ Len(logs) <= longest /\ longest <= MaxBlock /\ Len(logs) >= longest - MaxReorg
      /\ DOMAIN logs = 1..Len(logs)
  BY LaneLogAssumption DEF LogInv, LogTypeOK, ChainInv
<1>3. /\ logs' \in Seq({"nobody", "us", "other"})
      /\ longest' \in 0..MaxBlock /\ longest' >= longest
      /\ Len(logs') <= longest' /\ Len(logs') >= longest' - MaxReorg
      /\ \A b \in DOMAIN logs : b <= longest - Confirmations =>
           b \in DOMAIN logs' /\ logs'[b] = logs[b]
  <2>1. CASE Mine
    <3>1. PICK who \in {"nobody", "us", "other"} : logs' = Append(logs, who)
      BY <2>1 DEF Mine
    <3>2. /\ Len(logs) < MaxBlock /\ longest' = Greatest(longest, Len(logs'))
      BY <2>1 DEF Mine
    <3>3. /\ logs' \in Seq({"nobody", "us", "other"}) /\ Len(logs') = Len(logs) + 1
          /\ DOMAIN logs' = 1..Len(logs')
          /\ \A b \in DOMAIN logs : b \in DOMAIN logs' /\ logs'[b] = logs[b]
      BY <3>1, <1>2
    <3> QED
      BY <3>2, <3>3, <1>2, LaneLogAssumption DEF Greatest
  <2>2. CASE Reorg
    <3>1. /\ logs' = SubSeq(logs, 1, Len(logs) - 1) /\ longest' = longest
          /\ Len(logs) > 0 /\ Len(logs) > longest - MaxReorg
      BY <2>2 DEF Reorg
    <3>2. /\ logs' \in Seq({"nobody", "us", "other"}) /\ Len(logs') = Len(logs) - 1
          /\ DOMAIN logs' = 1..(Len(logs) - 1)
          /\ \A b \in 1..(Len(logs) - 1) : logs'[b] = logs[b]
      BY <3>1, <1>2
    <3> QED
      BY <3>1, <3>2, <1>2, LaneLogAssumption
  <2> QED
    BY <2>1, <2>2
<1>4. \A b \in Block : Handled(b) /\ b <= longest - Confirmations => Handled(b)'
  BY <1>1, <1>3 DEF Handled
<1>4a. /\ longest \in Int /\ longest' \in Int /\ longest <= longest' /\ Confirmations \in Int
  <2>1. longest' \in 0..MaxBlock /\ longest' >= longest
    BY <1>3
  <2> QED
    BY <2>1, <1>2, LaneLogAssumption
<1>5. LogTypeOK'
  BY <1>1, <1>3 DEF LogInv, LogTypeOK
<1>6. ChainInv'
  BY <1>3 DEF ChainInv
<1>7. pass.at # "idle" => pass.safeHead <= longest - Confirmations
  BY DEF LogInv, PassInv
<1>8. PassInv'
  BY <1>1, <1>2, <1>3, <1>7, LaneLogAssumption, SMTT(30) DEF LogInv, LogTypeOK, PassInv, Processing
<1>9. TodoInv'
  <2> SUFFICES ASSUME Processing PROVE TodoInv'
    BY <1>1 DEF TodoInv, Processing
  <2>1. \A b \in pass.from..pass.to : b <= longest - Confirmations
    <3>1. /\ pass.to = To(pass.from, pass.safeHead) /\ pass.safeHead <= longest - Confirmations
          /\ pass.from \in Int /\ pass.safeHead \in Int /\ pass.to \in Int
      BY DEF LogInv, LogTypeOK, PassInv, Processing
    <3> QED
      BY <3>1, <1>2, LaneLogAssumption DEF To, Least
  <2> QED
    BY <1>1, <1>3, <1>4, <2>1 DEF LogInv, TodoInv, Processing
<1>10. CursorInv'
  <2>1. cursor # Null => \A b \in Block : b <= cursor => b <= longest - Confirmations
    BY <1>2, LaneLogAssumption DEF LogInv, CursorInv, LogTypeOK, Block, Null
  <2>2. cursor # Null => cursor <= longest' - Confirmations
    <3>1. cursor \in Int /\ (cursor # Null => cursor <= longest - Confirmations)
      BY DEF LogInv, LogTypeOK, CursorInv, Null
    <3> QED
      BY <3>1, <1>4a, StaysBehind
  <2> QED
    BY <1>1, <1>4, <2>1, <2>2 DEF LogInv, CursorInv
<1>11. StoredInv'
  <2>1. \A b \in Block : b <= longest - Confirmations => b <= longest' - Confirmations
    <3>1. \A b \in Block : b \in Int
      BY LaneLogAssumption DEF Block
    <3> QED
      BY <3>1, <1>4a, StaysBehind
  <2>2. StoredInv
    BY DEF LogInv
  <2> QED
    BY <1>1, <2>1, <2>2 DEF StoredInv
<1> QED
  BY <1>5, <1>6, <1>8, <1>9, <1>10, <1>11 DEF LogInv

\* The invariant holds in every state of every behaviour.
LEMMA InvHolds == LogSpec => []LogInv
<1>1. LogInv /\ [LogNext]_logVars => LogInv'
  <2> SUFFICES ASSUME LogInv, [LogNext]_logVars PROVE LogInv'
    OBVIOUS
  <2>1. CASE UNCHANGED logVars
    BY <2>1 DEF logVars, passVars, LogInv, LogTypeOK, ChainInv, PassInv, TodoInv, CursorInv,
                StoredInv, Handled, Processing
  <2>2. CASE LogNext
    BY <2>2, InvStartPass, InvGetLogs, InvGivenUp, InvStore, InvVerdict, InvSetCursor, InvChain
       DEF LogNext
  <2> QED
    BY <2>1, <2>2
<1> QED
  BY <1>1, InvInit, PTL DEF LogSpec

\* Nothing the lane did between the first block read and the cursor was passed over, on
\* every chain (lane-actions.ts, run and processLog).
THEOREM NothingIsSkipped == LogSpec => []CursorTrails
BY InvHolds, InvTrails, PTL

\* The reader's variables keep their types.
THEOREM ReaderIsTyped == LogSpec => []LogTypeOK
<1>1. LogInv => LogTypeOK
  BY DEF LogInv
<1> QED
  BY <1>1, InvHolds, PTL
=============================================================================
