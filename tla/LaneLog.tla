------------------------------ MODULE LaneLog ------------------------------
(***************************************************************************)
(* How the agent learns what was done on a lane: every reconcile pass      *)
(* reads the lane's LaneAction logs behind the head in chunks, stores      *)
(* each, matches it to an execution or declares it foreign and halts the   *)
(* desk, and only then moves its cursor (reconcile/lane-actions.ts).       *)
(*                                                                         *)
(* Each call goes to whichever of the RPC nodes answers, and they are not  *)
(* at the same block; the chain may drop its last blocks. Every write is   *)
(* a commit of its own: the process may die between two of them. What a    *)
(* match does to its execution is LaneAction in DeskExecutor.              *)
(***************************************************************************)
EXTENDS Integers, Sequences

CONSTANTS
  Confirmations,  \* blocks behind the latest one that are read no further
  ChunkBlocks,    \* blocks per eth_getLogs
  Lookback,       \* how far back the first pass starts
  MaxLag,         \* a node that answers is at most this far behind the chain
  MaxReorg,       \* as many blocks at the end of the chain may be dropped
  MaxBlock        \* bound on the chain's length

\* The confirmations are there for nodes that lag and blocks that are dropped; a chunk is
\* far longer than they and the first look back are.
ASSUME LaneLogAssumption ==
  /\ Confirmations \in Nat /\ Lookback \in Nat /\ ChunkBlocks \in Nat
  /\ MaxLag \in Nat /\ MaxReorg \in Nat /\ MaxBlock \in Nat
  /\ MaxLag + MaxReorg <= Confirmations
  /\ Confirmations <= ChunkBlocks /\ Lookback < ChunkBlocks

VARIABLES
  logs,    \* the chain: per block who acted on the lane in it, "nobody", "us", "other"
  longest, \* the highest block there has been
  stored,  \* lane_actions, by block: "none", "pending", "matched", "foreign"
  cursor,  \* sync_cursors
  pass,    \* the pass that runs: what it waits for, the chunk, the last block it reads
  log,     \* the log processLog works on
  todo,    \* of the chunk's logs, those it has still to see
  first,   \* history: where the first chunk began
  halted   \* history: the blocks whose action halted the desk

passVars == <<pass, log, todo>>
logVars  == <<logs, longest, stored, cursor, passVars, first, halted>>

Null   == -1
Block  == 1..MaxBlock
Log    == [block : Block, by : {"us", "other"}]
NoLog  == [block |-> 0, by |-> "us"]
NoPass == [at |-> "idle", from |-> 0, to |-> 0, safeHead |-> 0]

LogTypeOK ==
  /\ logs \in Seq({"nobody", "us", "other"}) 
  /\ longest \in 0..MaxBlock /\ Len(logs) <= longest
  /\ stored \in [Block -> {"none", "pending", "matched", "foreign"}]
  /\ cursor \in Null..MaxBlock /\ first \in Null..MaxBlock /\ halted \subseteq Block
  /\ pass \in [at : {"idle", "fetch", "store", "match", "halt"}, from : 0..MaxBlock,
               to : 0..MaxBlock, safeHead : 0..MaxBlock]
  /\ log \in Log \cup {NoLog} /\ todo \subseteq Log
  /\ pass.at \in {"match", "halt"} => log \in Log

LogInit ==
  /\ logs = <<>> /\ longest = 0
  /\ stored = [b \in Block |-> "none"] /\ cursor = Null
  /\ pass = NoPass /\ log = NoLog /\ todo = {} /\ first = Null /\ halted = {}

Least(a, b)    == IF a <= b THEN a ELSE b
Greatest(a, b) == IF a <= b THEN b ELSE a

\* The heads the answering node may be at.
NodeHead == {h \in 0..Len(logs) : h >= Len(logs) - MaxLag}

SafeHeadAtTip(latest) == latest  \* MUTANT of SafeHead
SafeHead(latest) == latest - Confirmations

From(safe) ==
  IF cursor = Null THEN Greatest(safe - Lookback, 0) ELSE cursor + 1

To(from, safe) == Least(from + ChunkBlocks - 1, safe)

\* Once the lane's turn comes in a pass.
StartPass ==
  /\ pass.at = "idle"
  /\ \E latest \in NodeHead :
       LET safe == SafeHead(latest) IN
       /\ safe >= 0 /\ From(safe) <= safe
       /\ pass' = [at |-> "fetch", from |-> From(safe), to |-> 0, safeHead |-> safe]
  /\ UNCHANGED <<logs, longest, stored, cursor, log, todo, first, halted>>

GetLogs ==
  /\ pass.at = "fetch"
  /\ \E head \in NodeHead :
       LET to == To(pass.from, pass.safeHead)
       IN  /\ pass' = [pass EXCEPT !.at = "store", !.to = to]
           /\ todo' = {[block |-> b, by |-> logs[b]] :
                         b \in {c \in pass.from..Least(to, head) :
                                  c \in DOMAIN logs /\ logs[c] # "nobody"}}
  /\ UNCHANGED <<logs, longest, stored, cursor, log, first, halted>>

\* A rejected call ends the pass.
GetLogsFails ==
  /\ pass.at = "fetch" /\ pass' = NoPass
  /\ UNCHANGED <<logs, longest, stored, cursor, log, todo, first, halted>>

\* processLog, for the logs in their order on the chain.
Store ==
  /\ pass.at = "store"
  /\ \E l \in todo :
       /\ \A m \in todo : l.block <= m.block
       /\ log' = l /\ todo' = todo \ {l}
       /\ stored' = [stored EXCEPT ![l.block] = IF @ = "none" THEN "pending" ELSE @]
  /\ pass' = [pass EXCEPT !.at = "match"]
  /\ UNCHANGED <<logs, longest, cursor, first, halted>>

\* An action by us carries the id of an execution that was stored before it was sent.
Match ==
  /\ pass.at = "match" /\ log.by = "us"
  /\ stored' = [stored EXCEPT ![log.block] = "matched"]
  /\ pass' = [pass EXCEPT !.at = "store"]
  /\ UNCHANGED <<logs, longest, cursor, log, todo, first, halted>>

Foreign ==
  /\ pass.at = "match" /\ log.by = "other"
  /\ stored' = [stored EXCEPT ![log.block] = "foreign"]
  /\ pass' = [pass EXCEPT !.at = "halt"]
  /\ UNCHANGED <<logs, longest, cursor, log, todo, first, halted>>

EnterSafeMode ==
  /\ pass.at = "halt"
  /\ halted' = halted \cup {log.block}
  /\ pass' = [pass EXCEPT !.at = "store"]
  /\ UNCHANGED <<logs, longest, stored, cursor, log, todo, first>>

SetCursor ==
  /\ pass.at = "store" /\ todo = {}
  /\ cursor' = Greatest(cursor, pass.to)
  /\ first' = IF cursor = Null THEN pass.from ELSE first
  /\ pass' = IF pass.to < pass.safeHead
               THEN [pass EXCEPT !.at = "fetch", !.from = pass.to + 1] ELSE NoPass
  /\ UNCHANGED <<logs, longest, stored, log, todo, halted>>

ReaderDies ==
  /\ pass.at # "idle" /\ pass' = NoPass /\ log' = NoLog /\ todo' = {}
  /\ UNCHANGED <<logs, longest, stored, cursor, first, halted>>

\* The chain.
Mine ==
  /\ Len(logs) < MaxBlock
  /\ \E who \in {"nobody", "us", "other"} : logs' = Append(logs, who)
  /\ longest' = Greatest(longest, Len(logs'))
  /\ UNCHANGED <<stored, cursor, passVars, first, halted>>

Reorg ==
  /\ Len(logs) > 0 /\ Len(logs) > longest - MaxReorg
  /\ logs' = SubSeq(logs, 1, Len(logs) - 1)
  /\ UNCHANGED <<longest, stored, cursor, passVars, first, halted>>

LogNext ==
  \/ StartPass \/ GetLogs \/ GetLogsFails \/ Store \/ Match \/ Foreign \/ EnterSafeMode
  \/ SetCursor \/ ReaderDies \/ Mine \/ Reorg

LogSpec == LogInit /\ [][LogNext]_logVars

----------------------------------------------------------------------------
\* Every action on the lane between the first block read and the cursor is stored and
\* matched, and a foreign one has halted the desk, whichever nodes answered and wherever
\* the process died; what is stored beyond the cursor lies within one chunk of it
\* (lane-actions.ts: the cursor only advances past a chunk once every log in it is
\* stored, so a crash replays at most one chunk).
CursorTrails ==
  cursor # Null =>
    /\ \A b \in Block : first <= b /\ b <= cursor =>
         /\ b \in DOMAIN logs
         /\ logs[b] = "us" => stored[b] = "matched"
         /\ logs[b] = "other" => stored[b] = "foreign" /\ b \in halted
    /\ \A b \in Block : stored[b] # "none" => b <= cursor + ChunkBlocks
=============================================================================
