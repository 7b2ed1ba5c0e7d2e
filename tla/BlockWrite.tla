----------------------------- MODULE BlockWrite -----------------------------
(***************************************************************************)
(* The BlockWrite job: cmd/btcq-indexer/blockwriter.go on top of           *)
(* timeseries.ProcessBlock, record.ProcessBlock and the two inserters of   *)
(* internal/db/inserter.go.  It takes the blocks from the channel, records *)
(* their events and commits them to block_log, in one transaction per      *)
(* block (ImmediateInserter) or per batch of blocks (BatchInserter).       *)
(*                                                                         *)
(* Abstractions.  Every block carries one rewards event with one pool, and  *)
(* rewards are the only events that move a pool depth.  The depths are the  *)
(* set of the heights whose rewards they include.  A row of block_log       *)
(* stands for all the rows of its block: `agg` is its agg_state column,     *)
(* meaningful when `saved`, and `rewards` says that the rows of the block's *)
(* rewards event are there.                                                 *)
(***************************************************************************)
EXTENDS BlockFetch

CONSTANTS
  CommitBatchSize,  \* config TimeScale.CommitBatchSize
  HardForkHeight,   \* of the current chain, 0 when none is planned
  PoisonBlocks,     \* blocks with some event row that the database schema rejects
  PoisonRewards     \* those of them whose rejected row is of the rewards event

VARIABLES
  wpc,        \* where blockWriter.loop is
  cur,        \* the block in hand
  synced,     \* `synced` of the block being written
  pending,    \* BatchInserter.batches: the rows not yet flushed
  depths,     \* record.Recorder's running totals
  inserter,   \* "batch" or "immediate"
  LastCommittedBlock, FirstBlock,  \* published heights, 0 when unset
  refreshRequest,  \* the refreshRequests channel (capacity 1) is full
  refreshedTo,     \* LastCommittedBlock as the last aggregates refresh read it
  block_log,  \* the table, a set of rows
  marked      \* the constants table has batch_inserter_failed

dbVars == <<block_log, marked>>
loopVars == <<wpc, cur, synced, pending, depths>>
publishedVars == <<LastCommittedBlock, FirstBlock, refreshRequest, refreshedTo>>
writeVars == <<loopVars, publishedVars, inserter, dbVars>>
vars == <<proc, faults, nodeVars, blocks, fetchVars, writeVars>>

Rows == [height: Nat, saved: BOOLEAN, agg: SUBSET Nat, rewards: BOOLEAN]
Heights(rows) == {r.height : r \in rows}
RowSet(s) == {s[i] : i \in 1..Len(s)}

(* SELECT ... FROM block_log ORDER BY height DESC LIMIT 1 *)
LastRow(log) == CHOOSE r \in log : \A s \in log : s.height <= r.height
LastHeight(log) == IF log = {} THEN 0 ELSE LastRow(log).height

-----------------------------------------------------------------------------
(* The process ends, on log.Fatal, a kill or a finished shutdown: all that *)
(* is in memory is gone, the database stays.                               *)
LoseMemory ==
  /\ proc' = "down"
  /\ blocks' = << >>
  /\ fpc' = "done"
  /\ DropIterator
  /\ nextHeightToFetch' = 0 /\ failedThorNodeFetchHeight' = -1
  /\ previousHeight' = 0 /\ errorCount' = 0
  /\ LastThorNodeBlock' = 0 /\ LastFetchedBlock' = 0
  /\ wpc' = "done" /\ cur' = 0 /\ synced' = FALSE
  /\ pending' = << >> /\ depths' = {} /\ inserter' = "batch"
  /\ LastCommittedBlock' = 0 /\ FirstBlock' = 0
  /\ refreshRequest' = FALSE /\ refreshedTo' = 0

-----------------------------------------------------------------------------
AtFork(h) == HardForkHeight # 0 /\ HardForkHeight <= h

(* Mutant: the fork is only checked after a block. *)
TakeAnyBlock ==
  /\ proc # "down" /\ wpc = "select"
  /\ blocks # << >>
  /\ blocks' = Tail(blocks)
  /\ wpc' = "process" /\ cur' = Head(blocks)
  /\ UNCHANGED <<proc, faults, nodeVars, fetchVars, synced, pending, depths, inserter,
                 publishedVars, dbVars>>

(* The writer receives a block; one beyond the fork is never written. *)
TakeBlock ==
  /\ proc # "down" /\ wpc = "select"
  /\ blocks # << >>
  /\ blocks' = Tail(blocks)
  /\ IF HardForkHeight # 0 /\ HardForkHeight < Head(blocks)
       THEN wpc' = "forkwait" /\ cur' = 0
       ELSE wpc' = "process" /\ cur' = Head(blocks)
  /\ UNCHANGED <<proc, faults, nodeVars, fetchVars, synced, pending, depths, inserter,
                 publishedVars, dbVars>>

(* The end of the loop's body, and the check of the context at its head. *)
AfterBlock(h) ==
  IF AtFork(h) THEN "forkwait" ELSE IF proc = "stopping" THEN "done" ELSE "select"

BlockDone == wpc' = AfterBlock(cur) /\ cur' = 0 /\ synced' = FALSE

(* Mutant: an unset FirstBlock is not thought of. *)
ThisIsTheKnownFirstBlock == cur <= FirstBlock

ThisIsTheFirstBlock == FirstBlock = 0 \/ cur <= FirstBlock

(* Mutant: the comparison with the node's height is off by two. *)
IsPastTip == LastThorNodeBlock < cur

(* blockwriter.go: `synced` and `commit`. *)
IsSynced == LastThorNodeBlock <= cur + 1
Commit ==
  \/ inserter = "immediate"
  \/ IsSynced
  \/ cur % CommitBatchSize = 0
  \/ cur = HardForkHeight

(* The block_log row of the block in hand: agg_state is stored with the *)
(* blocks after which ProcessBlock flushes, and is empty on the others. *)
SavesState == Commit \/ ThisIsTheFirstBlock

(* Mutant: the state is serialised only for `commit`, the flush kept for both. *)
BlockRowOnCommit(newDepths, rewardsIn) ==
  [height |-> cur, saved |-> Commit,
   agg |-> IF Commit THEN newDepths ELSE {}, rewards |-> rewardsIn]

BlockRow(newDepths, rewardsIn) ==
  [height |-> cur, saved |-> SavesState,
   agg |-> IF SavesState THEN newDepths ELSE {}, rewards |-> rewardsIn]

(* OnRewards: the depths change only after every row was accepted. *)
RewardsAccepted == inserter = "batch" \/ cur \notin PoisonRewards
(* Mutant: the depths are changed before the rows are accepted. *)
DepthsWhateverHappens == depths \cup {cur}

DepthsAfter == IF RewardsAccepted THEN depths \cup {cur} ELSE depths

(* ProcessBlock over the BatchInserter, which takes any row. *)
ProcessBatched ==
  /\ wpc = "process" /\ inserter = "batch"
  /\ depths' = DepthsAfter
  /\ pending' = Append(pending, BlockRow(DepthsAfter, RewardsAccepted))
  /\ IF SavesState
       THEN wpc' = "flush" /\ synced' = IsSynced /\ UNCHANGED cur
       ELSE BlockDone
  /\ UNCHANGED <<proc, faults, nodeVars, blocks, fetchVars, inserter, publishedVars, dbVars>>

(* ProcessBlock over the ImmediateInserter: rejected rows are rolled back to *)
(* the savepoint one by one, EndBlock commits the block.                     *)
ProcessImmediate ==
  LET row == BlockRow(DepthsAfter, RewardsAccepted)
  IN /\ wpc = "process" /\ inserter = "immediate"
     /\ cur \notin Heights(block_log)
     /\ depths' = DepthsAfter
     /\ block_log' = block_log \cup {row}
     /\ synced' = IsSynced
     /\ wpc' = "publish"
     /\ UNCHANGED <<proc, faults, nodeVars, blocks, fetchVars, cur, pending, inserter,
                    publishedVars, marked>>

(* The transaction of the block fails: BEGIN, the block_log row or COMMIT   *)
(* (which the server may have done).  The writer gives up and shuts down.   *)
ImmediateFails ==
  LET row == BlockRow(DepthsAfter, RewardsAccepted)
  IN /\ wpc = "process" /\ inserter = "immediate"
     /\ IF cur \in Heights(block_log)
          THEN UNCHANGED <<faults, block_log>>
          ELSE Fault /\ block_log' \in {block_log, block_log \cup {row}}
     /\ depths' \in {depths, DepthsAfter}
     /\ wpc' = "done"
     /\ proc' = "stopping"
     /\ UNCHANGED <<nodeVars, blocks, fetchVars, cur, synced, pending, inserter,
                    publishedVars, marked>>

(* The database takes the pending rows: the schema accepts each of them and *)
(* no height is stored twice.                                               *)
FlushAccepted ==
  /\ Heights(RowSet(pending)) \cap (PoisonBlocks \cup Heights(block_log)) = {}
  /\ \A i, j \in 1..Len(pending) : pending[i].height = pending[j].height => i = j

(* BatchInserter.Flush: one transaction for all the pending rows. *)
Flush ==
  /\ wpc = "flush"
  /\ FlushAccepted
  /\ block_log' = block_log \cup RowSet(pending)
  /\ pending' = << >>
  /\ wpc' = "publish"
  /\ UNCHANGED <<proc, faults, nodeVars, blocks, fetchVars, cur, synced, depths, inserter,
                 publishedVars, marked>>

(* Mutant: the failure is not recorded before the process exits. *)
FlushRejectedUnmarked ==
  /\ wpc = "flush"
  /\ ~FlushAccepted
  /\ LoseMemory
  /\ UNCHANGED <<faults, nodeVars, dbVars>>

(* The database rejects a row: rollback, MarkBatchInserterFail, log.Fatal. *)
FlushRejected ==
  /\ wpc = "flush"
  /\ ~FlushAccepted
  /\ marked' = TRUE
  /\ LoseMemory
  /\ UNCHANGED <<faults, nodeVars, block_log>>

(* The connection breaks during Flush.  The transaction may be committed or *)
(* not, the mark stored or not (an error of it is only logged, and a failed *)
(* BEGIN exits without it); the process ends in any case.                   *)
FlushBreaks ==
  /\ wpc = "flush"
  /\ Fault
  /\ block_log' \in {block_log} \cup
       (IF FlushAccepted THEN {block_log \cup RowSet(pending)} ELSE {})
  /\ marked' \in {marked, TRUE}
  /\ LoseMemory
  /\ UNCHANGED nodeVars

(* After Flush, three writes that other goroutines see one by one. *)
SetLastBlock ==
  /\ wpc = "publish"
  /\ LastCommittedBlock' = cur
  /\ wpc' = "first"
  /\ UNCHANGED <<proc, faults, nodeVars, blocks, fetchVars, cur, synced, pending, depths,
                 inserter, FirstBlock, refreshRequest, refreshedTo, dbVars>>

SetAndCheckFirstBlock ==
  /\ wpc = "first"
  /\ FirstBlock' = IF ThisIsTheFirstBlock THEN cur ELSE FirstBlock
  /\ wpc' = "request"
  /\ UNCHANGED <<proc, faults, nodeVars, blocks, fetchVars, cur, synced, pending, depths,
                 inserter, LastCommittedBlock, refreshRequest, refreshedTo, dbVars>>

(* Mutant: the refresh is requested after full batches only. *)
RequestAfterFullBatch ==
  /\ wpc = "request"
  /\ refreshRequest' = (refreshRequest \/ (synced /\ cur % CommitBatchSize = 0))
  /\ BlockDone
  /\ UNCHANGED <<proc, faults, nodeVars, blocks, fetchVars, pending, depths, inserter,
                 LastCommittedBlock, FirstBlock, refreshedTo, dbVars>>

(* A full channel already holds a request: the new one is dropped. *)
RequestAggregatesRefresh ==
  /\ wpc = "request"
  /\ refreshRequest' = (refreshRequest \/ synced)
  /\ BlockDone
  /\ UNCHANGED <<proc, faults, nodeVars, blocks, fetchVars, pending, depths, inserter,
                 LastCommittedBlock, FirstBlock, refreshedTo, dbVars>>

(* waitAtForkAndExit: ten minutes at the fork, then the process is shut down. *)
(* Before the loop (wpc = "startfork") the writer goes on into the loop.      *)
ForkTimeout ==
  /\ proc = "up" /\ wpc \in {"startfork", "forkwait"}
  /\ proc' = "stopping"
  /\ wpc' = IF wpc = "startfork" THEN "select" ELSE "done"
  /\ UNCHANGED <<faults, nodeVars, blocks, fetchVars, cur, synced, pending, depths, inserter,
                 publishedVars, dbVars>>

(* The context is cancelled while the writer waits for a block or at the fork. *)
WriterStops ==
  /\ proc = "stopping" /\ wpc \in {"select", "startfork", "forkwait"}
  /\ wpc' = "done"
  /\ UNCHANGED <<proc, faults, nodeVars, blocks, fetchVars, cur, synced, pending, depths,
                 inserter, publishedVars, dbVars>>

WriteStep ==
  \/ TakeBlock
  \/ ProcessBatched
  \/ ProcessImmediate
  \/ ImmediateFails
  \/ Flush
  \/ FlushRejected
  \/ FlushBreaks
  \/ SetLastBlock
  \/ SetAndCheckFirstBlock
  \/ RequestAggregatesRefresh
  \/ ForkTimeout
  \/ WriterStops

(* The AggregatesRefresh job takes the request and refreshAggregates reads *)
(* LastCommittedBlock; the rest of it is not here.  A cancelled context     *)
(* competes with the request in the job's select.                          *)
TakeRefreshRequest ==
  /\ proc # "down"
  /\ refreshRequest
  /\ refreshRequest' = FALSE
  /\ refreshedTo' = LastCommittedBlock
  /\ UNCHANGED <<proc, faults, nodeVars, blocks, fetchVars, loopVars, LastCommittedBlock,
                 FirstBlock, inserter, dbVars>>

(* The same without a request, when none came for a while. *)
RefreshAtInterval ==
  /\ proc # "down"
  /\ refreshedTo' = LastCommittedBlock
  /\ UNCHANGED <<proc, faults, nodeVars, blocks, fetchVars, loopVars, LastCommittedBlock,
                 FirstBlock, refreshRequest, inserter, dbVars>>

-----------------------------------------------------------------------------
WriteTypeOK ==
  /\ wpc \in {"startfork", "select", "process", "flush", "publish", "first", "request",
            "forkwait", "done"}
  /\ cur \in Nat /\ synced \in BOOLEAN
  /\ pending \in Seq(Rows)
  /\ depths \in SUBSET Nat
  /\ inserter \in {"batch", "immediate"}
  /\ LastCommittedBlock \in Nat /\ FirstBlock \in Nat
  /\ refreshRequest \in BOOLEAN /\ refreshedTo \in Nat
  /\ block_log \in SUBSET Rows
  /\ marked \in BOOLEAN
=============================================================================
