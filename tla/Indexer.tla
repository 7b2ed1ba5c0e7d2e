------------------------------ MODULE Indexer -------------------------------
(***************************************************************************)
(* The block pipeline of the btcq-indexer process: the node, the BlockFetch *)
(* and BlockWrite jobs, the database, and the life of the process itself    *)
(* (cmd/btcq-indexer/main.go, timeseries.Setup, internal/util/jobs), which  *)
(* its supervisor (docker-compose.yml: restart unless-stopped) starts again *)
(* whenever it has ended.                                                   *)
(***************************************************************************)
EXTENDS BlockWrite

CONSTANT
  EarliestIsRoot  \* the node still has the first block of the root chain

ASSUME ParametersAssumption ==
  /\ MaxHeight \in Nat \ {0}
  /\ FetchBatchSize \in Nat \ {0}
  /\ CommitBatchSize \in Nat \ {0}
  /\ MaxErrorCount \in Nat
  /\ StoreHeight \in Nat
  /\ MaxFaults \in Nat
  /\ HardForkHeight \in Nat
  /\ CheckBlockStoreBlocks \in BOOLEAN
  /\ EarliestIsRoot \in BOOLEAN
  /\ PoisonRewards \subseteq PoisonBlocks

Init ==
  /\ nodeHeight \in 1..MaxHeight
  /\ ready \in {nodeHeight - 1, nodeHeight}
  /\ faults = 0
  /\ proc = "down" /\ blocks = << >> /\ fpc = "done"
  /\ finalHeight = 0 /\ itHeight = 0 /\ source = "chain" /\ nextBatchStart = 0
  /\ batch = << >> /\ fetched = 0
  /\ nextHeightToFetch = 0 /\ failedThorNodeFetchHeight = -1
  /\ previousHeight = 0 /\ errorCount = 0
  /\ LastThorNodeBlock = 0 /\ LastFetchedBlock = 0
  /\ wpc = "done" /\ cur = 0 /\ synced = FALSE
  /\ pending = << >> /\ depths = {} /\ inserter = "batch"
  /\ LastCommittedBlock = 0 /\ FirstBlock = 0
  /\ refreshRequest = FALSE /\ refreshedTo = 0
  /\ block_log = {} /\ marked = FALSE

(* timeseries.Setup: the newest row must hold an aggregation state. *)
Restorable == block_log # {} => LastRow(block_log).saved

(* The process starts: the database is read back, the node's status gives   *)
(* LastThorNodeBlock, the first block is known from the node or the database, *)
(* and the jobs begin after the newest stored block.                        *)
StartProcess ==
  LET top == LastHeight(block_log)
  IN /\ proc = "down"
     /\ Restorable
     /\ proc' = "up"
     /\ inserter' = IF marked THEN "immediate" ELSE "batch"
     /\ depths' = IF block_log = {} THEN {} ELSE LastRow(block_log).agg
     /\ LastCommittedBlock' = top
     /\ FirstBlock' = IF EarliestIsRoot \/ block_log # {} THEN 1 ELSE 0
     /\ LastThorNodeBlock' = nodeHeight
     /\ nextHeightToFetch' = top + 1
     /\ fpc' = "catchup"
     /\ wpc' = IF AtFork(top) THEN "startfork" ELSE "select"
     /\ UNCHANGED <<faults, nodeVars, blocks, failedThorNodeFetchHeight, previousHeight,
                    errorCount, iterVars, LastFetchedBlock, cur, synced, pending,
                    refreshRequest, refreshedTo, dbVars>>

(* ShutdownWait found both jobs finished: LogSignalAndStop. *)
EndProcess ==
  /\ proc = "stopping" /\ fpc = "done" /\ wpc = "done"
  /\ LoseMemory
  /\ UNCHANGED <<faults, nodeVars, dbVars>>

(* SIGINT or SIGTERM: the main context is cancelled. *)
Interrupt ==
  /\ proc = "up"
  /\ Fault
  /\ proc' = "stopping"
  /\ UNCHANGED <<nodeVars, blocks, fetchVars, writeVars>>

(* The process is killed, panics, or its shutdown timeout elapses. *)
Crash ==
  /\ proc # "down"
  /\ Fault
  /\ LoseMemory
  /\ UNCHANGED <<nodeVars, dbVars>>

Fetch == FetchStep /\ UNCHANGED writeVars

Next ==
  \/ NodeAdvance /\ UNCHANGED writeVars
  \/ NodeResultsReady /\ UNCHANGED writeVars
  \/ Fetch
  \/ WriteStep
  \/ TakeRefreshRequest
  \/ RefreshAtInterval
  \/ StartProcess
  \/ EndProcess
  \/ Interrupt
  \/ Crash

Spec == Init /\ [][Next]_vars

(* The Go scheduler runs every job that can go on, the supervisor restarts   *)
(* the process, and the node serves a reported block's results sooner or     *)
(* later.  Nothing is assumed of new blocks, and faults are never required.  *)
Fairness ==
  /\ WF_vars(NodeResultsReady /\ UNCHANGED writeVars)
  /\ WF_vars(Fetch)
  /\ WF_vars(WriteStep)
  /\ WF_vars(StartProcess)
  /\ WF_vars(EndProcess)

FairSpec == Spec /\ Fairness

-----------------------------------------------------------------------------
(* Every variable has its type, and the channel and the error count keep to *)
(* their limits.                                                            *)
TypeOK == FetchTypeOK /\ WriteTypeOK

-----------------------------------------------------------------------------
(* Safety. *)

(* The blocks between the database and the fetcher: those waiting for a *)
(* flush, the one being processed and those in the channel.             *)
InFlight ==
  [i \in 1..Len(pending) |-> pending[i].height]
    \o (IF wpc = "process" THEN <<cur>> ELSE << >>)
    \o blocks

(* However the fetcher's retries, its switch from the block store to the     *)
(* chain, failed batches, the flushes and restarts fall together, the        *)
(* blocks in flight are exactly those from the newest stored one to the one  *)
(* fetched next, in order.  A writer that has stopped keeps nothing.         *)
PipelineInOrder ==
  /\ proc # "down" /\ wpc \notin {"forkwait", "done"} =>
       /\ InFlight = [i \in 1..Len(InFlight) |-> LastHeight(block_log) + i]
       /\ nextHeightToFetch = LastHeight(block_log) + Len(InFlight) + 1
  /\ fpc = "send" => fetched = nextHeightToFetch

(* The blocks up to h whose rewards are in the database. *)
RewardsUpTo(log, h) == Heights({r \in log : r.height <= h /\ r.rewards})

ConsistentLog(log) ==
  /\ Heights(log) = 1..LastHeight(log)
  /\ \A r, s \in log : r.height = s.height => r = s
  /\ log # {} => LastRow(log).saved
  /\ \A r \in log : r.saved => r.agg = RewardsUpTo(log, r.height)

(* At every moment, a crash included, the database can be restarted from: no  *)
(* height is missing or stored twice, no stored block is beyond the node's,   *)
(* the newest row has a saved state, and every saved state is the sum of the  *)
(* rewards rows stored up to its block.                                       *)
DatabaseConsistent == ConsistentLog(block_log) /\ LastHeight(block_log) <= nodeHeight

(* The writer commits the tip of the chain only because it compares a block  *)
(* with LastThorNodeBlock, which the fetcher sets: once the fetcher has sent *)
(* all blocks of the node's last status and the writer has taken them, none  *)
(* is left in an unflushed batch.                                            *)
Quiescent ==
  /\ proc = "up" /\ fpc = "catchup" /\ nextHeightToFetch > LastThorNodeBlock
  /\ blocks = << >> /\ wpc = "select"

NoStrandedBlocks ==
  Quiescent => pending = << >> /\ LastHeight(block_log) = nextHeightToFetch - 1

(* No lost wakeup of the aggregates: with the pipeline at rest and no request *)
(* waiting, the last refresh has seen the newest block of this run.           *)
RefreshNotLost ==
  Quiescent /\ ~refreshRequest /\ LastFetchedBlock # 0 => refreshedTo = LastCommittedBlock

(* No block beyond the hard fork of the chain is ever stored, across the     *)
(* wait at the fork and the restarts after it.                               *)
NeverPastFork == HardForkHeight # 0 => LastHeight(block_log) <= HardForkHeight

(* A first block nobody has announced is committed and published alone, as   *)
(* long as a batch may be: whoever finds FirstBlock unset while the process   *)
(* runs knows that at most one block has been batched or stored.             *)
FirstBlockBeforeOthers ==
  proc # "down" /\ FirstBlock = 0 => LastHeight(block_log) + Len(pending) <= 1

-----------------------------------------------------------------------------
(* What comments of the code say and the code does not do. *)

(* iterator.go on nextChecked: it "gives an error if there is a difference    *)
(* between blockstore and chain".  So in the checked mode no block given to   *)
(* CatchUp is one on which the store and the chain differ.                    *)
CheckedBlocksAgree ==
  CheckBlockStoreBlocks /\ fpc = "send" /\ fetched <= StoreHeight =>
    fetched \notin StoreDiffers

(* db.go on the BatchInserter: a failed flush "means that we are trying to    *)
(* insert some data that doesn't match our database schema".  So the mark is  *)
(* only ever set when the chain holds such data.                              *)
MarkedOnlyForBadData ==
  marked => PoisonBlocks \cap (1..nodeHeight) # {}

-----------------------------------------------------------------------------
(* Liveness, under Fairness and finitely many faults. *)

(* Every block the node reports gets into the database (up to the fork),    *)
(* whatever rows the schema rejects: a batch with such a row fails once, the *)
(* mark is found by the next start, and the block is stored one by one.     *)
EveryBlockStored ==
  \A h \in 1..MaxHeight :
    (nodeHeight >= h /\ (HardForkHeight # 0 => h <= HardForkHeight))
      ~> h \in Heights(block_log)

(* A shutdown always ends: no job waits for another one that has left. *)
ShutdownEnds == proc = "stopping" ~> proc = "down"

-----------------------------------------------------------------------------
(* Refinement: the pipeline implements the Ledger. *)
StoredLedger == INSTANCE Ledger WITH
  Losable <- PoisonRewards,
  chainHeight <- nodeHeight,
  recorded <- LastHeight(block_log),
  lost <- Heights({r \in block_log : ~r.rewards}),
  total <- IF block_log = {} THEN {} ELSE LastRow(block_log).agg

ImplementsLedger == StoredLedger!LedgerSpec
=============================================================================
