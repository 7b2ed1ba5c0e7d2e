----------------------------- MODULE BlockFetch -----------------------------
(***************************************************************************)
(* The BlockFetch job: internal/fetch/sync (Sync, Iterator) on top of      *)
(* internal/fetch/sync/chain (the RPC client of the node) and of the local *)
(* block store.  The job asks the node for its latest height, reads every  *)
(* block from the next one it needs up to that height and sends them, in   *)
(* order, into the bounded Go channel `blocks` that the BlockWrite job     *)
(* reads.                                                                  *)
(*                                                                         *)
(* Abstractions.  A block is its height.  The goroutines of one batched    *)
(* RPC fill disjoint parts of the batch and join before it is used, so a   *)
(* batch is one step that succeeds or fails.  Sleeps, logs and the         *)
(* caught-up flag, which nothing reads, are left out.                      *)
(***************************************************************************)
EXTENDS Integers, Sequences

CONSTANTS
  MaxHeight,             \* bound: the last height the node ever reaches
  FetchBatchSize,        \* config ThorChain.FetchBatchSize, also the channel's capacity
  MaxErrorCount,         \* maxErrorCount of KeepInSync (20 in the code)
  StoreHeight,           \* the block store holds the blocks 1..StoreHeight
  StoreDiffers,          \* heights at which the store's block is not the chain's
  CheckBlockStoreBlocks, \* the developer switch of cmd/blockstore/unmarshal
  MaxFaults              \* bound: failed calls, kills and crashes in one behaviour

VARIABLES
  proc,         \* the process: "up", "stopping" (main context cancelled) or "down"
  faults,       \* how many faults have been injected
  nodeHeight,   \* LatestBlockHeight of the node's status
  ready,        \* the node serves the results of the blocks 1..ready
  blocks,       \* the channel from BlockFetch to BlockWrite
  fpc,          \* where KeepInSync is
  nextHeightToFetch, failedThorNodeFetchHeight, previousHeight, errorCount,
  finalHeight,    \* Iterator.finalHeight: the target of this CatchUp
  itHeight,       \* Iterator.height: the height the iterator gives next
  source,         \* which iterator is in use: "blockstore" or "chain"
  nextBatchStart, \* chain.Iterator.nextBatchStart
  batch,          \* chain.Iterator.batch: fetched and not yet given
  fetched,        \* the block CatchUp is about to send
  LastThorNodeBlock, LastFetchedBlock  \* heights published for other readers

nodeVars == <<nodeHeight, ready>>
iterVars == <<finalHeight, itHeight, source, nextBatchStart, batch, fetched>>
retryVars == <<nextHeightToFetch, failedThorNodeFetchHeight, previousHeight, errorCount>>
fetchVars == <<fpc, retryVars, iterVars, LastThorNodeBlock, LastFetchedBlock>>

LowerOf(a, b) == IF a < b THEN a ELSE b

(* One more fault of the environment, within the bound. *)
Fault == faults < MaxFaults /\ faults' = faults + 1

-----------------------------------------------------------------------------
(* The node. *)

(* A new block appears in the node's status.  Its results are served later, *)
(* but not later than those of the next block.                              *)
NodeAdvance ==
  /\ nodeHeight < MaxHeight
  /\ nodeHeight' = nodeHeight + 1
  /\ ready' = nodeHeight
  /\ UNCHANGED <<proc, faults, blocks, fetchVars>>

NodeResultsReady ==
  /\ ready < nodeHeight
  /\ ready' = nodeHeight
  /\ UNCHANGED <<proc, faults, nodeHeight, blocks, fetchVars>>

-----------------------------------------------------------------------------
(* NewIterator: the block store as long as it has the block, else the chain. *)
(* In the checked mode both are read and the chain's block is the one given. *)
StartIterator(start, final) ==
  /\ finalHeight' = final
  /\ itHeight' = start
  /\ source' = IF ~CheckBlockStoreBlocks /\ start <= StoreHeight
                 THEN "blockstore" ELSE "chain"
  /\ nextBatchStart' = start
  /\ batch' = << >>
  /\ fpc' = "iterate"
  /\ UNCHANGED fetched

(* The iterator is local to CatchUp and goes with it. *)
DropIterator ==
  /\ finalHeight' = 0
  /\ itHeight' = 0
  /\ source' = "chain"
  /\ nextBatchStart' = 0
  /\ batch' = << >>
  /\ fetched' = 0

(* CatchUp returned without an error: back at the head of KeepInSync's loop. *)
CatchUpReturns ==
  /\ fpc' = "catchup"
  /\ errorCount' = IF previousHeight # nextHeightToFetch THEN 0 ELSE errorCount
  /\ previousHeight' = nextHeightToFetch
  /\ UNCHANGED <<nextHeightToFetch, proc>>

(* Mutant: the limit is compared with the count before this error. *)
CatchUpFailsOnceMore ==
  LET again == nextHeightToFetch = previousHeight
      quits == again /\ MaxErrorCount < errorCount
  IN /\ errorCount' = IF again THEN errorCount + 1 ELSE 0
     /\ previousHeight' = nextHeightToFetch
     /\ fpc' = IF quits THEN "done" ELSE "catchup"
     /\ proc' = IF quits THEN "stopping" ELSE proc
     /\ UNCHANGED nextHeightToFetch

(* CatchUp returned an error: KeepInSync counts the errors at this height *)
(* and, past the limit, quits and shuts the whole process down.           *)
CatchUpFails ==
  LET again == nextHeightToFetch = previousHeight
      quits == again /\ MaxErrorCount < errorCount + 1
  IN /\ errorCount' = IF again THEN errorCount + 1 ELSE 0
     /\ previousHeight' = nextHeightToFetch
     /\ fpc' = IF quits THEN "done" ELSE "catchup"
     /\ proc' = IF quits THEN "stopping" ELSE proc
     /\ UNCHANGED nextHeightToFetch

(* CatchUp after a failed fetch: the same target again, without a new status. *)
CatchUpToFailed ==
  /\ proc = "up" /\ fpc = "catchup"
  /\ failedThorNodeFetchHeight >= nextHeightToFetch
  /\ StartIterator(nextHeightToFetch, failedThorNodeFetchHeight)
  /\ failedThorNodeFetchHeight' = -1
  /\ UNCHANGED <<proc, faults, nodeVars, blocks, nextHeightToFetch, previousHeight,
                 errorCount, LastThorNodeBlock, LastFetchedBlock>>

(* CatchUp with a fresh status: the node's latest height is the target. *)
CatchUpToLatest ==
  /\ proc = "up" /\ fpc = "catchup"
  /\ failedThorNodeFetchHeight < nextHeightToFetch
  /\ StartIterator(nextHeightToFetch, nodeHeight)
  /\ LastThorNodeBlock' = nodeHeight
  /\ failedThorNodeFetchHeight' = -1
  /\ UNCHANGED <<proc, faults, nodeVars, blocks, nextHeightToFetch, previousHeight,
                 errorCount, LastFetchedBlock>>

(* The status call fails after all its retries. *)
StatusFails ==
  /\ proc = "up" /\ fpc = "catchup"
  /\ failedThorNodeFetchHeight < nextHeightToFetch
  /\ Fault
  /\ failedThorNodeFetchHeight' = -1
  /\ CatchUpFails
  /\ UNCHANGED <<nodeVars, blocks, iterVars, LastThorNodeBlock, LastFetchedBlock>>

(* The iterator is past the target: this CatchUp is complete. *)
ReachedTarget ==
  /\ proc = "up" /\ fpc = "iterate"
  /\ finalHeight < itHeight
  /\ CatchUpReturns
  /\ DropIterator
  /\ UNCHANGED <<faults, nodeVars, blocks, failedThorNodeFetchHeight,
                 LastThorNodeBlock, LastFetchedBlock>>

(* Next gives the block `h`: CatchUp goes on to send it. *)
Give(h) ==
  /\ fetched' = h
  /\ itHeight' = itHeight + 1
  /\ fpc' = "send"
  /\ UNCHANGED <<proc, faults, nodeVars, blocks, retryVars, finalHeight,
                 LastThorNodeBlock, LastFetchedBlock>>

NextFromStore ==
  /\ proc = "up" /\ fpc = "iterate"
  /\ itHeight <= finalHeight
  /\ source = "blockstore" /\ itHeight <= StoreHeight
  /\ Give(itHeight)
  /\ UNCHANGED <<source, nextBatchStart, batch>>

(* The store has no more blocks, or cannot read the next one: Next goes on *)
(* with a chain iterator from the same height.                             *)
SwitchToChain ==
  /\ proc = "up" /\ fpc = "iterate"
  /\ itHeight <= finalHeight
  /\ source = "blockstore"
  /\ \/ itHeight > StoreHeight /\ UNCHANGED faults
     \/ itHeight <= StoreHeight /\ Fault
  /\ source' = "chain"
  /\ nextBatchStart' = itHeight
  /\ batch' = << >>
  /\ UNCHANGED <<proc, nodeVars, blocks, fpc, retryVars, finalHeight, itHeight, fetched,
                 LastThorNodeBlock, LastFetchedBlock>>

(* nextBatch: the last batch before the target may be a short one. *)
BatchLength == LowerOf(FetchBatchSize, finalHeight - nextBatchStart + 1)
FetchBatch == [i \in 1..BatchLength |-> nextBatchStart + i - 1]

(* The node can serve the whole batch. *)
BatchReady == nextBatchStart + BatchLength - 1 <= ready

(* Next refuses the block it is about to give: its height is not the one    *)
(* expected, or, in the checked mode, nextChecked as written: it reports a  *)
(* mismatch where store and chain ARE equal (DeepEqual without a negation). *)
Refused ==
  \/ batch # << >> /\ Head(batch) # itHeight
  \/ /\ CheckBlockStoreBlocks
     /\ itHeight <= StoreHeight
     /\ itHeight \notin StoreDiffers

NextFromChain ==
  /\ proc = "up" /\ fpc = "iterate"
  /\ itHeight <= finalHeight
  /\ source = "chain"
  /\ batch # << >> \/ BatchReady
  /\ ~Refused
  /\ LET b == IF batch # << >> THEN batch ELSE FetchBatch
     IN /\ batch' = Tail(b)
        /\ nextBatchStart' = nextBatchStart + Len(b) - Len(batch)
        /\ Give(Head(b))
  /\ UNCHANGED source

(* Next returns an error: the results are not ready, the call failed or the *)
(* check of the store refused the block.  The iterator, with a batch that   *)
(* may be partly filled, is dropped; the target is kept for the next try.   *)
FetchFails ==
  /\ proc = "up" /\ fpc = "iterate"
  /\ itHeight <= finalHeight
  /\ source = "chain"
  /\ batch = << >> \/ CheckBlockStoreBlocks
  /\ IF BatchReady /\ ~Refused THEN Fault ELSE UNCHANGED faults
  /\ failedThorNodeFetchHeight' = finalHeight
  /\ CatchUpFails
  /\ DropIterator
  /\ UNCHANGED <<nodeVars, blocks, LastThorNodeBlock, LastFetchedBlock>>

(* Mutant: CatchUp keeps the height it has sent instead of the next one. *)
SendBlockKeepingStart ==
  /\ proc # "down" /\ fpc = "send"
  /\ Len(blocks) < FetchBatchSize
  /\ blocks' = Append(blocks, fetched)
  /\ nextHeightToFetch' = fetched
  /\ LastFetchedBlock' = fetched
  /\ fetched' = 0
  /\ fpc' = "iterate"
  /\ UNCHANGED <<proc, faults, nodeVars, failedThorNodeFetchHeight, previousHeight, errorCount,
                 finalHeight, itHeight, source, nextBatchStart, batch, LastThorNodeBlock>>

(* The send into the channel, the select's other branch being FetchStops. *)
SendBlock ==
  /\ proc # "down" /\ fpc = "send"
  /\ Len(blocks) < FetchBatchSize
  /\ blocks' = Append(blocks, fetched)
  /\ nextHeightToFetch' = fetched + 1
  /\ LastFetchedBlock' = fetched
  /\ fetched' = 0
  /\ fpc' = "iterate"
  /\ UNCHANGED <<proc, faults, nodeVars, failedThorNodeFetchHeight, previousHeight, errorCount,
                 finalHeight, itHeight, source, nextBatchStart, batch, LastThorNodeBlock>>

(* Mutant: the send does not watch the context. *)
FetchStopsBetweenSends ==
  /\ proc = "stopping" /\ fpc \in {"catchup", "iterate"}
  /\ fpc' = "done"
  /\ UNCHANGED <<proc, faults, nodeVars, blocks, retryVars, iterVars,
                 LastThorNodeBlock, LastFetchedBlock>>

(* The context is cancelled: CatchUp and KeepInSync return at their next check. *)
FetchStops ==
  /\ proc = "stopping" /\ fpc \in {"catchup", "iterate", "send"}
  /\ fpc' = "done"
  /\ UNCHANGED <<proc, faults, nodeVars, blocks, retryVars, iterVars,
                 LastThorNodeBlock, LastFetchedBlock>>

FetchStep ==
  \/ CatchUpToFailed
  \/ CatchUpToLatest
  \/ StatusFails
  \/ ReachedTarget
  \/ NextFromStore
  \/ SwitchToChain
  \/ NextFromChain
  \/ FetchFails
  \/ SendBlock
  \/ FetchStops

-----------------------------------------------------------------------------
FetchTypeOK ==
  /\ proc \in {"up", "stopping", "down"}
  /\ faults \in 0..MaxFaults
  /\ nodeHeight \in 1..MaxHeight
  /\ ready \in {nodeHeight - 1, nodeHeight}
  /\ blocks \in Seq(Nat) /\ Len(blocks) <= FetchBatchSize
  /\ fpc \in {"catchup", "iterate", "send", "done"}
  /\ nextHeightToFetch \in Nat /\ previousHeight \in Nat
  /\ failedThorNodeFetchHeight \in Nat \cup {-1}
  /\ errorCount \in 0..(IF fpc = "done" THEN MaxErrorCount + 1 ELSE MaxErrorCount)
  /\ finalHeight \in Nat /\ itHeight \in Nat
  /\ source \in {"blockstore", "chain"}
  /\ nextBatchStart \in Nat /\ batch \in Seq(Nat) /\ fetched \in Nat
  /\ LastThorNodeBlock \in Nat /\ LastFetchedBlock \in Nat
=============================================================================
