----------------------------- MODULE IndexerInv -----------------------------
(***************************************************************************)
(* The inductive invariant behind the safety properties of Indexer, in     *)
(* parts: what holds of the fetcher, of the writer, of the published       *)
(* heights and of the database between any two steps.                      *)
(***************************************************************************)
EXTENDS Indexer

(* A writer that is in, or on the way back to, its loop. *)
Live == proc # "down" /\ wpc \notin {"forkwait", "done"}

(* The block in hand is stored; the writer tells the other jobs. *)
Publishing == wpc \in {"publish", "first", "request"}

Top == LastHeight(block_log)

InHand == IF wpc = "process" THEN 1 ELSE 0

(* The blocks of the database, the pending rows and the one in process. *)
Written == Top + Len(pending) + InHand

MemoryLost ==
  /\ blocks = << >> /\ batch = << >> /\ pending = << >>
  /\ fpc = "done" /\ wpc = "done" /\ failedThorNodeFetchHeight = -1
  /\ previousHeight = 0 /\ errorCount = 0
  /\ LastFetchedBlock = 0 /\ refreshedTo = 0 /\ ~refreshRequest

(* The fetcher: targets and iterator heights are the node's, and a batch   *)
(* holds the next blocks in order.                                         *)
FetcherInv ==
  /\ finalHeight <= nodeHeight /\ failedThorNodeFetchHeight <= nodeHeight
  /\ LastThorNodeBlock <= nodeHeight
  /\ nextHeightToFetch <= nodeHeight + 1
  /\ batch # << >> => source = "chain"
  /\ fpc = "iterate" => itHeight = nextHeightToFetch
  /\ fpc = "send" =>
       fetched = nextHeightToFetch /\ itHeight = fetched + 1 /\ fetched <= finalHeight
  /\ fpc \in {"iterate", "send"} /\ source = "chain" =>
       /\ \A i \in 1..Len(batch) : batch[i] = itHeight + i - 1
       /\ nextBatchStart = itHeight + Len(batch)
       /\ batch # << >> => nextBatchStart <= finalHeight + 1

(* The writer: pending rows, the block in hand and the channel continue the *)
(* database without a gap up to the fetcher.                                *)
PipelineInv ==
  Live =>
    /\ \A i \in 1..Len(pending) : pending[i].height = Top + i
    /\ \A i \in 1..Len(blocks) : blocks[i] = Written + i
    /\ nextHeightToFetch = Written + Len(blocks) + 1
    /\ wpc = "process" => cur = Written
    /\ wpc = "flush" => pending # << >> /\ cur = Written /\ pending[Len(pending)].saved
    /\ Publishing => pending = << >> /\ cur = Top /\ cur > 0
    /\ inserter = "immediate" => pending = << >> /\ wpc # "flush"

(* The rows written so far, stored or pending, and the depths they add up to. *)
RowsWritten == block_log \cup RowSet(pending)
DepthsOf(rows) == Heights({r \in rows : r.rewards})

DepthsInv ==
  Live =>
    /\ depths = DepthsOf(RowsWritten)
    /\ \A i \in 1..Len(pending) :
         pending[i].saved => pending[i].agg = RewardsUpTo(RowsWritten, pending[i].height)

(* An unflushed row, and a commit without a refresh, are below the tip that *)
(* the fetcher goes on to.                                                  *)
TipInv ==
  Live =>
    /\ pending # << >> /\ wpc # "flush" => Top + Len(pending) + 1 < LastThorNodeBlock
    /\ wpc = "flush" \/ Publishing => synced \/ cur + 1 < LastThorNodeBlock
    /\ wpc # "publish" => LastCommittedBlock = Top
    /\ LastFetchedBlock = 0 => nextHeightToFetch = Top + 1
    /\ LastFetchedBlock # 0 /\ ~Publishing /\ nextHeightToFetch = Top + 1 =>
         refreshRequest \/ refreshedTo = Top \/ Top + 1 < LastThorNodeBlock

(* As long as no first block is known, nothing else is batched or committed. *)
UnsetFirstInv ==
  proc # "down" /\ FirstBlock = 0 =>
    Top + Len(pending) <= 1 /\ (wpc # "flush" => pending = << >>)

FirstInv ==
  Live =>
    /\ FirstBlock \in {0, 1}
    /\ Top # 0 /\ wpc \notin {"publish", "first"} => FirstBlock = 1
    /\ FirstBlock = 0 /\ wpc = "flush" => Len(pending) = 1
    /\ FirstBlock = 0 /\ wpc \in {"publish", "first"} => cur = 1

ForkInv ==
  HardForkHeight # 0 =>
    /\ Top <= HardForkHeight
    /\ Live => Written <= HardForkHeight

IInv ==
  /\ TypeOK
  /\ proc = "down" => MemoryLost
  /\ FetcherInv
  /\ Top \in Nat
  /\ DatabaseConsistent
  /\ PipelineInv
  /\ DepthsInv
  /\ TipInv
  /\ UnsetFirstInv
  /\ FirstInv
  /\ ForkInv
(* Rows written without their rewards are of blocks the schema rejects. *)
RejectedInv == \A r \in RowsWritten : r.rewards \/ r.height \in PoisonRewards
=============================================================================
