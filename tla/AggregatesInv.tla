----------------------------- MODULE AggregatesInv -----------------------------
(***************************************************************************)
(* The inductive invariant of the aggregates: how far the refresh may be,   *)
(* what it leaves in the balances, and that no ping is lost that somebody   *)
(* still waits for.                                                        *)
(***************************************************************************)
EXTENDS Aggregates

(* The state of the newest block is published before a refresh is requested. *)
PublishedInv ==
  /\ LastCommittedBlock <= stored
  /\ wpc \in {"idle", "request"} => Latest = stored

(* A block, or the end of a step, that lies no later than what is committed. *)
NotBeyondCommitted(b) ==
  /\ b.height <= LastCommittedBlock
  /\ b.height # 0 => b.timestamp = Timestamps[b.height]
  /\ b.timestamp <= IF LastCommittedBlock = 0 THEN Timestamps[1] ELSE TimeOf(LastCommittedBlock)

(* No refresh goes beyond the newest block, and none goes back once there   *)
(* is one.                                                                  *)
RefreshInv ==
  /\ NotBeyondCommitted(LastAggregatedBlock) /\ NotBeyondCommitted(lastAggregated)
  /\ lastAggregated.height # 0 => lastAggregated.timestamp < refreshEnd
  /\ watermark <= TimeOf(stored) + 1 /\ refreshEnd <= TimeOf(stored) + 1
  /\ rpc \in {"views", "balances", "set"} /\ committedRead # 0 =>
       LastAggregatedBlock.timestamp <= lastAggregated.timestamp

(* As long as nothing has failed, the balances are as far as the readers    *)
(* are told.                                                                *)
FaultlessInv ==
  faults = 0 =>
    /\ ~cancelled
    /\ LastAggregatedBlock.height # 0 => LastAggregatedBlock.timestamp < watermark
    /\ rpc = "set" /\ lastAggregated.height # 0 => lastAggregated.timestamp < watermark

(* The prices of the newest block are sent, or are about to be.             *)
PricesUnderway ==
  \/ WebsocketNotify > 0
  \/ spc = "drain"
  \/ spc = "write" /\ prices = stored
  \/ spc = "wait" /\ sent = stored

(* The request of the last flush in sync has been taken, and the refresh    *)
(* that took it has left nothing to aggregate.                              *)
Answered ==
  /\ up /\ ~cancelled
  /\ wpc = "idle" /\ synced
  /\ rpc = "wait" /\ ~refreshRequests /\ ~bulk /\ caughtUp

PingInv == Answered => PricesUnderway

IInv ==
  /\ TypeOK
  /\ PublishedInv
  /\ RefreshInv
  /\ SumsExact
  /\ FaultlessInv
  /\ PingInv
=============================================================================
