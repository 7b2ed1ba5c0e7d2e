------------------------------ MODULE QueriesInv ------------------------------
(***************************************************************************)
(* The inductive invariant behind the list of blocks in Queries: what the   *)
(* tables of blocks hold, on top of the invariant of Recorder, and what a   *)
(* client in the middle of its pages, or a request between its two queries, *)
(* may rely on.                                                             *)
(***************************************************************************)
EXTENDS Queries, RecorderInv

(* The last block with rows, committed or not. *)
Reached == IF pc = "event" THEN height - 1 ELSE height

(* Both tables have the blocks of the chain without a gap, the rows not yet *)
(* committed going on where the database ends.                              *)
BlocksInv ==
  /\ {r.height : r \in db.log} = 1..Top
  /\ db.blocks = {OnChain(h) : h \in 1..Top}
  /\ pc # "down" =>
       /\ {r.height : r \in pending.log} = Top + 1..Reached
       /\ pending.blocks = {OnChain(h) : h \in Top + 1..Reached}

ReaderType ==
  /\ reader.kind \in {"idle", "block", "blocks", "depths"}
  /\ reader.kind = "idle" => reader = Idle
  /\ reader.kind = "block" =>
       reader = [kind |-> "block", height |-> reader.height, there |-> reader.there,
                 answer |-> reader.answer]
  /\ reader.kind = "blocks" =>
       /\ reader = [kind |-> "blocks", asked |-> reader.asked, offset |-> reader.offset,
                    there |-> reader.there, seen |-> reader.seen, more |-> reader.more]
       /\ reader.asked \in Limits /\ reader.offset \in Nat /\ reader.more \in BOOLEAN
  /\ reader.kind = "depths" =>
       reader = [kind |-> "depths", request |-> reader.request,
                 timestamps |-> reader.timestamps, now |-> reader.now, has |-> reader.has,
                 before |-> reader.before]

Seen(h) == \E s \in reader.seen : s.height = h

(* What the client has not seen yet is at its offset or behind it, and new  *)
(* blocks only push it further.                                             *)
OffsetInv ==
  reader.kind = "blocks" =>
    /\ reader.there \subseteq 1..Top
    /\ \A h \in reader.there : Seen(h) \/ (reader.more /\ reader.offset <= Top - h)

(* Depths are of blocks, those not yet committed of blocks to come. *)
DepthHeightsInv ==
  /\ \A r \in db.depths : 1 <= r.height
  /\ \A r \in pending.depths : Top < r.height

(* A history was asked for after some block.  Its buckets were made then, and *)
(* what was read of the time before them stays what it is, as the rows to    *)
(* come are of blocks after that one.                                        *)
HistoryInv ==
  reader.kind = "depths" =>
    LET q == reader.request
        ts == reader.timestamps
    IN  /\ q \in HistoryRequests
        /\ \E h \in 1..Top : reader.now = Times[h] + 1
        /\ ts \in Seq(Int)
        /\ IF Given(q.interval) THEN 2 <= Len(ts) /\ BucketsFit(q, ts) ELSE Len(ts) = 2
        /\ reader.has /\ ts[1] < reader.now =>
             \A p \in Pools : DepthAt(reader.before, p) = DepthAsOf(p, ts[1])

QueriesIInv ==
  /\ IInv
  /\ BlocksInv
  /\ ReaderType
  /\ OffsetInv
  /\ PagesLeaveNoGap
  /\ DepthHeightsInv
  /\ HistoryInv
=============================================================================
