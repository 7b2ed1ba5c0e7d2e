------------------------------ MODULE Aggregates ------------------------------
(***************************************************************************)
(* From a committed block to the aggregates and the clients' prices:        *)
(*   the writer    stores blocks, publishes LastCommittedBlock and Latest   *)
(*                 and requests a refresh when it is in sync;               *)
(*   the refresher (db/aggregates.go) catches up in steps of at most        *)
(*                 MaxStep: materialised views, running and current         *)
(*                 balances (balances.sql), LastAggregatedBlock, ping;      *)
(*   the websockets loop (serve, waitForBlock, notifyClients) wakes up on a *)
(*                 ping and sends the latest prices.                        *)
(* Calls to the database fail, the process stops and is started again; the  *)
(* tables are what remains.                                                 *)
(*                                                                         *)
(* One address and one asset: a block either moves its balance or does not, *)
(* and a balance is the set of the blocks whose transfers it includes.      *)
(***************************************************************************)
EXTENDS Integers, Sequences, FiniteSets, FiniteSetsExt

CONSTANTS
  Timestamps,   \* of the blocks 1, 2, ..., strictly increasing
  Transfers,    \* the blocks with a transfer
  MaxStep,      \* aggregatesMaxStepNano
  Views,        \* the continuous aggregates
  PingCapacity, \* of WebsocketNotify
  MaxFaults     \* failed calls, interrupts and kills in a behaviour

MaxHeight == Len(Timestamps)

ASSUME AggregatesAssumption ==
  /\ Timestamps \in Seq(Nat \ {0}) /\ Timestamps # << >>
  /\ \A h, k \in 1..MaxHeight : h < k => Timestamps[h] < Timestamps[k]
  /\ Transfers \subseteq 1..MaxHeight
  /\ MaxStep \in Nat \ {0} /\ PingCapacity \in Nat \ {0} /\ MaxFaults \in Nat
  /\ IsFiniteSet(Views)

VARIABLES
  up, cancelled, faults,
  stored,             \* the database: newest block
  watermark,          \* the database: watermark of 'balances'
  current,            \* the database: current_balances
  running,            \* the database: balances, one row per block that moved it
  materialized,       \* the database: how far each view has been refreshed
  wpc, synced,        \* writer
  LastCommittedBlock, Latest,
  refreshRequests,    \* the channel of capacity one is full
  rpc, bulk, refreshEnd, lastAggregated, caughtUp, viewsLeft,  \* refreshAggregates
  committedRead,      \* the LastCommittedBlock it has read
  LastAggregatedBlock,
  WebsocketNotify,    \* pings in the channel
  spc, prices, sent   \* websockets loop: state read and state sent last

tables == <<stored, watermark, current, running, materialized>>
writerVars == <<wpc, synced, LastCommittedBlock, Latest>>
localVars == <<bulk, refreshEnd, lastAggregated, caughtUp, viewsLeft, committedRead>>
refreshVars == <<rpc, localVars, LastAggregatedBlock>>
socketVars == <<spc, prices, sent>>
processVars == <<up, cancelled>>
vars == <<processVars, faults, tables, writerVars, refreshRequests, refreshVars,
          WebsocketNotify, socketVars>>

(* No block yet has the zero time, which lies before every timestamp. *)
TimeOf(h) == IF h = 0 THEN -1 ELSE Timestamps[h]

Fault == faults < MaxFaults /\ faults' = faults + 1

NoBlock == [height |-> 0, timestamp |-> 0]

-----------------------------------------------------------------------------
(* The writer: a batch of blocks is flushed ... *)
Flush ==
  /\ up /\ ~cancelled /\ wpc = "idle"
  /\ \E h \in stored + 1 .. MaxHeight : stored' = h
  /\ synced' \in BOOLEAN
  /\ wpc' = "commit"
  /\ UNCHANGED <<processVars, faults, watermark, current, running, materialized,
                 LastCommittedBlock, Latest, refreshRequests, refreshVars, WebsocketNotify,
                 socketVars>>

(* ... and published by setLastBlock, the height before the state ... *)
PublishCommitted ==
  /\ wpc = "commit"
  /\ LastCommittedBlock' = stored /\ wpc' = "latest"
  /\ UNCHANGED <<processVars, faults, tables, synced, Latest, refreshRequests, refreshVars,
                 WebsocketNotify, socketVars>>

PublishLatest ==
  /\ wpc = "latest"
  /\ Latest' = stored /\ wpc' = "request"
  /\ UNCHANGED <<processVars, faults, tables, synced, LastCommittedBlock, refreshRequests,
                 refreshVars, WebsocketNotify, socketVars>>

(* ... and RequestAggregatesRefresh drops what does not fit into the channel. *)
RequestAggregatesRefresh ==
  /\ wpc = "request"
  /\ refreshRequests' = (refreshRequests \/ synced)
  /\ wpc' = "idle"
  /\ UNCHANGED <<processVars, faults, tables, synced, LastCommittedBlock, Latest, refreshVars,
                 WebsocketNotify, socketVars>>

-----------------------------------------------------------------------------
(* The refresh job takes a request, or one minute has passed. *)
RefreshWakes ==
  /\ rpc = "wait" /\ ~cancelled
  /\ \/ refreshRequests /\ refreshRequests' = FALSE /\ bulk' = FALSE
     \/ bulk' = TRUE /\ UNCHANGED refreshRequests
  /\ rpc' = "read"
  /\ UNCHANGED <<processVars, faults, tables, writerVars, refreshEnd, lastAggregated, caughtUp,
                 viewsLeft, committedRead, LastAggregatedBlock, WebsocketNotify, socketVars>>

(* LastAggregatedBlock is never before the first block (of the root chain,   *)
(* known from the node's status before any block is stored).                 *)
FromFirstBlock ==
  IF LastAggregatedBlock.timestamp < Timestamps[1]
  THEN [height |-> LastAggregatedBlock.height, timestamp |-> Timestamps[1]]
  ELSE LastAggregatedBlock

(* Mutant: the block whose state is published already. *)
PublishedBlock == [height |-> Latest, timestamp |-> TimeOf(Latest)]

CommittedBlock == [height |-> LastCommittedBlock, timestamp |-> TimeOf(LastCommittedBlock)]

(* Mutant: always a whole step. *)
StepEnd == FromFirstBlock.timestamp + MaxStep

TooFar == TimeOf(LastCommittedBlock) + 1 > FromFirstBlock.timestamp + MaxStep

(* What is aggregated next: up to and with the newest block, or one step. *)
NextRefreshEnd ==
  IF TooFar THEN FromFirstBlock.timestamp + MaxStep ELSE TimeOf(LastCommittedBlock) + 1

(* Mutant: the step is not remembered. *)
FromFirstBlockAgain == IF TooFar THEN [FromFirstBlock EXCEPT !.height = 0] ELSE CommittedBlock

NextAggregated ==
  IF TooFar THEN [height |-> 0, timestamp |-> FromFirstBlock.timestamp + MaxStep]
  ELSE CommittedBlock

ReadHeights ==
  /\ rpc = "read"
  /\ LastAggregatedBlock' = FromFirstBlock
  /\ refreshEnd' = NextRefreshEnd
  /\ lastAggregated' = NextAggregated
  /\ caughtUp' = ~TooFar
  /\ committedRead' = LastCommittedBlock
  /\ viewsLeft' = Views
  /\ rpc' = "views"
  /\ UNCHANGED <<processVars, faults, tables, writerVars, refreshRequests, bulk,
                 WebsocketNotify, socketVars>>

(* One refresh call per view; an error is only logged. *)
RefreshView ==
  /\ rpc = "views" /\ ~cancelled
  /\ \E v \in viewsLeft :
       /\ viewsLeft' = viewsLeft \ {v}
       /\ \/ /\ materialized' = [materialized EXCEPT ![v] = Max({@, refreshEnd})]
             /\ UNCHANGED faults
          \/ Fault /\ UNCHANGED materialized
  /\ UNCHANGED <<processVars, stored, watermark, current, running, writerVars, refreshRequests,
                 rpc, bulk, refreshEnd, lastAggregated, caughtUp, committedRead,
                 LastAggregatedBlock, WebsocketNotify, socketVars>>

ViewsDone ==
  /\ rpc = "views"
  /\ \/ viewsLeft = {} /\ rpc' = "balances"
     \/ viewsLeft # {} /\ cancelled /\ rpc' = "wait"
  /\ UNCHANGED <<processVars, faults, tables, writerVars, refreshRequests, localVars,
                 LastAggregatedBlock, WebsocketNotify, socketVars>>

(* update_balances: one transaction.  The rows of the interval are added to *)
(* the running and to the current balances, unless one of them is there     *)
(* already (primary key), and the watermark moves.                          *)
Interval == {h \in Transfers : h <= stored /\ watermark <= Timestamps[h] /\ Timestamps[h] < refreshEnd}

RowsOf(hs) == {[height |-> h, sum |-> current \cup {k \in hs : k <= h}] : h \in hs}

IntoThePast == refreshEnd <= watermark

KeyViolated == \E r \in running : r.height \in Interval

BalancesUpdated ==
  /\ running' = running \cup RowsOf(Interval)
  /\ current' = current \cup Interval
  /\ watermark' = refreshEnd
  /\ UNCHANGED <<stored, materialized>>

(* The call does its work, has nothing to do, or fails; its answer can get  *)
(* lost.  With a cancelled context it is not made.  Whatever happened, the  *)
(* refresh goes on.                                                         *)
UpdateBalances ==
  /\ rpc = "balances"
  /\ \/ ~cancelled /\ ~IntoThePast /\ ~KeyViolated /\ BalancesUpdated /\ UNCHANGED faults
     \/ ~cancelled /\ (IntoThePast \/ KeyViolated) /\ UNCHANGED <<tables, faults>>
     \/ ~cancelled /\ ~IntoThePast /\ UNCHANGED tables /\ Fault
     \/ ~cancelled /\ ~IntoThePast /\ ~KeyViolated /\ BalancesUpdated /\ Fault
     \/ cancelled /\ UNCHANGED <<tables, faults>>
  /\ rpc' = "set"
  /\ UNCHANGED <<processVars, writerVars, refreshRequests, localVars, LastAggregatedBlock,
                 WebsocketNotify, socketVars>>

(* Mutant: the capacity of the channel is not minded. *)
PingAlways == WebsocketNotify + 1

(* A ping that does not fit into the channel is dropped. *)
WebsocketsPing == Min({WebsocketNotify + 1, PingCapacity})

(* LastAggregatedBlock, and a ping if it was a request and nothing is left. *)
SetAggregated ==
  /\ rpc = "set"
  /\ LastAggregatedBlock' = lastAggregated
  /\ WebsocketNotify' = IF ~bulk /\ caughtUp THEN WebsocketsPing ELSE WebsocketNotify
  /\ rpc' = "wait"
  /\ UNCHANGED <<processVars, faults, tables, writerVars, refreshRequests, localVars, socketVars>>

RefreshStops ==
  /\ rpc = "wait" /\ cancelled
  /\ rpc' = "done"
  /\ UNCHANGED <<processVars, faults, tables, writerVars, refreshRequests, localVars,
                 LastAggregatedBlock, WebsocketNotify, socketVars>>

-----------------------------------------------------------------------------
(* waitForBlock: one ping wakes the loop and the others are drained. *)
WaitForBlock ==
  /\ spc \in {"wait", "drain"} /\ WebsocketNotify > 0
  /\ spc = "wait" => ~cancelled
  /\ WebsocketNotify' = WebsocketNotify - 1
  /\ spc' = "drain"
  /\ UNCHANGED <<processVars, faults, tables, writerVars, refreshRequests, refreshVars, prices,
                 sent>>

(* notifyClients: the state is read once, then it is written to everyone. *)
NotifyReads ==
  /\ spc = "drain" /\ WebsocketNotify = 0
  /\ prices' = Latest /\ spc' = "write"
  /\ UNCHANGED <<processVars, faults, tables, writerVars, refreshRequests, refreshVars,
                 WebsocketNotify, sent>>

(* Mutant: what came in during the write is drained with the rest. *)
NotifyWritesAndDrains ==
  /\ spc = "write"
  /\ sent' = prices /\ spc' = "wait" /\ WebsocketNotify' = 0
  /\ UNCHANGED <<processVars, faults, tables, writerVars, refreshRequests, refreshVars, prices>>

NotifyWrites ==
  /\ spc = "write"
  /\ sent' = prices /\ spc' = "wait"
  /\ UNCHANGED <<processVars, faults, tables, writerVars, refreshRequests, refreshVars,
                 WebsocketNotify, prices>>

SocketStops ==
  /\ spc = "wait" /\ cancelled
  /\ spc' = "done"
  /\ UNCHANGED <<processVars, faults, tables, writerVars, refreshRequests, refreshVars,
                 WebsocketNotify, prices, sent>>

-----------------------------------------------------------------------------
(* The reader of the balances, GetBalances: at the newest aggregated block, *)
(* at a height or at a time.                                                *)
BlockAt(h) == [height |-> h, timestamp |-> Timestamps[h]]

(* findBlockId by time: the newest block at that time or before, if any. *)
BlocksAtTime(time) ==
  LET blocks == {h \in 1..stored : Timestamps[h] <= time}
  IN  IF blocks = {} THEN {} ELSE {BlockAt(Max(blocks))}

(* blockIdFrom: what is before the first block or after LastAggregatedBlock is refused. *)
BlockIds ==
  {LastAggregatedBlock}
    \cup {BlockAt(h) : h \in 1..LastAggregatedBlock.height}
    \cup UNION {BlocksAtTime(t) : t \in Timestamps[1]..LastAggregatedBlock.timestamp}

(* The newest running balance up to that block, for an address that has a   *)
(* current one.                                                             *)
GetBalances(id) ==
  LET rows == {r \in running : current # {} /\ Timestamps[r.height] <= id.timestamp}
  IN  IF rows = {} THEN {}
      ELSE (CHOOSE r \in rows : \A q \in rows : q.height <= r.height).sum

-----------------------------------------------------------------------------
(* Memory at the start: the newest block is read back.  No statement writes *)
(* a watermark of 'actions', so that LastAggregatedBlock begins at zero.    *)
LoadMemory ==
  /\ wpc' = "idle" /\ synced' = FALSE
  /\ LastCommittedBlock' = stored /\ Latest' = stored
  /\ refreshRequests' = FALSE
  /\ rpc' = "wait" /\ bulk' = FALSE /\ refreshEnd' = 0 /\ lastAggregated' = NoBlock
  /\ caughtUp' = FALSE /\ viewsLeft' = {} /\ committedRead' = 0
  /\ LastAggregatedBlock' = NoBlock
  /\ WebsocketNotify' = 0
  /\ spc' = "wait" /\ prices' = 0 /\ sent' = 0

(* The process starts; if the definition of the aggregates has changed they *)
(* are dropped and begin anew.                                              *)
StartProcess ==
  /\ ~up
  /\ up' = TRUE /\ cancelled' = FALSE
  /\ LoadMemory
  /\ \/ UNCHANGED <<faults, tables>>
     \/ /\ Fault
        /\ watermark' = 0 /\ current' = {} /\ running' = {}
        /\ materialized' = [v \in Views |-> 0]
        /\ UNCHANGED stored

EndProcess ==
  /\ up /\ cancelled /\ wpc = "idle" /\ rpc = "done" /\ spc = "done"
  /\ up' = FALSE /\ wpc' = "down"
  /\ UNCHANGED <<cancelled, faults, tables, synced, LastCommittedBlock, Latest, refreshRequests, refreshVars,
                 WebsocketNotify, socketVars>>

Interrupt ==
  /\ up /\ ~cancelled /\ Fault
  /\ cancelled' = TRUE
  /\ UNCHANGED <<up, tables, writerVars, refreshRequests, refreshVars, WebsocketNotify,
                 socketVars>>

Kill ==
  /\ up /\ Fault
  /\ up' = FALSE /\ wpc' = "down" /\ rpc' = "done" /\ spc' = "done"
  /\ UNCHANGED <<cancelled, tables, synced, LastCommittedBlock, Latest, refreshRequests,
                 localVars, LastAggregatedBlock, WebsocketNotify, prices, sent>>

Init ==
  /\ up = FALSE /\ cancelled = FALSE /\ faults = 0
  /\ stored = 0 /\ watermark = 0 /\ current = {} /\ running = {}
  /\ materialized = [v \in Views |-> 0]
  /\ wpc = "down" /\ synced = FALSE /\ LastCommittedBlock = 0 /\ Latest = 0
  /\ refreshRequests = FALSE
  /\ rpc = "done" /\ bulk = FALSE /\ refreshEnd = 0 /\ lastAggregated = NoBlock
  /\ caughtUp = FALSE /\ viewsLeft = {} /\ committedRead = 0
  /\ LastAggregatedBlock = NoBlock
  /\ WebsocketNotify = 0 /\ spc = "done" /\ prices = 0 /\ sent = 0

WriterStep == PublishCommitted \/ PublishLatest \/ RequestAggregatesRefresh
RefreshStep ==
  RefreshWakes \/ ReadHeights \/ RefreshView \/ ViewsDone \/ UpdateBalances \/ SetAggregated
    \/ RefreshStops
SocketStep == WaitForBlock \/ NotifyReads \/ NotifyWrites \/ SocketStops

Next ==
  \/ Flush \/ WriterStep \/ RefreshStep \/ SocketStep
  \/ StartProcess \/ EndProcess \/ Interrupt \/ Kill

Spec == Init /\ [][Next]_vars

(* The goroutines run, and the supervisor starts the process again. *)
FairSpec ==
  /\ Spec
  /\ WF_vars(WriterStep) /\ WF_vars(RefreshStep) /\ WF_vars(SocketStep)
  /\ WF_vars(StartProcess) /\ WF_vars(EndProcess)

-----------------------------------------------------------------------------
TablesOK ==
  /\ stored \in 0..MaxHeight /\ watermark \in Nat
  /\ current \subseteq Transfers
  /\ running \subseteq [height : Transfers, sum : SUBSET Transfers]
  /\ materialized \in [Views -> Nat]

RefreshOK ==
  /\ rpc \in {"wait", "read", "views", "balances", "set", "done"}
  /\ bulk \in BOOLEAN /\ caughtUp \in BOOLEAN
  /\ refreshEnd \in Nat /\ committedRead \in 0..MaxHeight
  /\ viewsLeft \subseteq Views
  /\ lastAggregated \in [height : 0..MaxHeight, timestamp : Int]
  /\ LastAggregatedBlock \in [height : 0..MaxHeight, timestamp : Int]

PublishedOK ==
  /\ wpc \in {"down", "idle", "commit", "latest", "request"}
  /\ LastCommittedBlock \in 0..MaxHeight /\ Latest \in 0..MaxHeight
  /\ spc \in {"wait", "drain", "write", "done"}
  /\ prices \in 0..MaxHeight /\ sent \in 0..MaxHeight
  /\ WebsocketNotify \in 0..PingCapacity

FlagsOK ==
  /\ up \in BOOLEAN /\ cancelled \in BOOLEAN
  /\ synced \in BOOLEAN /\ refreshRequests \in BOOLEAN

TypeOK == TablesOK /\ RefreshOK /\ PublishedOK /\ FlagsOK /\ faults \in 0..MaxFaults

AggregatedTransfers == {h \in Transfers : h <= stored /\ Timestamps[h] < watermark}

SumsExact ==
  /\ current = AggregatedTransfers
  /\ running = {[height |-> h, sum |-> {k \in current : k <= h}] : h \in current}

UpTo(id) == {h \in Transfers : h <= stored /\ Timestamps[h] <= id.timestamp}

(* Whichever calls fail or lose their answer, and however often the refresh  *)
(* begins again from the first block, each transfer below the watermark is   *)
(* in the balances exactly once, and each running balance is the sum up to   *)
(* its block.  So the API answers for every height and time it accepts with  *)
(* the transfers up to it, as far as they are aggregated; and if no call has *)
(* failed, all transfers up to a height it accepts are.                      *)
BalancesExact ==
  /\ SumsExact
  /\ up => \A id \in BlockIds :
               /\ GetBalances(id) = UpTo(id) \cap AggregatedTransfers
               /\ faults = 0 /\ id.height \in 1..LastAggregatedBlock.height =>
                    GetBalances(id) = UpTo(id)

(* What LastAggregatedBlock tells the readers does not go back while the     *)
(* process runs, once a block is committed.                                  *)
AggregatedMonotone ==
  [][up /\ up' /\ committedRead' # 0 =>
       LastAggregatedBlock.timestamp <= LastAggregatedBlock'.timestamp]_vars

AtRest ==
  /\ up /\ ~cancelled
  /\ wpc = "idle" /\ synced
  /\ rpc = "wait" /\ ~refreshRequests
  /\ spc = "wait" /\ WebsocketNotify = 0

(* In sync, when all is at rest after a requested refresh that left nothing  *)
(* to aggregate, the prices sent last are those of the newest block, though  *)
(* requests and pings are dropped and the height is published before the     *)
(* state.                                                                    *)
NoStalePrice == AtRest /\ ~bulk /\ caughtUp => sent = stored

(* Every stored block is aggregated some day, in the balances and in every   *)
(* view: catching up comes to its end, failed calls are made good.           *)
CatchesUp ==
  \A h \in 1..MaxHeight :
    stored >= h ~> (watermark > Timestamps[h] /\ \A v \in Views : materialized[v] > Timestamps[h])
=============================================================================
