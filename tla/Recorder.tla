------------------------------- MODULE Recorder -------------------------------
(***************************************************************************)
(* What becomes of the events of a block: record.ProcessBlock walks over    *)
(* them, gives each an id and calls its handler, the handlers insert rows   *)
(* and add up the depths of the pools, and the depth recorder inserts the   *)
(* depths that have changed.  The rows go through one of the two inserters; *)
(* the process may be killed and started again.                             *)
(*                                                                         *)
(* Abstractions.  The value of an attribute is its form and, if it is a     *)
(* number, what it counts; whether the schema accepts a row is given with   *)
(* the event.  A row is the event it comes from, its number among the rows  *)
(* of the event, and its id.  Asset depths are left out, as no event sets   *)
(* them.  The rows of a block itself are always accepted.  How blocks get   *)
(* here is in BlockFetch and BlockWrite; whether a block ends a batch is    *)
(* chosen freely.                                                           *)
(***************************************************************************)
EXTENDS Integers, Sequences, FiniteSets, FiniteSetsExt, Functions

CONSTANTS
  Pools,
  Chains,            \* the chains there may be: sequences of blocks
  Supplies,          \* the synths of the genesis file: pool -> amount
  Balances,          \* the number of coins in the genesis file
  OnTransferEnabled, \* config EventRecorder.OnTransferEnabled
  CommitBatchSize,
  blockHeightScale, typeDigit, txIndexScale,  \* the radices of the event ids
  MaxFaults          \* kills and rows refused for a moment, in a behaviour

(* What ParseInt makes of a value, a number, and parseCosmosCoin, a number   *)
(* and a unit; nothing else parses.                                         *)
Forms == {"empty", "number", "coin", "text"}

Attributes == [key : STRING, form : Forms, e8 : Int, accepted : BOOLEAN]

(* The types that processEvent tells apart: "tx" is for those it passes over, *)
(* "wasm-" for all that begin so, "unknown" for the rest.                    *)
Events ==
  [type : {"rewards", "instantiate", "transfer", "wasm-", "tx", "unknown"},
   attrs : Seq(Attributes), accepted : BOOLEAN]

ASSUME RecorderAssumption ==
  /\ Chains \subseteq
       Seq([FinalizeBlockEvents : Seq(Events), TxsResults : Seq(Seq(Events)), Txs : Seq(STRING)])
  /\ \A c \in Chains : \A h \in DOMAIN c : Len(c[h].Txs) = Len(c[h].TxsResults)
  /\ DOMAIN Supplies \subseteq Pools /\ \A p \in DOMAIN Supplies : Supplies[p] \in Int
  /\ {Balances, MaxFaults} \subseteq Nat /\ CommitBatchSize \in Nat \ {0}
  /\ OnTransferEnabled \in BOOLEAN
  /\ {blockHeightScale, typeDigit, txIndexScale} \subseteq Nat \ {0}

VARIABLES
  chain,      \* the chain being recorded
  pc,
  inserter,   \* "batch" or "immediate"
  height,     \* of the block in hand, or of the last one
  tx, event,  \* the loops: transaction (0 for the block's own events), events done
  EventId,    \* meta.EventId, without the height
  totals,     \* the running totals: pool -> depth, each map with the pools it knows
  snapshot,   \* what the depth recorder has seen last
  missed,     \* in this run a row of a depth was refused
  faults,
  pending,    \* the rows inserted and not yet committed
  db,         \* the rows in the database
  marked, genesis  \* in the table of constants: batch_inserter_failed, genesis

idVars == <<tx, event, EventId>>
depthVars == <<totals, snapshot, missed>>
constantRows == <<marked, genesis>>
vars == <<chain, pc, inserter, height, idVars, depthVars, faults, pending, db, constantRows>>

NoMap == [p \in {} |-> 0]
NoTotals == [qbtc |-> NoMap, synth |-> NoMap]
NoRows == [events |-> {}, depths |-> {}, log |-> {}, blocks |-> {}]
Together(a, b) == [t \in DOMAIN a |-> a[t] \cup b[t]]

At(map, p) == IF p \in DOMAIN map THEN map[p] ELSE 0

Fault == faults < MaxFaults /\ faults' = faults + 1

-----------------------------------------------------------------------------
(* Event ids. *)
FirstId == [Location |-> "finalized", TxIndex |-> 0, EventIndex |-> 1]

(* Mutant: the number of the transaction is set once. *)
SameTxId == [EventId EXCEPT !.Location = "txs", !.TxIndex = 1, !.EventIndex = 1]

NextTxId ==
  [Location |-> "txs", EventIndex |-> 1,
   TxIndex |-> IF EventId.Location = "txs" THEN EventId.TxIndex + 1 ELSE 1]

AsBigint(h, id) ==
  h * blockHeightScale + id.EventIndex
    + (IF id.Location = "txs" THEN typeDigit + id.TxIndex * txIndexScale ELSE 0)

(* eventid.go says how many events the ids allow for. *)
ASSUME IdsFit ==
  /\ Balances < blockHeightScale
  /\ \A c \in Chains : \A h \in DOMAIN c :
       /\ Len(c[h].FinalizeBlockEvents) <= typeDigit
       /\ \A t \in DOMAIN c[h].TxsResults : Len(c[h].TxsResults[t]) <= txIndexScale
       /\ typeDigit + (Len(c[h].TxsResults) + 1) * txIndexScale < blockHeightScale

HeightFromEventId(eid) == eid \div blockHeightScale

-----------------------------------------------------------------------------
(* The events and what they insert. *)
EventsOf(block, t) == IF t = 0 THEN block.FinalizeBlockEvents ELSE block.TxsResults[t]

EventAt(e) == EventsOf(chain[e[1]], e[2])[e[3]]
EventsOfLoop == EventsOf(chain[height], tx)

(* The attributes that are looked at. *)
Considered(ev) ==
  {i \in DOMAIN ev.attrs :
     ev.attrs[i].key \notin {"mode", "msg_index"} /\ ev.attrs[i].form # "empty"}

AllHaveForm(ev, key, form) ==
  \A i \in Considered(ev) : ev.attrs[i].key = key => ev.attrs[i].form = form

(* The four LoadTendermint: a malformed attribute ends the work on the event, *)
(* an unknown one does not.                                                  *)
LoadRewards(ev) == AllHaveForm(ev, "bond_reward", "number") /\ AllHaveForm(ev, "amount", "coin")
LoadInstantiate(ev) == AllHaveForm(ev, "code_id", "number")
LoadTransfer(ev) == OnTransferEnabled /\ AllHaveForm(ev, "amount", "coin")
LoadCosmWasm(ev) == TRUE

Loads(ev) ==
  \/ ev.type = "rewards" /\ LoadRewards(ev)
  \/ ev.type = "instantiate" /\ LoadInstantiate(ev)
  \/ ev.type = "transfer" /\ LoadTransfer(ev)
  \/ ev.type = "wasm-" /\ LoadCosmWasm(ev)

(* The pool amounts of a rewards event; an attribute that is no number is skipped. *)
PerPool(ev) ==
  {i \in Considered(ev) : /\ ev.attrs[i].key \notin {"bond_reward", "validator", "amount"}
                          /\ ev.attrs[i].form = "number"}

(* The pools are those that have rewards. *)
ASSUME PoolsAssumption ==
  \A c \in Chains : \A h \in DOMAIN c : \A t \in 0..Len(c[h].TxsResults) :
    \A k \in 1..Len(EventsOf(c[h], t)) :
      LET ev == EventsOf(c[h], t)[k]
      IN  ev.type = "rewards" => \A i \in PerPool(ev) : ev.attrs[i].key \in Pools

(* The rows of an event, in this order: its own, and one of each pool amount. *)
(* TRUE stands for a row the schema accepts.                                  *)
RowsOf(ev) ==
  LET entries == IF ev.type = "rewards" THEN PerPool(ev) ELSE {}
  IN  [part \in IF Loads(ev) THEN {0} \cup entries ELSE {} |->
        IF part = 0 THEN ev.accepted ELSE ev.attrs[part].accepted]

Row(e, part, id) == [event |-> e, part |-> part, id |-> id]
Accepted(row) == row.event[1] = 0 \/ RowsOf(EventAt(row.event))[row.part]

(* The rows of an event that go in before one is refused: the batch inserter *)
(* takes any, the immediate one those before the first the schema refuses.   *)
Taken(ev) ==
  LET rows == RowsOf(ev)
  IN  {part \in DOMAIN rows :
         inserter = "batch" \/ \A other \in DOMAIN rows : other <= part => rows[other]}

(* What a rewards event has for a pool in some of its entries. *)
Amount(ev, entries, p) ==
  SumFunctionOnSet([i \in entries |-> ev.attrs[i].e8], {i \in entries : ev.attrs[i].key = p})

AddAll(map, ev, entries) ==
  [p \in DOMAIN map \cup {ev.attrs[i].key : i \in entries} |->
    At(map, p) + Amount(ev, entries, p)]

(* Mutant: the depths are added to as the entries go in. *)
AddPerEntry(ev, taken) ==
  IF ev.type = "rewards"
  THEN [totals EXCEPT !.qbtc = AddAll(@, ev, taken \ {0})] ELSE totals

(* OnRewards adds to the depths when all of its rows are in. *)
AddPoolDepths(ev, taken) ==
  IF ev.type = "rewards" /\ taken # {} /\ taken = DOMAIN RowsOf(ev)
  THEN [totals EXCEPT !.qbtc = AddAll(@, ev, PerPool(ev))] ELSE totals

-----------------------------------------------------------------------------
(* The process. *)
LastRow(log) == CHOOSE r \in log : \A s \in log : s.height <= r.height

LoseMemory ==
  /\ pc' = "down" /\ inserter' = "batch" /\ height' = 0
  /\ tx' = 0 /\ event' = 0 /\ EventId' = FirstId
  /\ totals' = NoTotals /\ snapshot' = NoTotals /\ missed' = FALSE
  /\ pending' = NoRows

(* SetupDoNotCallDirectly, CheckBatchInserterMarked *)
ChosenInserter == IF marked THEN "immediate" ELSE "batch"

(* timeseries.Setup: the totals of the newest block, nothing in the depth recorder. *)
StartProcess ==
  /\ pc = "down"
  /\ db.log # {} => LastRow(db.log).saved
  /\ inserter' = ChosenInserter
  /\ height' = IF db.log = {} THEN 0 ELSE LastRow(db.log).height
  /\ totals' = IF db.log = {} THEN NoTotals ELSE LastRow(db.log).agg
  /\ pc' = "genesis"
  /\ UNCHANGED <<chain, idVars, snapshot, missed, faults, pending, db, constantRows>>

(* LoadGenesis: synths are added to the totals, coins are transfer rows of   *)
(* the block before the first one.  (The module Boot has its failures.)      *)
LoadGenesis ==
  LET Gen(i) == Row(<<0, 0, i>>, 0, AsBigint(0, [FirstId EXCEPT !.EventIndex = i]))
  IN  /\ pc = "genesis" /\ ~genesis
      /\ totals' = [totals EXCEPT !.synth = [p \in DOMAIN @ \cup DOMAIN Supplies |->
                                              At(@, p) + At(Supplies, p)]]
      /\ db' = [db EXCEPT !.events = @ \cup
                  (IF OnTransferEnabled THEN {Gen(i) : i \in 1..Balances} ELSE {})]
      /\ genesis' = TRUE
      /\ pc' = "select"
      /\ UNCHANGED <<chain, inserter, height, idVars, snapshot, missed, faults, pending, marked>>

GenesisExists ==
  /\ pc = "genesis" /\ genesis
  /\ pc' = "select"
  /\ UNCHANGED <<chain, inserter, height, idVars, depthVars, faults, pending, db, constantRows>>

(* The next block: StartBlock, and the head of ProcessBlock. *)
StartBlock ==
  /\ pc = "select" /\ height < Len(chain)
  /\ height' = height + 1
  /\ tx' = 0 /\ event' = 0 /\ EventId' = FirstId
  /\ pc' = "event"
  /\ UNCHANGED <<chain, inserter, depthVars, faults, pending, db, constantRows>>

(* processEvent: the rows go in up to the first that is refused, in the      *)
(* immediate mode also for another reason; the id moves on in any case.      *)
ProcessEvent ==
  LET ev == EventsOfLoop[event + 1]
      id == AsBigint(height, EventId)
  IN  /\ pc = "event" /\ event < Len(EventsOfLoop)
      /\ \E refused \in 0..Len(ev.attrs) + 1 :
           LET taken == {part \in Taken(ev) : part < refused}
           IN  /\ IF taken = Taken(ev) THEN UNCHANGED faults ELSE inserter = "immediate" /\ Fault
               /\ pending' = [pending EXCEPT !.events =
                                @ \cup {Row(<<height, tx, event + 1>>, part, id) : part \in taken}]
               /\ totals' = AddPoolDepths(ev, taken)
      /\ event' = event + 1
      /\ EventId' = [EventId EXCEPT !.EventIndex = @ + 1]
      /\ UNCHANGED <<chain, pc, inserter, height, tx, snapshot, missed, db, constantRows>>

NextTx ==
  /\ pc = "event" /\ event = Len(EventsOfLoop) /\ tx < Len(chain[height].TxsResults)
  /\ tx' = tx + 1 /\ event' = 0
  /\ EventId' = NextTxId
  /\ UNCHANGED <<chain, pc, inserter, height, depthVars, faults, pending, db, constantRows>>

-----------------------------------------------------------------------------
(* The end of timeseries.ProcessBlock: the rows of the block, the depths, the flush. *)

(* Mutant: a pool the snapshot does not know counts as unchanged. *)
ChangedInSnapshot(was, now, p) == p \in DOMAIN was /\ At(was, p) # At(now, p)

(* mapDiff.diffAtKey *)
DiffAtKey(was, now, p) ==
  IF p \in DOMAIN now THEN p \notin DOMAIN was \/ was[p] # now[p] ELSE p \in DOMAIN was

ChangedPools ==
  {p \in Pools : \/ DiffAtKey(snapshot.qbtc, totals.qbtc, p)
                 \/ DiffAtKey(snapshot.synth, totals.synth, p)}

DepthRow(p) ==
  [height |-> height, pool |-> p, qbtc |-> At(totals.qbtc, p), synth |-> At(totals.synth, p)]

LogRow(saved) ==
  [height |-> height, saved |-> saved, agg |-> IF saved THEN totals ELSE NoTotals]

(* BuildBlocksPayload: all events, and the transactions that have a result.  *)
BlocksPayload(h) ==
  [height |-> h,
   finalized_events |-> chain[h].FinalizeBlockEvents,
   txs |-> SubSeq(chain[h].TxsResults, 1, Min({Len(chain[h].Txs), Len(chain[h].TxsResults)}))]

(* depthManager.update goes over the pools in any order and ends at the first *)
(* row that is refused; the snapshot is saved all the same.                   *)
EndEvents ==
  /\ pc = "event" /\ event = Len(EventsOfLoop) /\ tx = Len(chain[height].TxsResults)
  /\ \E synced \in BOOLEAN, written \in SUBSET ChangedPools :
       LET commit == inserter = "immediate" \/ synced \/ height % CommitBatchSize = 0
                       \/ height = 1
       IN  /\ IF written = ChangedPools THEN UNCHANGED <<faults, missed>>
              ELSE inserter = "immediate" /\ Fault /\ missed' = TRUE
           /\ pending' = [pending EXCEPT !.log = @ \cup {LogRow(commit)},
                                         !.blocks = @ \cup {BlocksPayload(height)},
                                         !.depths = @ \cup {DepthRow(p) : p \in written}]
           /\ pc' = IF commit THEN "flush" ELSE "select"
  /\ snapshot' = totals
  /\ UNCHANGED <<chain, inserter, height, idVars, totals, db, constantRows>>

(* Mutant: an error of the COPY is overlooked. *)
NoErrorSeen == TRUE

FlushAccepted == \A r \in pending.events : Accepted(r)

(* EndBlock in the immediate mode, Flush of the batch. *)
Commit ==
  /\ pc = "flush" /\ FlushAccepted
  /\ db' = Together(db, pending) /\ pending' = NoRows
  /\ pc' = "select"
  /\ UNCHANGED <<chain, inserter, height, idVars, depthVars, faults, constantRows>>

FlushRejected ==
  /\ pc = "flush" /\ ~FlushAccepted
  /\ marked' = TRUE
  /\ LoseMemory
  /\ UNCHANGED <<chain, faults, db, genesis>>

(* The process is killed or gives up; a COMMIT on its way may have been done. *)
Kill ==
  /\ pc # "down" /\ Fault
  /\ \/ UNCHANGED db
     \/ pc = "flush" /\ FlushAccepted /\ db' = Together(db, pending)
  /\ LoseMemory
  /\ UNCHANGED <<chain, constantRows>>

Init ==
  /\ chain \in Chains
  /\ pc = "down" /\ inserter = "batch" /\ height = 0
  /\ tx = 0 /\ event = 0 /\ EventId = FirstId
  /\ totals = NoTotals /\ snapshot = NoTotals /\ missed = FALSE
  /\ faults = 0
  /\ pending = NoRows /\ db = NoRows
  /\ marked = FALSE /\ genesis = FALSE

Next ==
  \/ StartProcess \/ LoadGenesis \/ GenesisExists
  \/ StartBlock \/ ProcessEvent \/ NextTx \/ EndEvents
  \/ Commit \/ FlushRejected \/ Kill

Spec == Init /\ [][Next]_vars

-----------------------------------------------------------------------------
Written == Together(db, pending)

TotalsType(t) ==
  /\ DOMAIN t = {"qbtc", "synth"}
  /\ \A m \in DOMAIN t : DOMAIN t[m] \subseteq Pools /\ \A p \in DOMAIN t[m] : t[m][p] \in Int

(* Every variable has its type, nothing is pending while the process is down, *)
(* and the database holds no row the schema refuses, only whole batches.      *)
TypeOK ==
  /\ chain \in Chains /\ height \in 0..Len(chain)
  /\ pc \in {"down", "genesis", "select", "event", "flush"}
  /\ inserter \in {"batch", "immediate"}
  /\ EventId \in [Location : {"finalized", "txs"}, TxIndex : Nat, EventIndex : Nat \ {0}]
  /\ pc = "event" => tx \in 0..Len(chain[height].TxsResults) /\ event \in 0..Len(EventsOfLoop)
  /\ TotalsType(totals) /\ TotalsType(snapshot)
  /\ {missed, marked, genesis} \subseteq BOOLEAN /\ faults \in 0..MaxFaults
  /\ pc = "down" => pending = NoRows
  /\ \A r \in db.events : Accepted(r)
  /\ db.log # {} => LastRow(db.log).saved

(* The order in which the chain has its events: genesis, then by block, then *)
(* the block's own events, then transaction by transaction.                  *)
Before(e, f) ==
  \/ e[1] < f[1]
  \/ e[1] = f[1] /\ (e[2] < f[2] \/ (e[2] = f[2] /\ e[3] < f[3]))

(* Event ids order the rows as the chain orders the events, through skipped, *)
(* refused and unknown events, empty transactions and restarts, up to the    *)
(* largest number of events in a transaction; the rows of one event share    *)
(* its id, and the id gives the height back.                                 *)
EventIdsInOrder ==
  \A r, s \in Written.events :
    /\ r.event = s.event <=> r.id = s.id
    /\ Before(r.event, s.event) => r.id < s.id
    /\ HeightFromEventId(r.id) = r.event[1]

(* The rewards events up to height h with all their rows there. *)
WholeRewards(rows, h) ==
  {e \in {r.event : r \in rows} :
     /\ e[1] \in 1..h /\ EventAt(e).type = "rewards"
     /\ {r.part : r \in {q \in rows : q.event = e}} = DOMAIN RowsOf(EventAt(e))}

Recorded(rows, h) ==
  [p \in Pools |-> SumFunctionOnSet([e \in WholeRewards(rows, h) |->
                                       Amount(EventAt(e), PerPool(EventAt(e)), p)],
                                    WholeRewards(rows, h))]

SameDepths(map, sums) == \A p \in Pools : At(map, p) = sums[p]

(* A rewards event counts for the depths exactly when all of its rows have   *)
(* been taken: one whose later entry was refused leaves its first entries in *)
(* the table and must not move any pool.  So the totals in memory are the    *)
(* sums over the rows written, and every saved state that over the rows      *)
(* stored up to its block, whatever was refused, lost or replayed.           *)
DepthsAreRewards ==
  /\ pc # "down" => SameDepths(totals.qbtc, Recorded(Written.events, height))
  /\ \A r \in db.log : r.saved => SameDepths(r.agg.qbtc, Recorded(db.events, r.height))

NewestDepth(p) ==
  LET rows == {r \in Written.depths : r.pool = p}
  IN  IF rows = {} THEN <<0, 0>>
      ELSE LET r == CHOOSE r \in rows : \A s \in rows : s.height <= r.height
           IN  <<r.qbtc, r.synth>>

(* Only changes are stored, compared with a snapshot that a restart forgets  *)
(* and a rollback outlives: still, once a run of the process has recorded a  *)
(* block, the newest row of every pool is its depth, unless a row of this    *)
(* run was refused.  What an earlier run has missed is made up for.          *)
DepthRowsCurrent ==
  pc \in {"select", "flush"} /\ snapshot # NoTotals /\ ~missed =>
    \A p \in Pools : NewestDepth(p) = <<At(totals.qbtc, p), At(totals.synth, p)>>
=============================================================================
