# A verification development of btcq-indexer

`btcq-indexer` follows a Cosmos-style chain (THORNode's `bitcoinq` descendant),
writes its blocks and events to a TimescaleDB database, keeps aggregates of
them and serves both over HTTP and websockets. This directory holds TLA+
modules that model the program, TLC configurations that check them on small
instances, and TLAPS proofs that hold for every value of the constants.

    tlc -workers 2 -config MCIndexer.cfg MCIndexer      # model-check one run
    tlapm IndexerProofs.tla                             # check the proofs of a module

Contents: 1 inventory, 2 plan, 3 the modules, 4 the runs, 5 fairness,
6 the proofs, 7 what is abstracted or left out, 8 findings.

## 1. Inventory

One process (`cmd/btcq-indexer/main.go`) runs a handful of jobs, each a
goroutine with a shared context. A cancelled context means "stop"; `main` waits
for the jobs with a timeout and exits, and the supervisor
(`docker-compose.yml:7`, `restart: unless-stopped`) starts it again. The jobs
meet in a few shared variables (`db.LastThorNodeBlock`, `LastFetchedBlock`,
`LastCommittedBlock`, `FirstBlock`, ...), two channels (blocks; refresh
requests) and the database.

| component | state | operations | hard behaviour | correct when |
|---|---|---|---|---|
| BlockFetch (`internal/fetch/sync`, `.../chain`) | next height, failed target, error count, iterator (target, position, source, batch), the bounded channel | `KeepInSync`, `CatchUp`, `Iterator.Next`, `nextBatch` | results served later than the status; half-filled batches; retries with an old target; a full channel whose reader has left | every height sent once, in order; gives up only after repeated errors at one height; never blocks a shutdown |
| BlockWrite (`blockwriter.go`, `timeseries.ProcessBlock`, `db/inserter.go`) | block in hand, pending rows, running depths, choice of inserter | take, process, flush, publish | crash between batch and flush; lost COMMIT answer; rows the schema rejects; first block unknown; hard fork | the database can be restarted from at every moment; tip is not held back; nothing beyond the fork |
| event recording (`internal/fetch/record`) | `Recorder`'s depth maps, pool and mimir state | one handler per event type, `OnRewards` among them | rows accepted or rejected one by one in the immediate mode | depths = sum of the stored events |
| process life cycle (`main.go`, `util/jobs`) | main context, jobs running | start, signal, `InitiateShutdown`, `ShutdownWait` | shutdown initiated by any job at any point | every shutdown ends, a restart resumes |
| published heights (`globalblocks.go`) | one mutex-guarded value per height | set, get, `SetAndCheckFirstBlock`, `EnsureDBMatchesChain`, `PreventOverrunAfterFork` | read by other jobs between two of the writer's steps | never ahead of what was committed; a foreign database is refused |
| batch inserter mark (`db/db.go`) | row in `constants` | mark, check, reset | the mark must survive the exit it precedes | set when, and only when, a batch cannot be inserted |
| aggregates (`db/aggregates.go`) | request channel, watermarks, `LastAggregatedBlock`, materialised views | request, periodic refresh, catch-up in steps | dropped requests; single refreshes failing; crash between view and watermark | the aggregates reach the newest block |
| block store (`.../sync/blockstore`) | chunk files, hashes, unfinished file, last fetched height | open, clean up, dump, finalise, download, read | kill between remove and rename; missing chunk; hash mismatch | what can be read is a gapless prefix of the chain |
| chain ancestry, hard forks (`chainancestry.go`) | map of chains with parents, start and fork heights | merge with config, find root | loops, missing parents | one root; heights consistent |
| genesis (`db/genesis.go`, `record/genesis*.go`, `sync.go` `CheckGenesisStatus`) | cached genesis, "genesis written" constant | load, write once | crash between the constant and the rows | written exactly once |
| depth recorder, latest state (`timeseries/depthrecorder.go`, `latest.go`) | snapshots of the depths, latest block state | update, set/get | snapshot empty after a restart; errors overwritten | stored depths reproduce the running ones |
| websockets (`internal/websockets`) | connections, connections per pool, two mutexes | subscribe, unsubscribe, write, clear, ping | lock order, map updates between locks, closed connections | no deadlock, no connection left behind |
| event ids, buckets (`db/eventid.go`, `buckets.go`) | none (pure) | encode, parse, generate | digits running over, last bucket | order kept, inverse of each other |
| schema (`db/db.go`, `cmd/nukedb`) | hash of the schema per part | compare, apply, store | kill between applying and storing | a start finishes what another began |
| reading: blocks list, earnings, history, balances (`db/blocks.go`, `stat/`, `timeseries/balance.go`) | none; the database under it moves | page, sum over an interval, fill buckets | commits between two queries of one answer; interval ends within a day | no block missed, each row summed once, each bucket there once |
| trimming (`db/migrates.go`, `cmd/trimdb`) | the whole database | delete from a height on | fails on its first statement, see 7 | - |
| API cache (`api/cache.go`) | cached responses | refresh | - | - |
| other HTTP endpoints, configuration, logging, generated code, tests | none of interest | queries, formatting | - | - |

`PROJECT.json` lists all of them with their status, and under "hazards" every
place in this code that is hard to test, each with the properties that watch it.

How they interact: `BlockFetch --blocks channel--> BlockWrite --transactions-->
block_log + event tables`, `BlockWrite --request channel (capacity 1)-->
AggregatesRefresh`, which reads `LastCommittedBlock`; the websockets job is
pinged after a refresh; HTTP handlers and the cache only read.

## 2. Plan

Order: the block pipeline first, since it is what all else reads.

1. `BlockFetch`, `BlockWrite`, composed by `Indexer` with the node, the
   database and the process life cycle; abstract specification `Ledger`;
   inductive invariant `IndexerInv` and proofs `IndexerProofs`. **Done.**
2. `Aggregates`: the refresh job between the writer and the websockets, with
   the balances it keeps and the reader of them. **Done, proved.**
3. `BlockStore`: the directory of chunks under all the tools that use it;
   abstract specification `Archive`, which it is proved to implement.
   **Done, proved.**
4. `Recorder`: events, ids, depths and depth rows across restarts, rejected
   rows and both inserters. **Done, proved.**
5. `Websockets`: the connection maps, their locks and the goroutines that hold
   them. **Done, proved.**
6. `Boot` with `ChainAncestry`: schema, genesis, ancestry and the checks of the
   database at the start. **Done, proved.**
7. `Queries`: readers of the recorder's database, checked against reference
   definitions while blocks are committed. **Done, proved.**

"Proved" means all safety properties, each with an inductive invariant in a
module of its own; section 6 says what stays with TLC.

## 3. The modules

| module | models | code |
|---|---|---|
| `BlockFetch` | the node as its client sees it, `KeepInSync`, `CatchUp`, both iterators, `nextBatch` | `sync.go`, `iterator.go`, `chain/chain.go` |
| `BlockWrite` (extends `BlockFetch`) | `blockWriter.loop`, `ProcessBlock`, both inserters, the mark, publishing, the request channel | `blockwriter.go`, `timeseries.go`, `inserter.go`, `db.go`, `globalblocks.go`, `record.go`, `aggregates.go` |
| `Indexer` (extends `BlockWrite`) | the two together with start, restart, interrupt and crash; all properties | `main.go`, `jobs`, `timeseries.Setup` |
| `Ledger` | what readers of the database are promised | abstract |
| `<component>Inv` | the inductive invariant of `Indexer`, `BlockStore`, `Aggregates`, `Websockets`, `Boot`, `Recorder`, `Queries` | - |
| `<component>Proofs` | the theorems about each of them, and their proofs | - |
| `SetFacts` | lemmas shared by the proofs: least and greatest elements, images, sums over finite sets, the order of a finite set of numbers | - |
| `BlockStore` | chunk files, download, dump, fragment, the reader, the stored form of a block | `blockstore/*.go`, `cmd/blockstore/dump`, `fragment` |
| `Archive` | what is promised of the directory: chunks are only added | abstract |
| `Aggregates` | writer's publishing steps, refresh job, balances, pings, notifier, balance reader | `aggregates.go`, `balances.sql`, `latest.go`, `balance.go`, `websockets.go` |
| `Websockets` | handlers, epoll, reader, notifier, both mutexes | `websockets.go`, `connectionmanager.go`, `websockets_linux.go` |
| `ChainAncestry` | merging fork infos, the root of a chain (operators only) | `chainancestry.go` |
| `Boot` (extends `ChainAncestry`) | schema, node status, checks, genesis, up to the running indexer | `db.go`, `ddl.go`, `globalblocks.go`, `sync.go`, `genesis.go`, `cmd/nukedb` |
| `Recorder` | dispatch and parsing of events, ids, totals, depth rows, both inserters | `record/*.go`, `eventid.go`, `depthrecorder.go`, `inserter.go`, `timeseries.go` |
| `Queries` (extends `Recorder`) | the blocks pages, earnings over an interval, bucketed history | `blocks.go`, `json.go`, `UnionQuery`, `buckets.go`, `depth.go`, `earnings.go` |
| `MC...` | the instances TLC runs | - |

### The pipeline (`BlockFetch`, `BlockWrite`, `Indexer`)

A block is its height and the chain starts at 1. `fpc` and `wpc` are
the program counters of the two goroutines (`KeepInSync`/`CatchUp` and
`blockWriter.loop`); the other variables have the names of the code where they
exist there. `block_log` is a set of rows; a row stands for all the rows of its
block, and its field `agg` is `agg_state`, abstracted to the set of the heights
whose rewards it includes. So "the depths are right" is a statement on sets:
those heights are exactly the ones whose rewards rows are stored.

An action is what one goroutine does between two points at which
another can see or disturb it: a channel operation, a published variable, a
transaction. `CatchUp` is split at its status call, each `Next` and each send;
`Next` at the switch from the store to the chain; the writer at receive,
process, flush, and then three publishing steps (`SetLastBlock`,
`SetAndCheckFirstBlock`, `RequestAggregatesRefresh`), because the refresh job
reads between them.

A failed RPC or database call, a signal and a kill each take one of
`MaxFaults`; a row the schema rejects, a result that is not ready and the
store running out of blocks are no faults and cost nothing. The end of the
process, however it comes, loses everything but the database (`LoseMemory`);
`COMMIT` may or may not have taken effect when its answer is lost.
`StartProcess` is enabled when the newest row has a saved state. In the code
`Setup` fails otherwise and the process never runs again: in the model that is
a deadlock, and `DatabaseConsistent` says that it cannot occur.

### `BlockStore` and `Archive`

The state is the directory (`chunks`: name of a chunk to the lines in it) and
one tool at a time on it: the indexer opening the store and reading, the dump
command, or the fragment command. A temporary file is the content written so
far (`current`) and disappears with the process or at the next clean-up.
`finalizeChunk` is two steps, `RemoveOld` and `RenameNew`. A block carries its
events, raw transactions and evidence, because the conversions of
`storedblock.go` are modelled by what they do: events are split into two lists
by their attribute `mode`, the attribute is dropped (leaving a nil gap that the
way back skips) and added again at the end, evidence is not copied. The owner
may have made any directory of whole chunks, with holes, and with blocks that
have no `PureBlock` (`Init`). An error of the reader ends the indexer; the job
of `fragment` returns and its `main` goes on waiting for a signal
(`fragment.go:64`, `:122`), which is the state `Stranded`. `Archive` promises that a chunk, once there,
stays.

### `Aggregates`

Heights stand for blocks, timestamps are given by a constant. The writer
commits and publishes in four steps (`Flush`, `PublishCommitted`,
`PublishLatest`, `RequestAggregatesRefresh`); the refresh job wakes, reads the
heights, refreshes each view (each may fail), updates the running balances in
one transaction with their watermark (which may fail), and then sets
`LastAggregatedBlock` and pings. The notifier of the websockets takes a ping,
reads the latest price and sends it in two steps.

### `Websockets`

Descriptors are few and used again. A connection is a number; `socket` says
which one a descriptor belongs to in the operating system, `connections` which
one the manager holds, `assetFDs` which descriptors have asked for a pool.
`Add` is `epollAdd` and then the map; `Remove` is `epollDel` and then map and
close under the mutex. `assetMutex` appears in its guards: `ReaderRLock` and
`CanLock` follow the Go `RWMutex`, in which a waiting writer holds back new
readers, and that is what turns a lock inside a read lock into a wait for
ever. The two places that read `connections` without its mutex are an action
(`ConcurrentMapAccess`) with which the process may crash. A message that names
a pool the latest state does not have is refused and its connection removed
(`Accepted`). A client may close, or keep its connection and neither send nor
read: reads and writes have no deadline.

All of this is latent at this commit: no route leads to `WsHandler` and no event
adds a pool to the latest state (`LatestPools` is empty), so every message would
be refused and nothing written. The module keeps the set of pools a constant.

### `ChainAncestry`, `Boot`

A start is a sequence of steps (`pc`) with a kill possible at each: schema of
the data and of the aggregates (compare, apply, store the hash), the newest
row, the node's status and ancestry, genesis check, first-block and fork
checks, genesis constant, genesis rows, and then blocks. Between two starts the
operator may change the node, the configuration or the release (which fork
heights are known), the genesis file and the two prohibitions of schema updates
(`no_auto_update_ddl` for the data, `no_auto_update_aggregates_ddl` for both
schemas, `db.go:125`, `:130`), or run `nukedb`. A hash is the block it belongs to.

### `Recorder`, `Queries`

A chain is a sequence of blocks of events with their attributes; an attribute
has a form (empty, number, coin, text), which is all the four `LoadTendermint`
tell apart, an amount and whether the schema accepts its row. One step is one
event, so that a kill, a rejected row or a rejected batch can come anywhere.
`pending` is the batch or the open transaction, `db` what is committed. The
radices of the event ids are constants, small in the instance, so that the
limits of `eventid.go` come within reach. `Queries` adds one reader with its
own steps: a page of blocks, a single block, a sum of earnings over an
interval, a history in two queries, with commits between the steps. Days and
months are those of a small calendar: days of 3 seconds and months of 2 or 3
days.

## 4. The runs

| run | cfg | question | bounds |
|---|---|---|---|
| `pipeline_safety` | `MCIndexer.cfg` | all safety properties of the pipeline, the refinement of `Ledger`, the inductive invariant; deadlock is checked | 5 heights, batches of 2 (fetch) and 3 (commit), store up to 2, blocks 2 and 3 rejected (the rewards of 3), 2 faults, first block unknown to the node |
| `pipeline_liveness_fork` | `MCIndexerFork.cfg` | liveness, and the hard fork at 3 of 4 | 1 fault, block 2 rejected with its rewards |
| `checked_iterator` | `MCIndexerChecked.cfg` | finding 1 | violation expected |
| `spurious_mark` | `MCIndexerMark.cfg` | finding 2 | violation expected |
| `block_store` | `MCBlockStore.cfg` | what the directory holds and gives back; deadlock is checked | 8 heights, chunks of 2, fork at 7, genesis at 3, chunks 2, 4, 6 listed remotely, 3 kinds of blocks, 2 faults |
| `fragment_fills` | `MCBlockStoreFragment.cfg` | finding 3 | violation expected |
| `aggregates` | `MCAggregates.cfg` | balances, catch-up and prices; deadlock is checked | 3 blocks at 3, 12, 13, steps of 4, transfers in 1 and 3, one view, 2 faults |
| `websockets` | `MCWebsockets.cfg` | the maps against the operating system and the clients | 2 pools asked for together, an unknown one, 2 descriptors, 1 handler, 2 connections |
| `boot` | `MCBoot.cfg` | what a start may find and make of it | old chain, new chain from height 3 on and another chain, 4 heights, genesis at 2, 3 releases, with and without genesis, no update prohibited or those of the data or all, 5 kills and acts of the operator |
| `boot_genesis` | `MCBootGenesis.cfg` | finding 4 | violation expected |
| `recording_and_reading` | `MCQueries.cfg` | what is recorded of a chain and read of it | all chains of 3 different blocks out of 4, 2 pools, commit batches of 2, 2 faults, calendar below |
| `earnings_of_an_hour` | `MCQueriesHour.cfg` | finding 5 | violation expected |

Deadlock is not checked where the system may stop: a goroutine that waits for
itself or clients that have had all their connections (`websockets`), a start
that is rightly refused (`boot`), a chain recorded to its end
(`recording_and_reading`).

The properties of the pipeline, in `Indexer.tla`:

- `PipelineInOrder`: pending rows, the block in hand and the channel are
  consecutive from the database to the fetcher, whatever retries, batches,
  source switches and restarts have happened.
- `DatabaseConsistent`: in every state, no height missing or twice, newest row
  with a saved state, and every saved state the sum of the stored rewards.
- `NoStrandedBlocks`: with the fetcher and the channel at rest at the node's
  height, no block waits in an unflushed batch. It depends on when the fetcher
  sets `LastThorNodeBlock`, which the writer's `synced` reads.
- `RefreshNotLost`: in the same situation and with no request waiting, the last
  refresh has seen the newest block; the request channel drops requests, so
  this depends on publishing the height first.
- `FirstBlockBeforeOthers`: an unannounced first block is stored and published
  before a second one is batched.
- `ImplementsLedger`: the database, seen through its newest row, implements
  `Ledger` (`recorded` grows, what is lost is only what the schema rejects).
- `NeverPastFork`, `EveryBlockStored`, `ShutdownEnds`: the fork is respected
  across the wait and the endless restarts after it; every block up to the fork
  gets stored, a rejected batch through mark, restart and immediate inserter;
  every shutdown ends.
- `TypeOK`, `IInv`: types, capacities and the error limit; the invariant of the
  proofs.

Of the block store, in `BlockStore.tla`:

- `ChunksWhole`: a file with the name of a chunk holds its heights, each once
  and in order, whatever was interrupted, killed or downloaded badly.
- `ReaderFailsOnlyAtGap`: the reader passes every boundary between chunks, the
  short chunk at the fork included, and fails only where a chunk is missing.
- `LostChunkRestored`: an update that got through its list has closed every
  hole in it, below the last chunk too.
- `RecordedAsFetched`: a block read back gives the recorder the same
  transactions, events, order and attributes as the node's block. It rests on
  nodes listing the events of the end of a block last (`NodeOrder`).
- `ImplementsArchive`: chunks appear whole, the next one or a listed one, and
  none disappears, although `finalizeChunk` removes before it renames: no tool
  ever finalises a chunk that is there.
- `RunsEnd`: if the node and the remote repository answer, every run of a tool
  ends, unless it is a fragment command that has met an error and gets no
  signal; whether they answer or not, an interrupted run ends, unless it waits
  for a download that never does.
- `FragmentFills`: fragment gets past every stored block. Finding 3.

Of the aggregates, in `Aggregates.tla`:

- `BalancesExact`: each transfer below the watermark is in the balances once,
  each running balance is the sum up to its block, and the API's answer for a
  height or a time is that sum.
- `AggregatedMonotone`: what `LastAggregatedBlock` tells readers does not go
  back while the process runs.
- `NoStalePrice`: when all is at rest, the prices sent last are those of the
  newest block, though requests and pings are dropped.
- `CatchesUp`: every stored block reaches the balances and every view.

Of the websockets, in `Websockets.tla`:

- `WritesToSubscriber`: whoever is written to is connected and has asked for
  the pool, or is being unsubscribed at this moment.
- `SubscriptionsMatch`: between two instructions the subscriptions are what the
  connected clients have asked for.
- `NoConnectionLost`: an open connection is in epoll and in the map, unless it
  is being added or removed; a descriptor used again is not removed by mistake.
- `StopsUnlessBlocked`: a cancelled job ends unless the notifier waits for
  itself (`websockets.go:247`), the runtime has ended the process, or a client
  keeps one of the goroutines for ever: one that never sends the rest of a
  message, or one that does not read while it is written to
  (`websockets.go:243`, `:374`).

Of the start, in `Boot.tla`:

- `OneChain`: no blocks of chains with different first blocks in one database,
  and no height left out.
- `NoBogusBlocks`: a process that follows the new chain has no block of the
  dead chain beyond the fork, whenever the fork height came to be known.
- `GenesisOnce`: the genesis rows are stored at most once, before any block.
- `ComesUp`: once faults cease, the process comes up or has one of the reasons
  listed in `RightlyRefused`.

Of recording and reading, in `Recorder.tla` and `Queries.tla`:

- `EventIdsInOrder`: ids order the rows as the chain orders the events, and
  give the height back.
- `DepthsAreRewards`: an event counts for the depths exactly when all of its
  rows have been taken, in memory and in every saved state.
- `DepthRowsCurrent`: the newest depth row of each pool is its depth once a run
  of the process has recorded a block, unless a row of this run was refused.
- `PagesLeaveNoGap`: a client that pages through the blocks never steps over
  one that was there, and sees each as the chain has it.
- `PeriodsAreSums`: the earnings of a period that reaches over midnight are the
  sum of its entries.
- `HistoryDense`: the buckets of a history are consecutive in the calendar, no
  more than were asked for, and cover the blocks of the window (one that ends
  before it begins has a single bucket or no answer); each has the newest depths
  before its end. Section 7 lists what it exempts.

### Bounds

*Pipeline.* 5 heights with a commit batch of 3 give a full batch
(1 to 3, or 1 alone then 2 and 3 when the first block is unknown), a batch cut
short by the tip and one begun after a full one; a fetch batch of 2 gives
full and short batches and a channel that fills while the writer is in a flush;
the store ends in the middle of a catch-up; two faults give a fault during the
recovery from a fault; rejected blocks 2 and 3 fail together in one batch, one
losing its rewards and one not. All actions fire; `ForkTimeout` only in the
fork run.

*Block store.* 8 heights in chunks of 2 with a fork at an odd height give full
chunks, the short one forced by the fork, and the unfinished one beyond; the
genesis at 3 makes the first chunk of the list one to skip; every set of chunks
and every choice of old ones is an initial state; two faults interrupt a run and
the run that repairs it. The three kinds of blocks have events of all three
modes, a `mode` that is last, first or in a transaction, an empty value, and
evidence.

*Aggregates.* From 3 to 12 are three steps of 4, from 12 to 13 a fraction of
one; the first block has a transfer, one later has, one has none. Two faults:
a failed refresh and a kill during its repetition.

*Websockets.* Two descriptors and two connections are the smallest instance in
which a descriptor is used again while another connection is being handled; two
pools asked for in one instruction are what a partly carried out instruction
needs; the third pool is one that the latest state does not have. One handler at
a time adds a connection while the reader removes another; two handlers at once,
or three of anything, no longer fit the time of a run. The proofs have any
number.

*Boot.* With four faults the genesis can be switched off after its constant is
stored, a block be written and the genesis be switched on again, with kills
between, after which every start is refused; five leave one more for a change of
the node, the release or a prohibition. Each change of the configuration may
change all of it at once. The genesis comes after the first possible block and at the fork.

*Recorder and queries.* The four blocks hold between them: rewards for two
pools with attributes to be dropped, a rewards event whose second entry is
refused, a refused transfer, empty and failed transactions, malformed
attributes, a contract event, an unknown event, a negative amount, two rewards
events in one block. The three events that an id has room for in a transaction
are used up. Blocks are
at 4, 8 and 14 in days of 3, so that a period begins or ends inside a day, at
its start, and days go by without a block; pages of 1 and of the limit 2, and
of 3, which is cut to 2. Histories are asked for by interval, count, from and
to in every combination the code tells apart. Some windows end before they begin:
within one bucket, which is then the answer, in two neighbouring ones, and so far
apart that the handler panics. Two calendars: days, and months of 6 and 9 that do not begin
with the epoch.

Every property of a passing run has a mutant in `PROJECT.json`, a plausible bug
in one definition under which TLC finds that property violated.

## 5. Fairness

`Indexer!FairSpec` adds weak fairness of each job's steps (the Go scheduler runs
what can run; `Fetch` and `WriteStep` are one goroutine each), of the start
(supervisor) and the end of the process (`ShutdownWait` returns when both jobs
have), and of the node serving the results of a block it has reported. Nothing
is assumed of the refresh job, new blocks, signals or faults. Faults are finite
in every behaviour: with endless faults nothing is ever stored, and
liveness says what happens once they cease. The ten minutes of
`waitAtForkAndExit` are a step that is eventually taken.

`Aggregates!FairSpec` is fair to the three goroutines and to start and end in
the same way; whether the writer commits another block is left open. The
periodic wake-up of the refresh is a step of its goroutine.
`BlockStore!FairSpec`: a program does what it can do by itself (`OwnStep`);
nobody has to start one or to send a signal. That the node gives the next block
(`NodeAnswers`; `dump.go:89-95` asks again for ever) and that a download ends
(`RemoteAnswers`; `http.Get` without a deadline, `remote.go:64`) are no part of
it: the first half of `RunsEnd` has them as its premise, the second half does
without.
`Websockets!FairSpec`: handlers, reader and notifier go on as long as their next
step does not need a client; clients need do nothing, neither send the rest of a
message nor read what is written to them. One that has closed makes a write fail,
which needs nobody. `Boot!FairSpec`: the supervisor starts the process and
its start goes on; writing blocks, the operator and kills are free.
`recording_and_reading` states no liveness and assumes no fairness.

## 6. The proofs

Every safety property of a passing run is a theorem, for all values of the
constants. Each proof module has the same shape: a theorem `Invariance` (in `QueriesProofs`
`QueriesInvariance`), `Spec => []IInv`, from a lemma per step or per conjunct,
and the properties as its consequences. TLC has checked each `IInv` on the
instance of its run, where it can be checked again by adding `IInv`
(`QueriesIInv` for `MCQueries.cfg`) to the `INVARIANTS`.

| proofs | theorems | assumptions on the constants |
|---|---|---|
| `IndexerProofs` | `TypeCorrect`, `PipelineKeepsOrder`, `DatabaseAlwaysConsistent`, `NoBlockStranded`, `NoRefreshLost`, `StopsAtFork`, `FirstBlockIsFirst`, `PipelineImplementsLedger` | `ParametersAssumption`: batch sizes and the chain's bound positive, rejected rewards within rejected blocks |
| `BlockStoreProofs` | `TypeCorrect`, `ChunksAreWhole`, `ListedChunksComeBack`, `ReaderStopsOnlyAtGap`, `StoredBlocksAsFetched`, `StoreImplementsArchive` | `StoreAssumption`: the node's blocks list the events of the end of a block last and are complete; `ListAssumption`: the remote list has names of chunks |
| `AggregatesProofs` | `TypeCorrect`, `BalancesAlwaysExact`, `PricesNeverStale`, `AggregatedNeverGoesBack` | `AggregatesAssumption`: there is a first block, timestamps rise |
| `WebsocketsProofs` | `TypeCorrect`, `OnlySubscribersAreWrittenTo`, `SubscriptionsAlwaysMatch`, `OpenConnectionsAreKept` | `WebsocketsAssumption`: finitely many descriptors, handlers and pools |
| `BootProofs` | `TypeCorrect`, `DatabaseOfOneChain`, `NoBogusBlocksLeft`, `GenesisStoredOnce` | `BootAssumption`: three chains, the genesis not after the fork; `AncestryAssumption`, see below |
| `RecorderProofs` | `TypeCorrect`, `EventIdsAlwaysInOrder`, `DepthsAlwaysRewards`, `DepthRowsAlwaysCurrent` | `RecorderAssumption`: the types, a result for each transaction; `PoolsAssumption`: a pool is what has rewards; `IdsFit`: the numbers of events that `eventid.go:17-29` allows for |
| `QueriesProofs` | `ReadersOnlyRead`, `PagesNeverLeaveAGap`, `PeriodsAreAlwaysSums`, `HistoriesAreDense` | those of the recorder; `QueriesAssumption`: timestamps rise, limits and lengths are positive, intervals are calendars as `IsInterval` says, parameters are numbers or missing |

Without `IdsFit` the ids would overlap: `EventIdsInOrder` is false for a block
with more transactions, or a transaction with more events, than its digits hold.
`AncestryAssumption` says what `ChainAncestry` makes of the configured fork
infos and the node's chains. Its operators fold over sets, and what a fold
computes is outside the prover's reach; TLC evaluates the assumption with the
fork infos of `MCBoot.tla`, three releases of them.

### The inductive invariants

None of the properties is inductive by itself. What they rest on:

*Pipeline* (`IndexerInv`).

- `FetcherInv`: targets, published heights and the iterator are never beyond
  the node, and the batch of the chain iterator starts where the iterator is.
- `PipelineInv`: pending rows, block in hand and channel continue the database
  without a gap; a batch being flushed ends in a row with a saved state (which
  is why the newest row has one after the flush); nothing pending while
  publishing.
- `DepthsInv`: the running depths are the sum of the rows stored *and pending*,
  and a saved state in a pending row is the sum up to it. Without it the
  consistency of the database would not survive a flush.
- `TipInv`: an unflushed row, and a commit without a refresh, are below the tip
  that the fetcher has announced. From it follow `NoStrandedBlocks` and
  `RefreshNotLost`.
- `UnsetFirstInv`, `FirstInv`, `ForkInv`: the same for the first block and the
  hard fork. `MemoryLost`: what a stopped process has forgotten.
- `RejectedInv`, apart from `IInv`: a row without its rewards is of a block that
  the schema rejects. With it each step of the pipeline is mapped to a step
  of `Ledger`, a commit to the recording of its rows, or to a stutter.

*Block store* (`BlockStoreInv`). `FinalizeInv`: a file about to get the name of
a chunk is that whole chunk, and no file of that name is there, because it
comes from the list of the missing ones (`UpdateInv`) or dump has counted from
the last chunk to the next end of one (`DumpInv`). Hence `RemoveOld` removes
nothing, which is what `Archive` needs. `ReaderInv`: what is left of the open
file begins with the next height. `RecordedAsFetched` is about data: what is
written and read back gives the events of the block. `Kept`, the loop that
collects some of a list, has two equations (`KeptOfNone`, `KeptOfMore`); a
shortest list that is an exception to a law of `Kept` contradicts them, which
stands for an induction over the list. With these laws, the attributes the
recording goes by are the same although the mode moves to the end and empty
ones are dropped, and the two lists of a stored block put together again are
the one it had, because a node lists the events of the end of a block last
(`NodeOrder`).

*Aggregates* (`AggregatesInv`). The published heights follow the database
(`PublishedInv`), no refresh goes beyond them (`RefreshInv`), the balances are
as far as readers are told unless something failed (`FaultlessInv`), and once a
refresh has answered the last request, the prices of the newest block are sent
or on their way (`PingInv`).

*Websockets* (`WebsocketsInv`). A connection is open on one descriptor and the
map names no other (`SocketsInv`); each handler adds one of its own
(`HandlersInv`); events and the instruction in hand are of connections that are
still there (`ReaderInv`); the subscriptions are what was asked for, except for
the part of an instruction that is not yet carried out, of which is known what
will be done (`SubscriptionsInv`).

*Start* (`BootInv`). What each step has made sure of by the time it is left
(`SchemaInv`, `CheckedInv`), and what that keeps true of the database: heights
without a gap from a first one that is known (`HeightsInv`), one chain but for
the fork, and blocks of the new chain only if some release that knew of the fork
has accepted a node of it (`ChainsInv`).

*Recorder* (`RecorderInv`). Every row is of an event of the chain, has the id of
its place, and comes from as far as the walk over the events has got
(`PositionInv`, `EventsInv`), so that the next row is of a new event; the
newest row of a table is the only one of its height and has a state
(`LogInv`); there is one depth row for a pool and height, of a pool that the
totals know (also the stored totals after a restart), and what the depth
recorder has seen is in the rows (`DepthsInv`). A pool new to the totals has
no older row: that is why a forgotten snapshot does no harm.

*Queries* (`QueriesInv`), on top of `RecorderInv`. `block_log` and `blocks` have
the same heights without a gap (`BlocksInv`), so a block is as far down the
list as there are heights above it; what a client has not seen is at its
offset or behind it (`OffsetInv`), and new blocks push it further back. An
empty page means that the offset is behind the last block. For the earnings:
outside a single day, a moment lies in exactly one part of the union or
outside the interval (`PartsAreApart`, arithmetic of quotients), and the total
over disjoint sets is the sum of the totals.

A history rests on three things. *The buckets* (`IntervalBuckets`): the bucket
a time is in is found in its cycle (`TruncIs`), so what the widened query
returns has all starts of buckets near the window (`GapfillIs`); in their order
they are consecutive (`StartsAreConsecutive`) and remain so when the ends are
cut off. *The rows* (`DepthsBeforeIs`, `FilledIs`): the newest row of a pool
before a moment is that of the last part of a union that has one
(`LastByPoolIs`), or the newest of the buckets up to there, or that from before
the first bucket (`DepthAtEnd`). *The time between the queries* (`HistoryInv`):
a first bucket that has begun when the request came is not after the newest
block of that moment, and rows still to come are of later blocks
(`DepthHeightsInv`), so what the first query has read stays true.

`SetFacts` has what these need of sums over finite sets: `SumFunctionOnSet` is
a recursive function on the subsets, shown to exist and to be unique by looking
at a smallest subset that would be an exception (an induction that needs no
operator as a parameter). A sum does not depend on the order, grows by an
element's value when it is added, and is the total of two disjoint parts. It
also shows that a finite set of numbers has one member of each rank, which is
what `Ascending` needs: the ranks are an injection between sets of one size, so
every rank occurs.

### What stays with TLC

- What the operators of `ChainAncestry` compute (`AncestryAssumption`).
- The liveness properties `EveryBlockStored`, `ShutdownEnds`, `RunsEnd`,
  `CatchesUp`, `StopsUnlessBlocked` and `ComesUp`: fairness and ENABLED
  are outside what the prover does.

## 7. Abstractions

### The pipeline

- Events other than rewards, and rewards with several pools: other handlers
  take the same path from `ProcessBlock` to the inserter, and `Recorder` has
  them.
- The rows that can be rejected are event rows. `block_log`'s own row, the
  `blocks` payload and depth rows are accepted by the schema; errors of
  `BuildBlocksPayload` are not modelled.
- Hashes and ancestry: the database belongs to the chain; `Boot` has the
  checks at the start. The fatal mismatch checks of `SetAndCheckFirstBlock`
  cannot fire then.
- The node's status does not go backwards.
- Sleeps, metrics, logs, the caught-up flag; the parallel goroutines of a
  batched RPC, which fill disjoint parts and join before the batch is used.
- `LastFetchedBlock` is set with the send before it (nothing of the pipeline
  reads it between the two).
- The refresh job takes its request and reads `LastCommittedBlock` in one step;
  `Aggregates` splits them.
- HTTP and cache jobs take no part in the shutdown; the refresh and the
  websockets jobs do in modules of their own.
- Branches that no call reaches: the zero height of the writer and the
  "programming error" ones.

### The block store

- Compression, hashing and JSON: a download gives the right chunk or one that
  does not match its hash.
- A block whose chunk is old has no `PureBlock`. `tendermintToCometBlock`
  (`storedblock.go:60`) then dereferences nil and the program panics: so does
  the indexer, and so does `fragment`, whose work it is to fill in the missing
  part (finding 3). What `fragment.go` does after the read is therefore never
  reached and left out; the panic is the action `ReaderPanics`.
- After an error of the iterator the fragment command does nothing any more and
  waits for a signal (`Stranded`); a signal it waits for costs no fault.
- The `mode` that an event of a transaction may have of its own is dropped in
  the store: the `blocks` payload of such a block differs from that of the
  fetched one, the recorded rows do not.
- `FistFetchedHeight` panics on an empty directory (`FragmentPanics`). It takes
  the first chunk for a full one: behind a short one the fragment command asks
  for heights before the first, even below 1, and stops there.

### The aggregates

- Continuous aggregates are the time up to which a view is materialised.
- `LastAggregatedBlock` is set although errors are only logged, so an answer
  may lack transfers that are stored and not aggregated (`BalancesExact` says
  so: it compares with the aggregated ones, and with all of them only when no
  call has failed). Before the first refresh, and during a step of the
  catch-up, it is at height 0 with a timestamp ahead of the balances.

### The websockets

- The check of the number of connections and the adding of one are two steps:
  `ConnLimit` may be passed by as many handlers as run at once. No property
  says otherwise.
- At this commit no subscription comes about (see section 3), so what follows
  from one is latent: `write` is never called, and the wait for a lock that the
  notifier itself holds (`websockets.go:247`, against line 40, which promises
  that a cancelled context stops the job) cannot happen yet. It is one of the
  exceptions of `StopsUnlessBlocked`, not a finding.
- A message that cannot be parsed is refused as one that names an unknown pool
  is: the two have the same effect on the maps and are one input. The counter of
  attempts is never reached.
- Whether a client reads is told by the fairness only (section 5): a flush to a
  client that keeps its connection may be done or wait for ever.
- The runtime ends the process when it sees a map read and written at once; it
  need not see it, so both outcomes are there. The message that never ends
  blocks the reader, as no read deadline is set.

### The start

- The fork info of the root chain must have the first hash; otherwise
  `CombinedForkInfoMap` is refused, which is a configuration error of a release.
- The constant `chain_id` is only compared to warn. Blocks up to the fork come
  from the block store; the operator does not go back to the old node or an
  earlier release. The check of the first block after the first commit
  (`timeseries.go:198`) and the migrations, which do nothing
  (`migrates.go:24`), are left out.

### Recording and reading

- No event of this chain sets an asset depth: `Latest.Pools` and
  `CurrentDepths` stay empty. The `qbtc_price` row is zero whatever the depths,
  the comparison at `depthrecorder.go:156` being the wrong way round. The maps
  of added events and corrected timestamps are empty.
- The rows of a block in `block_log` and `blocks` are accepted. The node gives
  each transaction a result: with fewer raw transactions than results
  `mux.go:82` would panic. Messages of a transaction are only logged.
- A kill after the genesis flush and before the first block is committed loses
  the synths of the genesis file from the totals for ever: they are only in
  memory, and the genesis is not loaded again. `DepthsAreRewards` compares
  the rewards.
- `ParseEventId` does not give back the 10,000th event of a transaction; ids
  stay different and ordered (`EventIdsInOrder`).
- The error of a refused depth row is overwritten (`depthrecorder.go:163`);
  the next run of the process makes up for it, this one does not.
- Readers come one at a time. Commit and publication are one step here (the
  gap between them is in `Aggregates`); views show all rows.
- `HistoryDense` exempts: a single interval within one day; a history of all
  pools over a single interval, from which `depth.go:336` leaves out pools
  without a change, so that the total is too small; a single interval that ends
  before it begins, which `generateBucketsOnlyMeta` lets pass; and buckets that
  begin in the future, which blocks may still enter between the two queries.
- The cut to `maxIntervalCount` comes before the buckets ahead of the first
  block are left out, so an answer may have fewer and not reach the end of
  the window: `BucketsFit` asks for the whole window only where nothing was cut.
- A window with an interval that ends before it begins is not refused by
  `generateTimestamps`. If one bucket has both ends, this bucket is the answer;
  otherwise the loop at `buckets.go:193` may leave the slice or the bounds at
  line 195 be inverted, and the handler panics, or fewer than two timestamps
  are left and the request is refused. A panic is answered with status 500 and
  changes nothing: in the model both are no buckets.
- The text `usage` in `buckets.go` speaks of counts up to 100 and of the first
  100 buckets; `maxIntervalCount` is 400, and the message of a refused count
  says so. The model has the constant.
- `rows.Err()` is not asked for after the loops of `depth.go:55` and
  `buckets.go:173`: a connection lost while rows are read gives a shorter
  answer without an error. `lookup.go:467` divides by a number of units that
  may be zero. Neither is modelled.
- Of what `Queries` and `Aggregates` read, `api.go:41-67` routes the blocks and
  the earnings of the pools at this commit. The histories and the balances
  are modelled as the functions they are, which the tests call.
- The comment of `restrictBuckets` allows one timestamp after the last block
  that "won't be a start time"; the code keeps it with `<` and may keep one
  more when the last block is at a boundary.

### Not modelled

- `TrimDB` (`migrates.go:31`, `cmd/trimdb`): its first statement deletes from
  `btcq_indexer_agg.actions`, a table that nothing creates; the error is fatal
  and nothing has been deleted.
- The cache of the API (a value replaced under a lock), the other endpoints
  (single queries), queries of the node that keep nothing, configuration,
  logging, timers, generated code, test support, the developers' comparing
  commands.

## 8. Findings

1. `internal/fetch/sync/iterator.go:135`: the comparison of `nextChecked` is
   the wrong way round; a comment at line 107 promises an error on a
   difference, the code gives one on equality (only in the developers' mode of
   `check_blockstore_blocks.go`). Run `checked_iterator`.
2. `internal/timeseries/timeseries.go:190`: every error of `Flush` sets the
   mark that `internal/db/db.go:36` reserves for data the schema rejects, so a
   broken connection moves all later runs to the slower inserter until
   the version of the mark is raised or the database is reset. Run `spurious_mark`.
3. `internal/fetch/sync/blockstore/storedblock.go:60`: a stored block without a
   `PureBlock` makes the reader dereference nil. `fragment.go:106` is there to
   "fill the missing data" of such blocks, and panics on the first one it reads,
   as the indexer does. Run `fragment_fills`.
4. `internal/fetch/record/genesis.go:68`: the constant that says the genesis is
   written is stored before its rows; a kill in between, or a failed flush,
   leaves it alone and the genesis is skipped for ever. `deleteDBIfFail` at
   line 80 follows a fatal log and is not reached. Run `boot_genesis`.
5. `internal/db/aggregates.go:330`: for an interval within one day that does not
   begin at its start, `UnionQuery` adds two parts that overlap, so that rewards
   are counted twice. `/v2/pools?period=1h` asks for such a sum; its answer does
   not show it as long as no pool has an asset depth and the list is empty
   (section 7). Run `earnings_of_an_hour`.
