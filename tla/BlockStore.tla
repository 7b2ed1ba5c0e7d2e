------------------------------ MODULE BlockStore ------------------------------
(***************************************************************************)
(* The block store (internal/fetch/sync/blockstore): a directory of chunk   *)
(* files, each named after the last height in it, and a temporary file for  *)
(* the chunk being written.  Three programs work on it, one at a time:      *)
(*   dump      cmd/blockstore/dump: appends the node's blocks               *)
(*   fragment  cmd/blockstore/fragment: is to fill in the PureBlock of      *)
(*             blocks stored without it, but the first such block it reads  *)
(*             panics, so all it does is read                               *)
(*   read      the indexer: iterates over the stored blocks                 *)
(* Each begins by opening the store, which downloads the listed chunks that *)
(* are missing from a remote repository.                                    *)
(*                                                                         *)
(* A step is what a kill can separate: one operation on the directory.  The *)
(* content of a temporary file outlives no process, so only the content the *)
(* process has written so far is kept (current).  A block is its events,    *)
(* the raw transactions and the evidence of its PureBlock.                  *)
(***************************************************************************)
EXTENDS Integers, Sequences, FiniteSets, Functions, FiniteSetsExt

CONSTANTS
  BlocksPerChunk,
  MaxHeight,        \* the node's height is never beyond this
  ForkHeight,       \* the last height of the old chain, forced to end a chunk
  GenesisHeight,    \* height of the configured genesis, 0 without one
  ListedChunks,     \* chunks in the hash list (and in the remote repository)
  DownloadFullChunksOnly,  \* the values of this setting to consider
  Blocks,           \* the blocks of the node, by height
  MaxFaults         \* interrupts and kills in a behaviour

Attributes == [key : STRING, value : STRING]
Events == [type : STRING, attributes : Seq(Attributes)]
NoPureBlock == [txs |-> << >>, evidence |-> "missing"]

(* chain.Block, without the height. *)
ChainBlock ==
  [FinalizeBlockEvents : Seq(Events), TxsResults : Seq(Seq(Events)),
   PureBlock : [txs : Seq(STRING), evidence : STRING]]

(* getEventMode: the first attribute of that key, if there is one. *)
EventMode(e) ==
  LET modes == {i \in DOMAIN e.attributes : e.attributes[i].key = "mode"}
  IN  IF modes = {} THEN "" ELSE e.attributes[Min(modes)].value

(* A node lists the events of the end of a block last. *)
NodeOrder(b) ==
  \A i, j \in DOMAIN b.FinalizeBlockEvents :
    i < j /\ EventMode(b.FinalizeBlockEvents[i]) = "EndBlock"
      => EventMode(b.FinalizeBlockEvents[j]) = "EndBlock"

ASSUME StoreAssumption ==
  /\ BlocksPerChunk \in Nat \ {0}
  /\ MaxHeight \in Nat /\ ForkHeight \in 1..MaxHeight /\ GenesisHeight \in 0..MaxHeight
  /\ ListedChunks \subseteq 1..MaxHeight
  /\ DownloadFullChunksOnly \subseteq BOOLEAN
  /\ Blocks \in [1..MaxHeight -> ChainBlock]
  /\ \A h \in 1..MaxHeight : NodeOrder(Blocks[h]) /\ Blocks[h].PureBlock # NoPureBlock
  /\ MaxFaults \in Nat

VARIABLES
  chunks,      \* directory: chunk height -> its lines, in file order
  temps,       \* directory: temporary files, "tmp" or a closed "<height>.tmp"
  tool, pc,    \* the running program and where it is
  node,        \* the node it talks to
  cancelled,   \* its context
  missing,     \* listed chunks updateFromRemote still has to fetch
  complete,    \* updateFromRemote got through its list
  opened,      \* currentFile # nil
  current,     \* the lines written to it
  finalName,   \* the chunk being finalized
  lastFetchedHeight, endHeight, currentHeight,
  itb,         \* iterator over the store
  read,        \* the last block it returned
  finished,    \* finishedNormally
  faults

dirVars == <<chunks, temps>>
fileVars == <<opened, current, finalName>>
jobVars == <<lastFetchedHeight, endHeight, currentHeight, itb, read, finished>>
vars == <<dirVars, tool, pc, node, cancelled, missing, complete, fileVars, jobVars, faults>>

Fault == faults < MaxFaults /\ faults' = faults + 1

-----------------------------------------------------------------------------
(* What is stored of a block, and what is made of it when it is read.       *)

(* The members of s that are in T, in their order. *)
Kept(s, T) ==
  LET ofFirst[n \in 0..Len(s)] ==
        IF n = 0 THEN << >>
        ELSE IF s[n] \in T THEN Append(ofFirst[n - 1], s[n])
        ELSE ofFirst[n - 1]
  IN  ofFirst[Len(s)]

NilAttribute == [key |-> "nil", value |-> ""]

(* cometToTendermintEvent: the mode is skipped, its place left empty. *)
CometToTendermintEvent(e) ==
  [e EXCEPT !.attributes = [i \in DOMAIN @ |-> IF @[i].key = "mode" THEN NilAttribute ELSE @[i]]]

(* tendermintToCometEvent: the mode, if there is one, comes last. *)
TendermintToCometEvent(e, mode) ==
  [e EXCEPT !.attributes = Kept(@, Range(@) \ {NilAttribute})
                             \o IF mode = "" THEN << >> ELSE <<[key |-> "mode", value |-> mode]>>]

Each(Op(_), s) == [i \in DOMAIN s |-> Op(s[i])]

(* Mutant: what has no mode is taken for an event of the end of the block. *)
EndUnlessBeginBlock(e) == IF EventMode(e) = "BeginBlock" THEN "BeginBlock" ELSE "EndBlock"

(* The list an event is stored in. *)
StoredMode(e) == IF EventMode(e) = "EndBlock" THEN "EndBlock" ELSE "BeginBlock"

StoredEvents(events, mode) ==
  Each(CometToTendermintEvent, Kept(events, {e \in Range(events) : StoredMode(e) = mode}))

(* Neither conversion of the PureBlock copies the evidence. *)
CometToTendermintBlock(pure) == [pure EXCEPT !.evidence = "nil"]
TendermintToCometBlock(tblock) == [tblock EXCEPT !.evidence = "nil"]

BlockToStored(h, b) ==
  [height |-> h,
   begin |-> StoredEvents(b.FinalizeBlockEvents, "BeginBlock"),
   end |-> StoredEvents(b.FinalizeBlockEvents, "EndBlock"),
   txs |-> [i \in DOMAIN b.TxsResults |-> Each(CometToTendermintEvent, b.TxsResults[i])],
   PureBlock |-> CometToTendermintBlock(b.PureBlock)]

(* storedToBlock, of a line that has its PureBlock. *)
StoredToBlock(line) ==
  [height |-> line.height,
   FinalizeBlockEvents |->
     Each(LAMBDA e : TendermintToCometEvent(e, "BeginBlock"), line.begin)
       \o Each(LAMBDA e : TendermintToCometEvent(e, "EndBlock"), line.end),
   TxsResults |->
     [i \in DOMAIN line.txs |-> Each(LAMBDA e : TendermintToCometEvent(e, ""), line.txs[i])],
   PureBlock |-> TendermintToCometBlock(line.PureBlock)]

NothingRead == [height |-> 0]

-----------------------------------------------------------------------------
(* findLastFetchedHeight: without a chunk, the store begins before genesis. *)
StoreBase == GenesisHeight - (GenesisHeight % BlocksPerChunk)

LastLocal == IF DOMAIN chunks = {} THEN StoreBase ELSE Max(DOMAIN chunks)

(* The chunk that a height belongs in: chunks end at multiples of           *)
(* BlocksPerChunk and at the fork.                                          *)
EndsChunk(h) == h % BlocksPerChunk = 0 \/ h = ForkHeight
ChunkNames == {h \in 1..MaxHeight : EndsChunk(h)}
FirstIn(n) == 1 + Max({0} \cup {m \in ChunkNames : m < n})

(* The line of a height, with its PureBlock or, of an old store, without.   *)
Line(h, p) ==
  LET line == BlockToStored(h, Blocks[h])
  IN  IF p THEN line ELSE [line EXCEPT !.PureBlock = NoPureBlock]

Lines(first, last, p) == [i \in 1..(last + 1 - first) |-> Line(first + i - 1, p)]
LinesOf(n, p) == Lines(FirstIn(n), n, p)

(* What the client of a node can see: the old chain up to the fork, or the  *)
(* new one, whose first block follows it.                                   *)
Nodes ==
  {[earliest |-> 1, latest |-> h, fork |-> ForkHeight] : h \in 1..ForkHeight}
    \cup {[earliest |-> ForkHeight + 1, latest |-> h, fork |-> 0] : h \in ForkHeight + 1..MaxHeight}

Iterator(h) == [chunk |-> 0, rest |-> << >>, next |-> h]

-----------------------------------------------------------------------------
(* BlockStore.cleanUp: temporary files are removed and forgotten. *)
CleanUp ==
  /\ temps' = {}
  /\ opened' = FALSE /\ current' = << >> /\ finalName' = 0
  /\ UNCHANGED chunks

ListedFromGenesis == {c \in ListedChunks : c >= GenesisHeight}

(* The repository's chunks were made by dump. *)
ASSUME ListAssumption == ListedFromGenesis \subseteq ChunkNames

(* Mutant: the list is compared with the last height of the store. *)
ChunksBeyondLast == {c \in ListedFromGenesis : c > LastLocal}

(* updateFromRemote: the chunks of the hash list that are not there. *)
MissingChunks == ListedFromGenesis \ DOMAIN chunks

(* A program starts, and NewBlockStore cleans the directory up. *)
Start(t, n) ==
  /\ pc = "down"
  /\ tool' = t /\ node' = n /\ pc' = "update"
  /\ cancelled' = FALSE /\ complete' = FALSE /\ finished' = FALSE
  /\ missing' = MissingChunks
  /\ CleanUp
  /\ lastFetchedHeight' = 0 /\ endHeight' = 0 /\ currentHeight' = 0
  /\ itb' = Iterator(1) /\ read' = NothingRead
  /\ UNCHANGED faults

(* fetchChunk: the answer arrives and is copied into a new file. *)
FetchChunk ==
  /\ pc = "update" /\ missing # {} /\ ~cancelled
  /\ temps' = temps \cup {"tmp"}
  /\ opened' = TRUE /\ current' = << >> /\ finalName' = Min(missing)
  /\ pc' = "download"
  /\ UNCHANGED <<chunks, tool, node, cancelled, missing, complete, jobVars, faults>>

(* The copy has the hash of the list. *)
DownloadMatches ==
  /\ pc = "download"
  /\ current' = LinesOf(finalName, TRUE)
  /\ missing' = missing \ {finalName}
  /\ pc' = "remove"
  /\ UNCHANGED <<dirVars, tool, node, cancelled, complete, opened, finalName, jobVars, faults>>

(* Mutant: without the deferred clean-up, after the first line was copied. *)
UpdateReturnsOpen ==
  /\ pc \in {"update", "download"}
  /\ complete' = (missing = {})
  /\ current' = IF opened THEN SubSeq(LinesOf(finalName, TRUE), 1, 1) ELSE << >>
  /\ pc' = "opened"
  /\ UNCHANGED <<dirVars, opened, finalName, tool, node, cancelled, missing, jobVars, faults>>

(* updateFromRemote returns: the list is done, or a chunk is not found, or  *)
(* one cannot be downloaded or has another hash.  The deferred clean-up     *)
(* discards what was copied.                                                *)
UpdateReturns ==
  /\ pc \in {"update", "download"}
  /\ complete' = (missing = {})
  /\ CleanUp
  /\ pc' = "opened"
  /\ UNCHANGED <<tool, node, cancelled, missing, jobVars, faults>>

-----------------------------------------------------------------------------
(* finalizeChunk, two operations on the directory: an existing chunk of the *)
(* name is removed, and the temporary file takes the name.                  *)
RemoveOld ==
  /\ pc = "remove"
  /\ chunks' = Restrict(chunks, DOMAIN chunks \ {finalName})
  /\ pc' = "rename"
  /\ UNCHANGED <<temps, tool, node, cancelled, missing, complete, fileVars, jobVars, faults>>

(* Where the caller of finalizeChunk goes on: updateFromRemote, before any  *)
(* job has begun, with its list; dump, after the block at the fork, with    *)
(* the shutdown.                                                            *)
AfterFinalize ==
  IF currentHeight = 0 THEN "update"
  ELSE IF tool = "dump" /\ finalName = node.fork THEN "close"
  ELSE "loop"

RenameNew ==
  /\ pc = "rename"
  /\ chunks' = [n \in DOMAIN chunks \cup {finalName} |->
                  IF n = finalName THEN current ELSE chunks[n]]
  /\ temps' = temps \ {"tmp"}
  /\ opened' = FALSE /\ current' = << >> /\ finalName' = 0
  /\ pc' = AfterFinalize
  /\ finished' = (AfterFinalize = "close")
  /\ UNCHANGED <<tool, node, cancelled, missing, complete, lastFetchedHeight, endHeight,
                 currentHeight, itb, read, faults>>

(* DumpBlock: a line into the temporary file, which is created if there is  *)
(* none; the chunk is finalized at a multiple of BlocksPerChunk, or if the  *)
(* caller forces it.                                                        *)
DumpBlock(line, force) ==
  /\ opened' = TRUE
  /\ current' = IF opened THEN Append(current, line) ELSE <<line>>
  /\ temps' = temps \cup {"tmp"}
  /\ IF line.height % BlocksPerChunk = 0 \/ force
     THEN pc' = "remove" /\ finalName' = line.height
     ELSE pc' = "loop" /\ UNCHANGED finalName
  /\ UNCHANGED chunks

(* Mutant: the closed file gets the name of a chunk. *)
CloseAsChunk ==
  /\ pc = "close"
  /\ chunks' = IF opened THEN [n \in DOMAIN chunks \cup {currentHeight - 1} |->
                               IF n = currentHeight - 1 THEN current ELSE chunks[n]]
               ELSE chunks
  /\ temps' = temps \ {"tmp"}
  /\ opened' = FALSE /\ current' = << >> /\ finalName' = 0
  /\ pc' = "down"
  /\ UNCHANGED <<tool, node, cancelled, missing, complete, jobVars, faults>>

(* The deferred Close: what is not a chunk yet keeps a temporary name.  Then *)
(* the shutdown ends the program.                                           *)
Close ==
  /\ pc = "close"
  /\ temps' = IF opened THEN (temps \ {"tmp"}) \cup {"closed"} ELSE temps
  /\ opened' = FALSE /\ current' = << >> /\ finalName' = 0
  /\ pc' = "down"
  /\ UNCHANGED <<chunks, tool, node, cancelled, missing, complete, jobVars, faults>>

Exit ==
  /\ pc' = "down"
  /\ UNCHANGED <<dirVars, tool, node, cancelled, missing, complete, fileVars, jobVars, faults>>

(* jobs.StopIfCanceled, or a shutdown before the first block is read. *)
StoppedWhileOpening == pc = "opened" /\ cancelled /\ Exit

-----------------------------------------------------------------------------
(* dump.go.  The last height to fetch: the node's, or with full chunks only *)
(* the fork or the end of the last chunk that can be filled.                *)
DumpEnd(full) ==
  IF ~full THEN node.latest
  ELSE IF node.fork # 0 /\ node.fork <= node.latest THEN node.fork
  ELSE node.latest - (node.latest % BlocksPerChunk)

DumpBegins ==
  /\ pc = "opened" /\ tool = "dump" /\ ~cancelled
  /\ LastLocal + 1 >= node.earliest
  /\ \E full \in DownloadFullChunksOnly :
       /\ full => DumpEnd(full) >= LastLocal + 1
       /\ endHeight' = DumpEnd(full)
  /\ lastFetchedHeight' = LastLocal
  /\ currentHeight' = LastLocal + 1
  /\ pc' = "loop"
  /\ UNCHANGED <<dirVars, tool, node, cancelled, missing, complete, fileVars, itb, read,
                 finished, faults>>

(* The node has not got the next block, or there is no new full chunk. *)
NothingToDump ==
  /\ pc = "opened" /\ tool = "dump" /\ ~cancelled
  /\ \/ LastLocal + 1 < node.earliest
     \/ \E full \in DownloadFullChunksOnly : full /\ DumpEnd(full) < LastLocal + 1
  /\ Exit

(* nextBatch of the chain's iterator. *)
MoreToFetch == currentHeight <= endHeight

DumpNext ==
  /\ pc = "loop" /\ tool = "dump" /\ ~cancelled /\ MoreToFetch
  /\ DumpBlock(BlockToStored(currentHeight, Blocks[currentHeight]),
               node.fork # 0 /\ currentHeight = node.fork)
  /\ currentHeight' = currentHeight + 1
  /\ UNCHANGED <<tool, node, cancelled, missing, complete, lastFetchedHeight, endHeight, itb,
                 read, finished, faults>>

(* it.Next gave nothing more, or the context is cancelled. *)
JobReturns(normally) ==
  /\ pc' = "close" /\ finished' = normally
  /\ UNCHANGED <<dirVars, tool, node, cancelled, missing, complete, fileVars,
                 lastFetchedHeight, endHeight, currentHeight, itb, read, faults>>

DumpReachesEnd == pc = "loop" /\ tool = "dump" /\ ~cancelled /\ ~MoreToFetch /\ JobReturns(TRUE)

(* Mutant: the context is only looked at between two chunks. *)
JobCancelledBetweenChunks == pc = "loop" /\ cancelled /\ ~opened /\ JobReturns(FALSE)

JobCancelled == pc = "loop" /\ cancelled /\ JobReturns(FALSE)

-----------------------------------------------------------------------------
(* Mutant: an exhausted chunk is never left. *)
NoChunkReached(it) == it.chunk = 0

(* Iterator.Next over the store.  The file is opened once and read to its   *)
(* end, whatever happens to its name in the directory.                      *)
NextChunkReached(it) == it.chunk = 0 \/ it.chunk < it.next

(* findChunkPathForHeight. *)
ChunksFrom(h) == {n \in DOMAIN chunks : n >= h}

OpenChunk(it) ==
  IF ~NextChunkReached(it) THEN it
  ELSE LET n == Min(ChunksFrom(it.next))
       IN [it EXCEPT !.chunk = n, !.rest = chunks[n]]

(* Nothing is stored from the next height on.  (An empty directory is an    *)
(* error instead: the directory itself is opened as if it were a chunk.)    *)
ReaderAtEnd(it) == NextChunkReached(it) /\ DOMAIN chunks # {} /\ ChunksFrom(it.next) = {}

(* Lines are skipped until the height matches. *)
Matching(it) ==
  IF NextChunkReached(it) /\ ChunksFrom(it.next) = {} THEN {}
  ELSE {i \in DOMAIN OpenChunk(it).rest : OpenChunk(it).rest[i].height = it.next}

ReaderHasBlock(it) == Matching(it) # {}

BlockRead(it) == OpenChunk(it).rest[Min(Matching(it))]

(* Mutant: the height moves on in Next as well. *)
AfterReadTwice(it) ==
  LET o == OpenChunk(it)
  IN  [chunk |-> o.chunk,
       rest |-> SubSeq(o.rest, Min(Matching(it)) + 1, Len(o.rest)),
       next |-> o.next + 2]

AfterRead(it) ==
  LET o == OpenChunk(it)
  IN  [chunk |-> o.chunk,
       rest |-> SubSeq(o.rest, Min(Matching(it)) + 1, Len(o.rest)),
       next |-> o.next + 1]

(* The indexer reads from some height on until there is no more or an error. *)
ReadBegins ==
  /\ pc = "opened" /\ tool = "read" /\ ~cancelled
  /\ \E h \in StoreBase + 1 .. LastLocal : itb' = Iterator(h)
  /\ lastFetchedHeight' = LastLocal
  /\ pc' = "loop"
  /\ UNCHANGED <<dirVars, tool, node, cancelled, missing, complete, fileVars, endHeight,
                 currentHeight, read, finished, faults>>

(* The first height wanted is beyond the store: only the node is asked. *)
StoreNotRead == pc = "opened" /\ tool = "read" /\ ~cancelled /\ Exit

(* storedToBlock goes through the PureBlock: without one there is a panic,  *)
(* in the indexer and in fragment alike.                                    *)
ReaderPanics ==
  /\ pc = "loop" /\ tool \in {"read", "fragment"} /\ ~cancelled
  /\ ReaderHasBlock(itb) /\ BlockRead(itb).PureBlock = NoPureBlock
  /\ Exit

ReadsBlock ==
  /\ pc = "loop" /\ ~cancelled
  /\ ReaderHasBlock(itb) /\ BlockRead(itb).PureBlock # NoPureBlock
  /\ read' = StoredToBlock(BlockRead(itb))
  /\ itb' = AfterRead(itb)
  /\ UNCHANGED <<dirVars, tool, pc, node, cancelled, missing, complete, fileVars,
                 lastFetchedHeight, endHeight, finished, faults>>

ReadNext == tool = "read" /\ ReadsBlock /\ UNCHANGED currentHeight

ReadEnds == pc = "loop" /\ tool = "read" /\ ~cancelled /\ ReaderAtEnd(itb) /\ JobReturns(TRUE)

(* "reached end of file, no block found" ends the work of the reader. *)
ReadFails ==
  /\ pc = "loop" /\ tool \in {"read", "fragment"} /\ ~cancelled
  /\ ~ReaderAtEnd(itb) /\ ~ReaderHasBlock(itb)
  /\ pc' = "failed"
  /\ UNCHANGED <<dirVars, tool, node, cancelled, missing, complete, fileVars, jobVars, faults>>

(* The indexer shuts itself down.  The job of fragment returns without       *)
(* having asked for it, and main waits for a signal.                        *)
ReadFailed ==
  /\ pc = "failed" /\ (tool = "fragment" => cancelled)
  /\ JobReturns(FALSE)

-----------------------------------------------------------------------------
(* fragment.go.  FistFetchedHeight takes the first chunk for a full one; in *)
(* an empty directory the program panics.                                   *)
FirstFetchedHeight == Min(DOMAIN chunks) + 1 - BlocksPerChunk

FragmentBegins ==
  /\ pc = "opened" /\ tool = "fragment" /\ ~cancelled /\ DOMAIN chunks # {}
  /\ currentHeight' = FirstFetchedHeight
  /\ itb' = Iterator(FirstFetchedHeight)
  /\ lastFetchedHeight' = LastLocal /\ endHeight' = LastLocal
  /\ pc' = "loop"
  /\ UNCHANGED <<dirVars, tool, node, cancelled, missing, complete, fileVars, read, finished,
                 faults>>

FragmentPanics == pc = "opened" /\ tool = "fragment" /\ ~cancelled /\ DOMAIN chunks = {} /\ Exit

(* A stored block that has its PureBlock is passed over, and no other gets here. *)
FragmentPasses == tool = "fragment" /\ ReadsBlock /\ currentHeight' = currentHeight + 1

FragmentEnds == pc = "loop" /\ tool = "fragment" /\ ~cancelled /\ ReaderAtEnd(itb) /\ JobReturns(TRUE)

-----------------------------------------------------------------------------
(* fragment gave up and waits for somebody to stop it. *)
Stranded == pc = "failed" /\ tool = "fragment" /\ ~cancelled

(* A signal; it is no fault when the program waits for one. *)
Interrupt ==
  /\ pc # "down" /\ ~cancelled
  /\ IF Stranded THEN UNCHANGED faults ELSE Fault
  /\ cancelled' = TRUE
  /\ UNCHANGED <<dirVars, tool, pc, node, missing, complete, fileVars, jobVars>>

Kill ==
  /\ pc # "down"
  /\ Fault
  /\ pc' = "down" /\ opened' = FALSE /\ current' = << >> /\ finalName' = 0
  /\ UNCHANGED <<dirVars, tool, node, cancelled, missing, complete, jobVars>>

(* The directory as its owner made it: some chunks, of which some are old   *)
(* and without PureBlock.                                                   *)
Init ==
  /\ \E names \in SUBSET {n \in ChunkNames : n <= ForkHeight} :
       \E pure \in [names -> BOOLEAN] : chunks = [n \in names |-> LinesOf(n, pure[n])]
  /\ temps = {}
  /\ tool = "read" /\ pc = "down" /\ cancelled = FALSE /\ missing = {} /\ complete = FALSE
  /\ node = [earliest |-> 1, latest |-> 1, fork |-> ForkHeight]
  /\ opened = FALSE /\ current = << >> /\ finalName = 0
  /\ lastFetchedHeight = 0 /\ endHeight = 0 /\ currentHeight = 0
  /\ itb = Iterator(1) /\ read = NothingRead /\ finished = FALSE
  /\ faults = 0

UpdateStep == FetchChunk \/ DownloadMatches \/ UpdateReturns
FinalizeStep == RemoveOld \/ RenameNew \/ Close
DumpStep == DumpBegins \/ NothingToDump \/ DumpNext \/ DumpReachesEnd
ReadStep ==
  ReadBegins \/ StoreNotRead \/ ReadNext \/ ReaderPanics \/ ReadEnds \/ ReadFails \/ ReadFailed
FragmentStep == FragmentBegins \/ FragmentPanics \/ FragmentPasses \/ FragmentEnds

ToolStep ==
  UpdateStep \/ FinalizeStep \/ StoppedWhileOpening \/ JobCancelled
    \/ DumpStep \/ ReadStep \/ FragmentStep

Next ==
  \/ \E t \in {"dump", "fragment", "read"}, n \in Nodes : Start(t, n)
  \/ ToolStep
  \/ Interrupt
  \/ Kill

Spec == Init /\ [][Next]_vars

(* What a program waits for: a chunk of the repository, asked for without a  *)
(* deadline, and a block of the node, asked for again for ever.             *)
RemoteAnswers == missing # {} /\ UpdateStep
NodeAnswers == DumpNext

(* What it does by itself. *)
OwnStep ==
  \/ missing = {} /\ UpdateStep
  \/ FinalizeStep \/ StoppedWhileOpening \/ JobCancelled
  \/ DumpBegins \/ NothingToDump \/ DumpReachesEnd
  \/ ReadStep \/ FragmentStep

(* A program that can go on does; nothing is assumed of the node, the remote *)
(* repository, starts and faults.                                           *)
FairSpec == Spec /\ WF_vars(OwnStep)

-----------------------------------------------------------------------------
StoredLines == {Line(h, p) : h \in 1..MaxHeight, p \in BOOLEAN}

BlocksRead == {StoredToBlock(Line(h, TRUE)) : h \in 1..MaxHeight}

(* fragment may ask for heights below the first one, see FirstFetchedHeight. *)
HeightsAskedFor == 2 - BlocksPerChunk .. MaxHeight + 1

DirectoryOK ==
  /\ DOMAIN chunks \subseteq 1..MaxHeight
  /\ chunks \in [DOMAIN chunks -> Seq(StoredLines)]
  /\ temps \subseteq {"tmp", "closed"}

ToolOK ==
  /\ tool \in {"dump", "fragment", "read"}
  /\ pc \in {"down", "update", "download", "opened", "loop", "remove", "rename", "failed", "close"}
  /\ node \in [earliest : 1..MaxHeight, latest : 1..MaxHeight, fork : 0..MaxHeight]
  /\ cancelled \in BOOLEAN /\ complete \in BOOLEAN
  /\ missing \subseteq ListedChunks
  /\ faults \in 0..MaxFaults

FileOK == opened \in BOOLEAN /\ current \in Seq(StoredLines) /\ finalName \in 0..MaxHeight

JobOK ==
  /\ lastFetchedHeight \in 0..MaxHeight /\ endHeight \in 0..MaxHeight
  /\ currentHeight \in {0} \cup HeightsAskedFor
  /\ itb \in [chunk : 0..MaxHeight, rest : Seq(StoredLines), next : HeightsAskedFor]
  /\ read \in {NothingRead} \cup BlocksRead
  /\ finished \in BOOLEAN

TypeOK == DirectoryOK /\ ToolOK /\ FileOK /\ JobOK

(* Whatever was interrupted, killed, downloaded badly or left from before:  *)
(* a file with the name of a chunk holds exactly the heights of that chunk, *)
(* each once and in order, all of them with their PureBlock or none.        *)
ChunksWhole ==
  \A n \in DOMAIN chunks :
    n \in ChunkNames /\ chunks[n] \in {LinesOf(n, TRUE), LinesOf(n, FALSE)}

ChunkOf(h) == Min({n \in ChunkNames : n >= h})

(* An iterator only fails where a chunk is missing, or when fragment starts  *)
(* it below the first height: it passes every boundary between chunks, the  *)
(* short one at the fork included, wherever it started.                     *)
ReaderFailsOnlyAtGap ==
  pc = "failed" =>
    DOMAIN chunks = {} \/ itb.next < 1 \/ ChunkOf(itb.next) \notin DOMAIN chunks

(* A chunk that is missing comes back, also below the last one there is:    *)
(* after an update that got through its list nothing listed is missing.     *)
LostChunkRestored == pc = "opened" /\ complete => ListedFromGenesis \subseteq DOMAIN chunks

(* The attributes of an event that processEvent goes by. *)
Considered(e) ==
  Kept(e.attributes,
       {a \in Range(e.attributes) : a.key \notin {"mode", "msg_index"} /\ a.value # ""})

Recorded(events) == [i \in DOMAIN events |-> [type |-> events[i].type, attrs |-> Considered(events[i])]]

(* A block read from the store is recorded as the same block fetched from   *)
(* the node would be: the same transactions, the same events in the same    *)
(* order (their ids count them), the same attributes.                       *)
RecordedAsFetched ==
  read # NothingRead =>
    LET b == Blocks[read.height]
    IN  /\ Recorded(read.FinalizeBlockEvents) = Recorded(b.FinalizeBlockEvents)
        /\ Each(Recorded, read.TxsResults) = Each(Recorded, b.TxsResults)
        /\ read.PureBlock.txs = b.PureBlock.txs

(* What the store promises its readers. *)
Promise ==
  INSTANCE Archive WITH have <- DOMAIN chunks, Names <- ChunkNames, Base <- StoreBase

(* Chunks appear whole, the next one in order or one of the remote list, and *)
(* none ever disappears, though a chunk is removed before another takes its *)
(* name.                                                                    *)
ImplementsArchive == Promise!Spec

WaitsForRemote == pc \in {"update", "download"} /\ missing # {}

(* If node and repository answer, every run of a program ends, but for a     *)
(* fragment command that has met an error and is left alone.  Whether they  *)
(* answer or not, an interrupted run ends, unless a download that never     *)
(* does holds it up.                                                        *)
RunsEnd ==
  /\ WF_vars(RemoteAnswers) /\ WF_vars(NodeAnswers)
       => (pc # "down" ~> pc = "down" \/ []Stranded)
  /\ pc # "down" /\ cancelled ~> pc = "down" \/ []WaitsForRemote

(* What fragment is for (fragment.go:74, 106: "fill the missing data"): it   *)
(* gets past a stored block whatever is missing of it.  As long as the store *)
(* has the next block, only a kill ends it.                                 *)
FragmentFills ==
  [][tool = "fragment" /\ pc = "loop" /\ ReaderHasBlock(itb) /\ pc' = "down"
       => faults' = faults + 1]_vars
=============================================================================
