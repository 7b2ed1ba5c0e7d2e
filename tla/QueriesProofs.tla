---------------------------- MODULE QueriesProofs ----------------------------
(***************************************************************************)
(* Proofs about the readers of Queries: a client that pages through the     *)
(* blocks misses none, the parts of a period add up to it, and a history    *)
(* has the right depth in each of its buckets, for every chain, calendar,   *)
(* limit, request and interleaving with the recorder.                       *)
(***************************************************************************)
EXTENDS QueriesInv, RecorderProofs, SequenceTheorems

(* Every step is a step of the recorder or leaves it alone.                 *)
LEMMA RecorderStep ==
  ASSUME [QueriesNext]_queryVars
  PROVE  [Next]_vars
BY DEF QueriesNext, queryVars, Record, OpenBlocks, NextPage, AskBlock, AskHistory, ReadBefore,
       Respond

(* The readers do not disturb the recorder: what it promises, it keeps      *)
(* promising whatever is asked of its database.                             *)
THEOREM ReadersOnlyRead == QueriesSpec => Spec
<1>1. QueriesInit => Init
  BY DEF QueriesInit
<1>2. [QueriesNext]_queryVars => [Next]_vars
  BY RecorderStep
<1> QED
  BY <1>1, <1>2, PTL DEF QueriesSpec, Spec

-----------------------------------------------------------------------------
(* The tables of blocks. *)

(* What is stored of a block is all that the chain has of it.               *)
LEMMA PayloadIs ==
  ASSUME IInv, NEW h \in 1..Len(chain)
  PROVE  BlocksPayload(h) = OnChain(h)
<1>1. chain \in Chains /\ chain[h] \in Blocks
  BY ChainIs DEF IInv, TypeOK
<1>2. Len(chain[h].Txs) = Len(chain[h].TxsResults)
  BY <1>1, ChainIs, RecorderAssumption
<1>3. PICK s : s = chain[h].TxsResults
  OBVIOUS
<1>4. s \in Seq(Seq(Events)) /\ Len(s) \in Nat
  BY <1>1, <1>3 DEF Blocks
<1>5. Min({Len(s), Len(s)}) = Len(s)
  <2>1. PICK n \in Nat : n = Len(s)
    BY <1>4
  <2>2. {n, n} = {n} /\ {n} \subseteq Nat /\ {n} # {}
    OBVIOUS
  <2>3. Min({n, n}) \in {n}
    BY <2>2, MinOf
  <2> QED
    BY <2>1, <2>3
<1>6. SubSeq(s, 1, Len(s)) = s
  BY <1>4
<1> QED
  BY <1>2, <1>3, <1>5, <1>6 DEF BlocksPayload, OnChain

(* A block of the chain stays what it is.                                   *)
LEMMA OnChainSame ==
  ASSUME [Next]_vars
  PROVE  \A h : OnChain(h)' = OnChain(h)
BY SameChain DEF OnChain

Stored(a, b) == {OnChain(h) : h \in a..b}
HeightsOf(log) == {r.height : r \in log}

(* Ranges of blocks that touch make one.                                    *)
LEMMA StoredIs ==
  ASSUME NEW a \in Int, NEW b \in Int, NEW c \in Int
  PROVE  /\ Stored(a, a - 1) = {}
         /\ a <= b /\ b <= c + 1 => Stored(a, b - 1) \cup Stored(b, c) = Stored(a, c)
         /\ a <= b => Stored(a, b - 1) \cup {OnChain(b)} = Stored(a, b)
<1>1. a..(a - 1) = {}
  OBVIOUS
<1>2. a <= b /\ b <= c + 1 => (a..(b - 1)) \cup (b..c) = a..c
  OBVIOUS
<1>3. a <= b => (a..(b - 1)) \cup {b} = a..b
  OBVIOUS
<1> QED
  BY <1>1, <1>2, <1>3 DEF Stored

(* The heights of rows taken together.                                      *)
LEMMA HeightsOfIs ==
  ASSUME NEW s, NEW t, NEW r
  PROVE  /\ HeightsOf(s \cup t) = HeightsOf(s) \cup HeightsOf(t)
         /\ HeightsOf({}) = {}
         /\ HeightsOf({r}) = {r.height}
BY DEF HeightsOf

(* The same of the heights alone.                                           *)
LEMMA IntervalsAre ==
  ASSUME NEW a \in Int, NEW b \in Int, NEW c \in Int
  PROVE  /\ a..(a - 1) = {}
         /\ a <= b /\ b <= c + 1 => (a..(b - 1)) \cup (b..c) = a..c
         /\ a <= b => (a..(b - 1)) \cup {b} = a..b
OBVIOUS

(* The rows of both tables of blocks, put in the words of this module.      *)
LEMMA BlocksAre ==
  BlocksInv <=>
    /\ HeightsOf(db.log) = 1..Top /\ db.blocks = Stored(1, Top)
    /\ pc # "down" =>
         HeightsOf(pending.log) = Top + 1..Reached /\ pending.blocks = Stored(Top + 1, Reached)
BY DEF BlocksInv, HeightsOf, Stored

(* And after a step.                                                        *)
LEMMA BlocksAreNext ==
  ASSUME [Next]_vars
  PROVE  BlocksInv' <=>
           /\ HeightsOf(db'.log) = 1..Top' /\ db'.blocks = Stored(1, Top')
           /\ pc' # "down" =>
                /\ HeightsOf(pending'.log) = Top' + 1..Reached'
                /\ pending'.blocks = Stored(Top' + 1, Reached')
<1>1. chain' = chain
  BY SameChain
<1> QED
  BY <1>1 DEF BlocksInv, HeightsOf, Stored, OnChain

(* The tables of blocks go on without a gap.                                *)
LEMMA BlocksStep ==
  ASSUME IInv, BlocksInv, [Next]_vars
  PROVE  BlocksInv'
<1>1. height \in Nat /\ Len(chain) \in Nat /\ Top \in Nat /\ height <= Len(chain)
  BY HeightIs, TopOf DEF IInv, TypeOK
<1>2. db'.log = db.log => Top' = Top
  BY DEF Top
<1>3. /\ HeightsOf(db.log) = 1..Top /\ db.blocks = Stored(1, Top)
      /\ pc # "down" =>
           /\ HeightsOf(pending.log) = Top + 1..Reached
           /\ pending.blocks = Stored(Top + 1, Reached)
  BY BlocksAre
<1>4. /\ pc = "down" => pending = NoRows
      /\ pc = "genesis" => height = Top /\ pending = NoRows
      /\ pc # "down" => Top <= height
      /\ pc = "event" => Top < height
  BY DEF IInv, PositionInv
<1>5. SUFFICES /\ HeightsOf(db'.log) = 1..Top' /\ db'.blocks = Stored(1, Top')
               /\ pc' # "down" =>
                    /\ HeightsOf(pending'.log) = Top' + 1..Reached'
                    /\ pending'.blocks = Stored(Top' + 1, Reached')
  BY BlocksAreNext
<1>6. /\ Stored(Top + 1, Top) = {} /\ Top + 1..Top = {}
      /\ HeightsOf(NoRows.log) = {} /\ NoRows.blocks = {}
  <2>1. PICK t \in Nat : t = Top
    BY <1>1
  <2>2. Stored(t + 1, t) = {} /\ t + 1..t = {}
    BY StoredIs, IntervalsAre
  <2> QED
    BY <2>1, <2>2, HeightsOfIs DEF NoRows
<1> HIDE DEF Stored, HeightsOf
<1>7. ASSUME db'.log = db.log, db'.blocks = db.blocks, pending' = pending, pc # "down",
             Reached' = Reached
      PROVE  /\ HeightsOf(db'.log) = 1..Top' /\ db'.blocks = Stored(1, Top')
             /\ HeightsOf(pending'.log) = Top' + 1..Reached'
             /\ pending'.blocks = Stored(Top' + 1, Reached')
  BY <1>2, <1>3, <1>7
<1>8. ASSUME pc = "flush", db' = Together(db, pending)
      PROVE  HeightsOf(db'.log) = 1..Top' /\ db'.blocks = Stored(1, Top') /\ Top' = height
  <2>1. Top' = height
    BY <1>8, CommittedTop DEF Top
  <2>2. db'.log = db.log \cup pending.log /\ db'.blocks = db.blocks \cup pending.blocks
    BY <1>8, TogetherIs DEF IInv, RowsType
  <2>3. PICK t \in Nat, h \in Nat : t = Top /\ h = height
    BY <1>1
  <2>4. /\ HeightsOf(db.log) = 1..t /\ HeightsOf(pending.log) = t + 1..h /\ t <= h
        /\ db.blocks = Stored(1, t) /\ pending.blocks = Stored(t + 1, h)
    BY <1>3, <1>4, <1>8, <2>3 DEF Reached
  <2>5. (1..t) \cup (t + 1..h) = 1..h
    BY <2>4
  <2>6. Stored(1, t) \cup Stored(t + 1, h) = Stored(1, h)
    <3>1. PICK a \in Int, b \in Int : a = 1 /\ b = t + 1
      OBVIOUS
    <3>2. a <= b /\ b <= h + 1 => Stored(a, b - 1) \cup Stored(b, h) = Stored(a, h)
      BY StoredIs
    <3>3. b - 1 = t /\ a <= b /\ b <= h + 1
      BY <2>4, <3>1
    <3> QED
      BY <3>1, <3>2, <3>3
  <2>7. HeightsOf(db'.log) = HeightsOf(db.log) \cup HeightsOf(pending.log)
    <3>1. PICK s, r : s = db.log /\ r = pending.log
      OBVIOUS
    <3>2. HeightsOf(s \cup r) = HeightsOf(s) \cup HeightsOf(r)
      BY HeightsOfIs, Zenon
    <3> QED
      BY <2>2, <3>1, <3>2
  <2> QED
    BY <2>1, <2>2, <2>3, <2>4, <2>5, <2>6, <2>7
<1>9. CASE StartProcess
  <2>1. height' = Top /\ Reached' = height' /\ pending' = NoRows /\ db' = db
    BY <1>4, <1>9 DEF StartProcess, Top, Reached
  <2> QED
    BY <1>2, <1>3, <1>6, <2>1
<1>10. CASE LoadGenesis
  <2>1. db'.log = db.log /\ db'.blocks = db.blocks
    <3>1. db = [events |-> db.events, depths |-> db.depths, log |-> db.log,
                blocks |-> db.blocks]
      BY DEF IInv, RowsType, IsTables
    <3> QED
      BY <1>10, <3>1 DEF LoadGenesis
  <2>2. pending' = pending /\ pc # "down" /\ Reached' = Reached
    BY <1>10 DEF LoadGenesis, Reached
  <2> QED
    BY <1>7, <2>1, <2>2
<1>11. CASE GenesisExists
  BY <1>7, <1>11 DEF GenesisExists, Reached
<1>12. CASE StartBlock
  <2>1. Reached' = Reached
    BY <1>1, <1>12 DEF StartBlock, Reached
  <2> QED
    BY <1>7, <1>12, <2>1 DEF StartBlock
<1>13. CASE ProcessEvent
  <2>1. pending'.log = pending.log /\ pending'.blocks = pending.blocks
    <3>1. pending = [events |-> pending.events, depths |-> pending.depths, log |-> pending.log,
                     blocks |-> pending.blocks]
      BY DEF IInv, RowsType, IsTables
    <3> QED
      BY <1>13, <3>1 DEF ProcessEvent
  <2>2. db' = db /\ pc # "down" /\ Reached' = Reached
    BY <1>13 DEF ProcessEvent, Reached
  <2> QED
    BY <1>2, <1>3, <2>1, <2>2
<1>14. CASE NextTx
  BY <1>7, <1>14 DEF NextTx, Reached
<1>15. CASE EndEvents
  <2>1. PICK commit \in BOOLEAN : \E rows : pending' = [pending EXCEPT
               !.log = @ \cup {LogRow(commit)}, !.blocks = @ \cup {BlocksPayload(height)},
               !.depths = @ \cup rows]
    <3>1. PICK synced \in BOOLEAN, written \in SUBSET ChangedPools :
            pending' = [pending EXCEPT
               !.log = @ \cup {LogRow(inserter = "immediate" \/ synced
                                 \/ height % CommitBatchSize = 0 \/ height = 1)},
               !.blocks = @ \cup {BlocksPayload(height)},
               !.depths = @ \cup {DepthRow(p) : p \in written}]
      BY <1>15 DEF EndEvents
    <3> QED
      BY <3>1, Zenon
  <2>2. /\ pending'.log = pending.log \cup {LogRow(commit)}
        /\ pending'.blocks = pending.blocks \cup {BlocksPayload(height)}
    <3>1. pending = [events |-> pending.events, depths |-> pending.depths, log |-> pending.log,
                     blocks |-> pending.blocks]
      BY DEF IInv, RowsType, IsTables
    <3> QED
      BY <2>1, <3>1
  <2>3. LogRow(commit).height = height
    BY LogRowIs
  <2>4. db' = db /\ pc = "event" /\ pc' \in {"flush", "select"} /\ height' = height
    BY <1>15 DEF EndEvents
  <2>5. Reached = height - 1 /\ Reached' = height /\ Top' = Top
    BY <1>2, <2>4 DEF Reached
  <2>6. BlocksPayload(height) = OnChain(height)
    <3>1. PICK h \in 1..Len(chain) : h = height
      BY <1>1, <1>4, <2>4
    <3> QED
      BY <3>1, PayloadIs
  <2>7. PICK t \in Nat, h \in Nat : t = Top /\ h = height
    BY <1>1
  <2>8. t + 1 <= h
    BY <1>4, <2>4, <2>7
  <2>9. /\ (t + 1..(h - 1)) \cup {h} = t + 1..h
        /\ Stored(t + 1, h - 1) \cup {OnChain(h)} = Stored(t + 1, h)
    <3>1. PICK a \in Int : a = t + 1
      OBVIOUS
    <3>2. a <= h
      BY <2>8, <3>1
    <3>3. (a..(h - 1)) \cup {h} = a..h
      BY <3>2
    <3>4. Stored(a, h - 1) \cup {OnChain(h)} = Stored(a, h)
      <4>1. a \in Int /\ h \in Int
        BY <3>1
      <4> QED
        BY <3>2, <4>1, StoredIs, Zenon
    <3> QED
      BY <3>1, <3>3, <3>4
  <2>10. HeightsOf(pending'.log) = HeightsOf(pending.log) \cup {height}
    <3>1. PICK s, r : s = pending.log /\ r = LogRow(commit)
      OBVIOUS
    <3>2. HeightsOf(s \cup {r}) = HeightsOf(s) \cup {r.height}
      <4>1. HeightsOf(s \cup {r}) = HeightsOf(s) \cup HeightsOf({r})
        BY HeightsOfIs, Zenon
      <4>2. HeightsOf({r}) = {r.height}
        BY HeightsOfIs, Zenon
      <4> QED
        BY <4>1, <4>2
    <3> QED
      BY <2>2, <2>3, <3>1, <3>2
  <2> QED
    BY <1>3, <2>2, <2>4, <2>5, <2>6, <2>7, <2>9, <2>10
<1>16. CASE Commit
  <2>1. pc = "flush" /\ db' = Together(db, pending) /\ pending' = NoRows /\ pc' = "select"
        /\ height' = height
    BY <1>16 DEF Commit
  <2>2. Top' = height /\ Reached' = height /\ HeightsOf(db'.log) = 1..Top'
        /\ db'.blocks = Stored(1, Top')
    BY <1>8, <2>1 DEF Reached
  <2>3. Stored(height + 1, height) = {} /\ height + 1..height = {}
    <3>1. PICK h \in Nat : h = height
      BY <1>1
    <3>2. Stored(h + 1, h) = {} /\ h + 1..h = {}
      BY StoredIs, IntervalsAre
    <3> QED
      BY <3>1, <3>2
  <2> QED
    BY <1>6, <2>1, <2>2, <2>3
<1>17. CASE FlushRejected
  BY <1>2, <1>3, <1>17 DEF FlushRejected, LoseMemory
<1>18. CASE Kill
  <2>1. pc' = "down"
    BY <1>18 DEF Kill, LoseMemory
  <2>2. db' = db \/ (pc = "flush" /\ db' = Together(db, pending))
    BY <1>18 DEF Kill
  <2> QED
    BY <1>2, <1>3, <1>8, <2>1, <2>2
<1>19. CASE UNCHANGED vars
  <2>1. db' = db /\ pending' = pending /\ pc' = pc /\ height' = height
    BY <1>19 DEF vars
  <2> QED
    BY <1>2, <1>3, <2>1 DEF Reached
<1> QED
  BY <1>9, <1>10, <1>11, <1>12, <1>13, <1>14, <1>15, <1>16, <1>17, <1>18, <1>19 DEF Next

-----------------------------------------------------------------------------
(* The list of blocks. *)

-----------------------------------------------------------------------------
(* The list of blocks. *)

(* As many blocks are newer than block h as there are heights above it.     *)
LEMMA NewerThan ==
  ASSUME NEW h \in Nat, NEW t \in Nat, h <= t
  PROVE  Cardinality({d \in Stored(1, t) : d.height > h}) = t - h
<1> DEFINE S == h + 1..t
           T == {d \in Stored(1, t) : d.height > h}
           f == [k \in S |-> OnChain(k)]
<1>1. \A k : OnChain(k).height = k
  BY DEF OnChain
<1>2. T = {OnChain(k) : k \in S}
  <2>1. \A k \in 1..t : k > h <=> k \in S
    OBVIOUS
  <2>2. S \subseteq 1..t
    OBVIOUS
  <2> QED
    BY <1>1, <2>1, <2>2 DEF Stored
<1>3. f \in Bijection(S, T)
  <2>1. f \in [S -> T]
    BY <1>2
  <2>2. \A j, k \in S : f[j] = f[k] => j = k
    BY <1>1
  <2>3. \A y \in T : \E k \in S : f[k] = y
    BY <1>2
  <2> QED
    BY <2>1, <2>2, <2>3 DEF Bijection, Injection, Surjection, IsInjective
<1>4. IsFiniteSet(S) /\ Cardinality(S) = t - h
  <2>1. PICK a \in Int : a = h + 1
    OBVIOUS
  <2>2. /\ IsFiniteSet(a..t)
        /\ Cardinality(a..t) = IF a > t THEN 0 ELSE t - a + 1
    <3>1. t \in Int
      OBVIOUS
    <3> QED
      BY ONLY <2>1, <3>1, FS_Interval, Zenon
  <2> QED
    BY <2>1, <2>2
<1>5. ExistsBijection(S, T)
  BY <1>3 DEF ExistsBijection
<1> HIDE DEF S, T
<1>6. Cardinality(T) = Cardinality(S)
  BY <1>4, <1>5, FS_Bijection
<1> QED
  BY <1>4, <1>6 DEF T

(* What the two tables show together: the blocks recorded, all of them.     *)
LEMMA ListIs ==
  ASSUME IInv, BlocksInv
  PROVE  /\ Top \in Nat /\ Top <= Len(chain) /\ Len(chain) \in Nat
         /\ Heights = 1..Top /\ StoredBlocks = Stored(1, Top)
         /\ \A h \in 1..Top : h \in DOMAIN chain
<1>1. Top \in Nat /\ Top <= Len(chain) /\ Len(chain) \in Nat
  BY TopOf, HeightIs DEF IInv, PositionInv
<1>2. Heights = 1..Top /\ db.blocks = Stored(1, Top)
  BY DEF BlocksInv, Heights, Stored
<1>3. StoredBlocks = Stored(1, Top)
  BY <1>2 DEF StoredBlocks, Stored, OnChain
<1>4. DOMAIN chain = 1..Len(chain)
  BY ChainIs DEF IInv, TypeOK
<1> QED
  BY <1>1, <1>2, <1>3, <1>4

(* So a page has the blocks of a range of heights.                          *)
LEMMA PageIs ==
  ASSUME IInv, BlocksInv, NEW limit \in Nat, NEW offset \in Nat,
         NEW t, t = Top
  PROVE  BlocksList(limit, offset) =
           {Summary(OnChain(h)) : h \in {k \in 1..t : /\ offset <= t - k
                                                       /\ t - k < offset + limit}}
<1> DEFINE rank(b) == Cardinality({d \in StoredBlocks : d.height > b.height})
           page == {c \in StoredBlocks : rank(c) \in offset..offset + limit - 1}
           there == {k \in 1..t : offset <= t - k /\ t - k < offset + limit}
<1>1. t \in Nat /\ StoredBlocks = Stored(1, t)
  BY ListIs
<1>2. \A k \in 1..t : rank(OnChain(k)) = t - k
  <2> TAKE k \in 1..t
  <2>1. OnChain(k).height = k
    BY DEF OnChain
  <2>2. k \in Nat /\ k <= t
    BY <1>1
  <2>3. Cardinality({d \in Stored(1, t) : d.height > k}) = t - k
    BY <1>1, <2>2, NewerThan
  <2> QED
    BY <1>1, <2>1, <2>3
<1>3. \A k \in 1..t : t - k \in offset..offset + limit - 1 <=> k \in there
  BY <1>1
<1>4. page = {OnChain(k) : k \in there}
  BY <1>1, <1>2, <1>3 DEF Stored
<1>5. BlocksList(limit, offset) = {Summary(b) : b \in page}
  BY DEF BlocksList
<1> HIDE DEF page, there
<1>6. {Summary(b) : b \in {OnChain(k) : k \in there}} = {Summary(OnChain(h)) : h \in there}
  OBVIOUS
<1> QED
  BY <1>4, <1>5, <1>6 DEF there

(* A page has room for a block.                                             *)
LEMMA PageLimitIs ==
  ASSUME NEW asked \in Limits
  PROVE  PageLimit(asked) \in Nat \ {0}
<1>1. asked \in Nat \ {0} /\ maxBlocksLimit \in Nat \ {0}
  BY QueriesAssumption
<1>2. {asked, maxBlocksLimit} \subseteq Nat /\ {asked, maxBlocksLimit} # {}
  BY <1>1
<1>3. Min({asked, maxBlocksLimit}) \in {asked, maxBlocksLimit}
  BY <1>2, MinOf, Zenon
<1> QED
  BY <1>1, <1>3 DEF PageLimit

(* The database only gains blocks.                                          *)
LEMMA TopRises ==
  ASSUME IInv, [Next]_vars
  PROVE  Top' \in Nat /\ Top <= Top'
<1>1. Top \in Nat /\ height \in Nat /\ (pc # "down" => Top <= height)
  BY TopOf, HeightIs DEF IInv, PositionInv
<1>2. db'.log = db.log => Top' = Top
  BY DEF Top
<1>3. ASSUME pc = "flush", db' = Together(db, pending)
      PROVE  Top' = height
  BY <1>3, CommittedTop DEF Top
<1>4. LoadGenesis => db'.log = db.log
  <2>1. db = [events |-> db.events, depths |-> db.depths, log |-> db.log, blocks |-> db.blocks]
    BY DEF IInv, RowsType, IsTables
  <2> QED
    BY <2>1 DEF LoadGenesis
<1>5. db' = db \/ (pc = "flush" /\ db' = Together(db, pending)) \/ LoadGenesis
  BY DEF Next, vars, StartProcess, GenesisExists, StartBlock, ProcessEvent, NextTx,
         EndEvents, Commit, FlushRejected, Kill
<1> QED
  BY <1>1, <1>2, <1>3, <1>4, <1>5

PagesInv == ReaderType /\ OffsetInv /\ PagesLeaveNoGap

(* The recorder only pushes the offset of a client further.                 *)
LEMMA RecordKeepsPages ==
  ASSUME QueriesIInv, [Next]_vars, reader' = reader \/ reader' = Idle
  PROVE  PagesInv'
<1>1. /\ IInv /\ ReaderType /\ OffsetInv /\ PagesLeaveNoGap
      /\ chain' = chain
  BY SameChain DEF QueriesIInv
<1>2. Top \in Nat /\ Top' \in Nat /\ Top <= Top'
  BY <1>1, ListIs, TopRises DEF QueriesIInv
<1>3. CASE reader' = Idle
  BY <1>3 DEF PagesInv, ReaderType, OffsetInv, PagesLeaveNoGap, Idle
<1>4. CASE reader' = reader
  <2>1. ReaderType'
    BY <1>1, <1>4 DEF ReaderType
  <2>2. PagesLeaveNoGap'
    BY <1>1, <1>4 DEF PagesLeaveNoGap, OnChain
  <2>3. OffsetInv'
    <3>1. SUFFICES ASSUME reader.kind = "blocks"
                   PROVE  /\ reader.there \subseteq 1..Top'
                          /\ \A h \in reader.there :
                               Seen(h) \/ (reader.more /\ reader.offset <= Top' - h)
      BY <1>4 DEF OffsetInv, Seen
    <3>2. /\ reader.there \subseteq 1..Top
          /\ \A h \in reader.there : Seen(h) \/ (reader.more /\ reader.offset <= Top - h)
          /\ reader.offset \in Nat
      BY <1>1, <3>1 DEF OffsetInv, ReaderType
    <3> QED
      BY <1>2, <3>2
  <2> QED
    BY <2>1, <2>2, <2>3 DEF PagesInv
<1> QED
  BY <1>3, <1>4

(* A client begins with everything ahead of it.                             *)
LEMMA OpenBlocksKeepsPages ==
  ASSUME QueriesIInv, OpenBlocks
  PROVE  PagesInv'
<1>1. PICK asked \in Limits :
        reader' = [kind |-> "blocks", asked |-> asked, offset |-> 0, there |-> Heights,
                   seen |-> {}, more |-> TRUE]
  BY DEF OpenBlocks
<1>2. chain' = chain /\ Top' = Top
  BY DEF OpenBlocks, vars, Top
<1>3. Top \in Nat /\ Heights = 1..Top
  BY ListIs DEF QueriesIInv
<1>4. ReaderType'
  BY <1>1 DEF ReaderType
<1>5. OffsetInv'
  BY <1>1, <1>2, <1>3 DEF OffsetInv
<1>6. PagesLeaveNoGap'
  BY <1>1 DEF PagesLeaveNoGap
<1> QED
  BY <1>4, <1>5, <1>6 DEF PagesInv

(* A single block is answered with what the chain has of it.                *)
LEMMA AskBlockKeepsPages ==
  ASSUME QueriesIInv, AskBlock
  PROVE  PagesInv'
<1>1. PICK h \in DOMAIN chain :
        reader' = [kind |-> "block", height |-> h, there |-> h \in Heights,
                   answer |-> BlockDetail(h)]
  BY DEF AskBlock
<1>2. chain' = chain
  BY DEF AskBlock, vars
<1>3. Heights = 1..Top /\ StoredBlocks = Stored(1, Top)
  BY ListIs DEF QueriesIInv
<1>4. BlockDetail(h) = IF h \in Heights THEN {OnChain(h)} ELSE {}
  BY <1>3 DEF BlockDetail, Stored, OnChain
<1>5. ReaderType' /\ OffsetInv'
  BY <1>1 DEF ReaderType, OffsetInv
<1>6. PagesLeaveNoGap'
  BY <1>1, <1>2, <1>4 DEF PagesLeaveNoGap, OnChain
<1> QED
  BY <1>5, <1>6 DEF PagesInv

(* A page has all from its offset to its end, so what a client misses in it *)
(* is behind the next offset; an empty page is behind the last block.       *)
LEMMA NextPageKeepsPages ==
  ASSUME QueriesIInv, NextPage
  PROVE  PagesInv'
<1>1. PICK page, limit, t, o :
        /\ page = BlocksList(PageLimit(reader.asked), reader.offset)
        /\ limit = PageLimit(reader.asked) /\ t = Top /\ o = reader.offset
  OBVIOUS
<1>2. /\ IInv /\ BlocksInv /\ ReaderType /\ OffsetInv /\ PagesLeaveNoGap
      /\ reader.kind = "blocks" /\ reader.more /\ chain' = chain /\ Top' = t
  BY <1>1 DEF QueriesIInv, NextPage, vars, Top
<1>3. reader' = [reader EXCEPT !.seen = @ \cup page, !.more = page # {},
                               !.offset = @ + limit]
  BY <1>1 DEF NextPage, AnsweredLimit
<1>4. PICK asked, there, seen :
        /\ reader = [kind |-> "blocks", asked |-> asked, offset |-> o, there |-> there,
                     seen |-> seen, more |-> reader.more]
        /\ asked \in Limits /\ o \in Nat
  BY <1>1, <1>2 DEF ReaderType
<1>5. limit \in Nat \ {0} /\ reader.asked = asked /\ reader.there = there /\ reader.seen = seen
  BY <1>1, <1>4, PageLimitIs
<1>6. reader' = [kind |-> "blocks", asked |-> asked, offset |-> o + limit,
                 there |-> there, seen |-> seen \cup page, more |-> page # {}]
  <2>1. PICK more : reader = [kind |-> "blocks", asked |-> asked, offset |-> o,
                              there |-> there, seen |-> seen, more |-> more]
    BY <1>4
  <2> QED
    BY <1>3, <2>1
<1>7. page = {Summary(OnChain(h)) : h \in {k \in 1..t : o <= t - k /\ t - k < o + limit}}
  <2>1. limit \in Nat
    BY <1>5
  <2> QED
    BY <1>1, <1>2, <1>4, <2>1, PageIs
<1>8. t \in Nat /\ \A h \in 1..t : h \in DOMAIN chain
  BY <1>1, <1>2, ListIs
<1>9. \A h : Summary(OnChain(h)).height = h
  BY DEF Summary, OnChain
<1>10. /\ there \subseteq 1..t
       /\ \A h \in there : (\E s \in seen : s.height = h) \/ o <= t - h
  BY <1>1, <1>2, <1>5 DEF OffsetInv, Seen
<1>11. \A h \in there :
         (\E s \in reader'.seen : s.height = h) \/ (page # {} /\ o + limit <= t - h)
  <2> SUFFICES ASSUME NEW h \in there, \A s \in seen \cup page : s.height # h
               PROVE  page # {} /\ o + limit <= t - h
    BY <1>6
  <2>1. h \in 1..t /\ o <= t - h
    BY <1>10
  <2>2. ~(t - h < o + limit)
    BY <1>7, <1>9, <2>1
  <2>3. t - o \in {k \in 1..t : o <= t - k /\ t - k < o + limit}
    BY <1>4, <1>5, <1>8, <2>1
  <2>4. page # {}
    BY <1>7, <2>3
  <2>5. o + limit <= t - h
    BY <1>4, <1>5, <1>8, <2>1, <2>2
  <2> QED
    BY <2>4, <2>5
<1>12. ReaderType'
  BY <1>4, <1>5, <1>6 DEF ReaderType
<1>13. OffsetInv'
  BY <1>2, <1>6, <1>10, <1>11 DEF OffsetInv, Seen
<1>14. PagesLeaveNoGap'
  <2>1. reader'.seen \subseteq {Summary(OnChain(h)) : h \in DOMAIN chain}
    <3>1. seen \subseteq {Summary(OnChain(h)) : h \in DOMAIN chain}
      BY <1>2, <1>5 DEF PagesLeaveNoGap
    <3>2. page \subseteq {Summary(OnChain(h)) : h \in DOMAIN chain}
      BY <1>7, <1>8
    <3> QED
      BY <1>6, <3>1, <3>2
  <2>2. \A h \in there :
          page = {} \/ (\E s \in reader'.seen : s.height < h)
            => \E s \in reader'.seen : s.height = h
    <3> SUFFICES ASSUME NEW h \in there, \A s \in reader'.seen : s.height # h,
                        page = {} \/ (\E s \in reader'.seen : s.height < h)
                 PROVE  FALSE
      OBVIOUS
    <3>1. page # {} /\ o + limit <= t - h /\ h \in 1..t
      BY <1>10, <1>11
    <3>2. PICK s \in seen \cup page : s.height < h
      BY <1>6, <3>1
    <3>3. s \notin seen
      BY <1>2, <1>5, <1>6, <3>2 DEF PagesLeaveNoGap
    <3>4. PICK k \in 1..t : t - k < o + limit /\ s = Summary(OnChain(k))
      BY <1>7, <3>2, <3>3
    <3>5. k < h
      BY <1>9, <3>2, <3>4
    <3> QED
      BY <1>4, <1>5, <1>8, <3>1, <3>4, <3>5
  <2>3. \A h : OnChain(h)' = OnChain(h)
    BY <1>2 DEF OnChain
  <2>4. reader'.kind = "blocks" /\ reader'.there = there /\ (reader'.more <=> page # {})
    BY <1>6
  <2> QED
    BY <1>2, <2>1, <2>2, <2>3, <2>4 DEF PagesLeaveNoGap
<1> QED
  BY <1>12, <1>13, <1>14 DEF PagesInv

(* All steps together.                                                      *)
LEMMA PagesStep ==
  ASSUME QueriesIInv, [QueriesNext]_queryVars
  PROVE  PagesInv'
<1>1. CASE Record
  <2>1. [Next]_vars /\ (reader' = reader \/ reader' = Idle)
    BY <1>1 DEF Record
  <2> QED
    BY <2>1, RecordKeepsPages
<1>2. CASE OpenBlocks
  BY <1>2, OpenBlocksKeepsPages
<1>3. CASE NextPage
  BY <1>3, NextPageKeepsPages
<1>4. CASE AskBlock
  BY <1>4, AskBlockKeepsPages
<1>5. CASE AskHistory
  <2>1. PICK q, ts, now : reader' = [kind |-> "depths", request |-> q, timestamps |-> ts,
                                     now |-> now, has |-> FALSE, before |-> << >>]
    BY <1>5 DEF AskHistory
  <2> QED
    BY <2>1 DEF PagesInv, ReaderType, OffsetInv, PagesLeaveNoGap
<1>6. CASE ReadBefore
  <2>1. PICK before : reader' = [reader EXCEPT !.has = TRUE, !.before = before]
    BY <1>6 DEF ReadBefore
  <2>2. reader.kind = "depths" /\ ReaderType
    BY <1>6 DEF ReadBefore, QueriesIInv
  <2>3. reader' = [kind |-> "depths", request |-> reader.request,
                   timestamps |-> reader.timestamps, now |-> reader.now, has |-> TRUE,
                   before |-> before]
    BY <2>1, <2>2 DEF ReaderType
  <2> QED
    BY <2>3 DEF PagesInv, ReaderType, OffsetInv, PagesLeaveNoGap
<1>7. CASE Respond
  <2>1. [Next]_vars /\ reader' = Idle
    BY <1>7 DEF Respond
  <2> QED
    BY <2>1, RecordKeepsPages
<1>8. CASE UNCHANGED queryVars
  <2>1. [Next]_vars /\ reader' = reader
    BY <1>8 DEF queryVars
  <2> QED
    BY <2>1, RecordKeepsPages
<1> QED
  BY <1>1, <1>2, <1>3, <1>4, <1>5, <1>6, <1>7, <1>8 DEF QueriesNext

-----------------------------------------------------------------------------
(* The earnings of a period. *)

LEMMA Multiples ==
  ASSUME NEW d \in Nat \ {0}, NEW a \in Int, NEW b \in Int
  PROVE  /\ a * d \in Int /\ b * d \in Int
         /\ a < b => a * d + d <= b * d
         /\ a <= b => a * d <= b * d
         /\ a * d < b * d => a < b
<1>1. PICK c \in Int : c = b - a
  OBVIOUS
<1>2. b * d = a * d + c * d
  BY <1>1
<1>3. a * d \in Int /\ b * d \in Int /\ c * d \in Int
  OBVIOUS
<1>4. c >= 1 => c * d >= d
  OBVIOUS
<1>5. c >= 0 => c * d >= 0
  OBVIOUS
<1>6. c <= 0 => c * d <= 0
  OBVIOUS
<1> QED
  BY <1>1, <1>2, <1>3, <1>4, <1>5, <1>6

(* A time is between its quotient and the next.                             *)
LEMMA Quotient ==
  ASSUME NEW d \in Nat \ {0}, NEW t \in Int
  PROVE  /\ t \div d \in Int
         /\ (t \div d) * d <= t /\ t < (t \div d) * d + d
OBVIOUS

(* A moment is in the day between its floor and, unless it is the start of  *)
(* the day itself, its ceiling.                                             *)
LEMMA DayIs ==
  ASSUME NEW t \in Int
  PROVE  \E q \in Int : /\ TimeBucketFloor(t) = q * Day
                        /\ q * Day <= t /\ t < q * Day + Day
                        /\ TimeBucketCeil(t) = IF t = q * Day THEN t ELSE (q + 1) * Day
<1>1. PICK d \in Nat \ {0} : d = Day
  BY QueriesAssumption DEF Day
<1>2. PICK q \in Int : q = t \div d /\ q * d <= t /\ t < q * d + d
  BY Quotient
<1>3. PICK u \in Int : u = t + d - 1
  OBVIOUS
<1>4. PICK c \in Int : c = u \div d /\ c * d <= u /\ u < c * d + d
  BY Quotient
<1>5. PICK r \in Int, s \in Int : r = q + 1 /\ s = q + 2
  OBVIOUS
<1>6. r * d = q * d + d /\ s * d = r * d + d /\ q * d \in Int /\ r * d \in Int /\ s * d \in Int
  BY <1>5
<1>7. PICK x \in Int, y \in Int, z \in Int, v \in Int :
        x = q * d /\ y = r * d /\ z = s * d /\ v = c * d
  OBVIOUS
<1>8. /\ c < q => v + d <= x
      /\ c < r => v + d <= y
      /\ v < y => c < r
      /\ v < z => c < s
  BY <1>7, Multiples
<1>9. y = x + d /\ z = y + d /\ x <= t /\ t < x + d /\ v <= u /\ u < v + d
  BY <1>2, <1>4, <1>6, <1>7
<1>10. t = x => c = q
  BY <1>3, <1>5, <1>8, <1>9
<1>11. t # x => c = r
  BY <1>3, <1>5, <1>8, <1>9
<1> QED
  <2>1. TimeBucketFloor(t) = x /\ TimeBucketCeil(t) = v
    BY <1>1, <1>2, <1>3, <1>4, <1>7 DEF TimeBucketFloor, TimeBucketCeil
  <2>2. TimeBucketCeil(t) = IF t = x THEN t ELSE (q + 1) * Day
    BY <1>1, <1>5, <1>7, <1>10, <1>11, <2>1
  <2> QED
    BY <1>1, <1>2, <1>7, <2>1, <2>2

(* A moment is in exactly one part of an interval, or outside of it.        *)
InBefore(t, low) == low > 0 /\ low # TimeBucketCeil(low) /\ low <= t /\ t < TimeBucketCeil(low)
InAfter(t, high) == high # TimeBucketFloor(high) /\ TimeBucketFloor(high) <= t /\ t < high
InDays(t, low, high) ==
  WholeDay(TimeBucketFloor(t), TimeBucketCeil(low), TimeBucketFloor(high), low)

(* No moment is in two parts, and all of the interval are in one.           *)
LEMMA PartsAreApart ==
  ASSUME NEW t \in Nat \ {0}, NEW low \in Int, NEW high \in Int, low <= high,
         ~WithinOneDay(low, high)
  PROVE  /\ low <= t /\ t < high
              <=> InBefore(t, low) \/ InAfter(t, high) \/ InDays(t, low, high)
         /\ ~(InBefore(t, low) /\ InAfter(t, high))
         /\ ~(InBefore(t, low) /\ InDays(t, low, high))
         /\ ~(InAfter(t, high) /\ InDays(t, low, high))
<1>1. PICK d \in Nat \ {0} : d = Day
  BY QueriesAssumption DEF Day
<1>2. PICK q \in Int : /\ TimeBucketFloor(t) = q * d /\ q * d <= t /\ t < q * d + d
  <2>1. t \in Int
    OBVIOUS
  <2> QED
    BY <1>1, <2>1, DayIs
<1>3. PICK k \in Int : /\ TimeBucketFloor(high) = k * d /\ k * d <= high /\ high < k * d + d
  BY <1>1, DayIs
<1>4. PICK j \in Int : /\ TimeBucketFloor(low) = j * d /\ j * d <= low /\ low < j * d + d
                       /\ TimeBucketCeil(low) = IF low = j * d THEN low ELSE (j + 1) * d
  BY <1>1, DayIs
<1>5. PICK i \in Int : i = j + 1
  OBVIOUS
<1>6. PICK a \in Int, b \in Int, c \in Int, e \in Int : a = q * d /\ b = k * d /\ c = j * d
             /\ e = i * d
  OBVIOUS
<1>7. e = c + d
  BY <1>5, <1>6
<1>8. /\ a < b => a + d <= b
      /\ c < b => c + d <= b
      /\ b < c => b + d <= c
      /\ a < c => a + d <= c
      /\ a < e => a + d <= e
      /\ c < a => c + d <= a
  BY <1>6, Multiples
<1>9. /\ a <= t /\ t < a + d /\ b <= high /\ high < b + d /\ c <= low /\ low < c + d
      /\ TimeBucketFloor(t) = a /\ TimeBucketFloor(high) = b /\ TimeBucketFloor(low) = c
      /\ TimeBucketCeil(low) = IF low = c THEN low ELSE e
  BY <1>2, <1>3, <1>4, <1>5, <1>6
<1>10. ~(low > 0 /\ low # c /\ c = b)
  BY <1>9 DEF WithinOneDay
<1>11. /\ InBefore(t, low) <=> low > 0 /\ low # c /\ low <= t /\ t < e
       /\ InAfter(t, high) <=> high # b /\ b <= t /\ t < high
       /\ InDays(t, low, high) <=> a < b /\ (low > 0 =>
            (low = c /\ c <= a) \/ (low # c /\ e <= a))
  BY <1>7, <1>9 DEF InBefore, InAfter, InDays, WholeDay
<1> QED
  BY <1>7, <1>8, <1>9, <1>10, <1>11

(* So the parts of a union are disjoint and make up the interval.           *)
LEMMA UnionIsInterval ==
  ASSUME NEW rows, \A r \in rows : TimeOf(r) \in Nat \ {0},
         NEW low \in Int, NEW high \in Int, low <= high, ~WithinOneDay(low, high),
         NEW parts, parts = UnionParts(rows, low, high)
  PROVE  /\ parts[1] \cup parts[2] \cup parts[3] = Interval(rows, low, high)
         /\ parts[1] \cap parts[2] = {}
         /\ (parts[1] \cup parts[2]) \cap parts[3] = {}
<1>1. /\ parts[1] = {r \in rows : InBefore(TimeOf(r), low)}
      /\ parts[2] = {r \in rows : InAfter(TimeOf(r), high)}
      /\ parts[3] = {r \in rows : InDays(TimeOf(r), low, high)}
  BY DEF UnionParts, InBefore, InAfter, InDays
<1>2. \A r \in rows :
        /\ low <= TimeOf(r) /\ TimeOf(r) < high
             <=> \/ InBefore(TimeOf(r), low) \/ InAfter(TimeOf(r), high)
                 \/ InDays(TimeOf(r), low, high)
        /\ ~(InBefore(TimeOf(r), low) /\ InAfter(TimeOf(r), high))
        /\ ~(InBefore(TimeOf(r), low) /\ InDays(TimeOf(r), low, high))
        /\ ~(InAfter(TimeOf(r), high) /\ InDays(TimeOf(r), low, high))
  BY PartsAreApart
<1> QED
  BY <1>1, <1>2 DEF Interval

(* The total of two sets of rows that have none in common.                  *)
LEMMA TotalOfBoth ==
  ASSUME NEW p, NEW s, IsFiniteSet(s), NEW t, IsFiniteSet(t), s \cap t = {},
         \A r \in s \cup t : r.amount.e8 \in Int
  PROVE  TotalOf(p, s \cup t) = TotalOf(p, s) + TotalOf(p, t)
<1> DEFINE of(rows) == {r \in rows : r.amount.key = p}
           f == [r \in s \cup t |-> r.amount.e8]
           g == [r \in s |-> r.amount.e8]
           h == [r \in t |-> r.amount.e8]
<1>1. /\ IsFiniteSet(of(s)) /\ IsFiniteSet(of(t)) /\ of(s) \cap of(t) = {}
      /\ of(s \cup t) = of(s) \cup of(t)
  BY FS_Subset
<1>2. /\ \A r \in of(s) \cup of(t) : f[r] \in Int
      /\ \A r \in of(s) : g[r] = f[r]
      /\ \A r \in of(t) : h[r] = f[r]
  OBVIOUS
<1>3. /\ TotalOf(p, s \cup t) = SumFunctionOnSet(f, of(s \cup t))
      /\ TotalOf(p, s) = SumFunctionOnSet(g, of(s))
      /\ TotalOf(p, t) = SumFunctionOnSet(h, of(t))
  BY DEF TotalOf
<1> HIDE DEF of, f, g, h
<1>4. SumFunctionOnSet(g, of(s)) = SumFunctionOnSet(f, of(s))
  BY ONLY <1>1, <1>2, SumOfSame
<1>5. SumFunctionOnSet(h, of(t)) = SumFunctionOnSet(f, of(t))
  BY ONLY <1>1, <1>2, SumOfSame
<1>6. SumFunctionOnSet(f, of(s) \cup of(t))
        = SumFunctionOnSet(f, of(s)) + SumFunctionOnSet(f, of(t))
  BY ONLY <1>1, <1>2, SumOfBoth
<1> QED
  BY <1>1, <1>3, <1>4, <1>5, <1>6

(* An entry is of a block of the chain and has an amount.                   *)
LEMMA EntriesAre ==
  ASSUME IInv
  PROVE  /\ IsFiniteSet(RewardEntries)
         /\ \A r \in RewardEntries : r.amount.e8 \in Int /\ TimeOf(r) \in Nat \ {0}
<1> DEFINE of(r) == [height |-> r.event[1], event |-> r.event, part |-> r.part,
                     amount |-> EventAt(r.event).attrs[r.part]]
           rows == {s \in db.events : s.event[1] > 0 /\ s.part > 0}
<1>1. /\ db.events \subseteq EventRows /\ IsFiniteSet(db.events)
      /\ \A r \in db.events : /\ InChain(r.event)
                              /\ r.event[1] > 0 => r.part \in DOMAIN RowsOf(EventAt(r.event))
  <2>1. db.events \subseteq Written.events
    BY WrittenIs DEF IInv
  <2> QED
    BY <2>1 DEF IInv, RowsType, IsTables, EventsInv
<1>2. RewardEntries = {of(r) : r \in rows}
  BY DEF RewardEntries
<1>3. IsFiniteSet(RewardEntries)
  <2>1. IsFiniteSet(rows)
    BY <1>1, FS_Subset
  <2>2. PICK f : f = [r \in rows |-> of(r)]
    OBVIOUS
  <2>3. RewardEntries = {f[r] : r \in rows}
    BY <1>2, <2>2
  <2> HIDE DEF rows
  <2> QED
    BY <2>1, <2>3, ImageIsFinite
<1>4. ASSUME NEW r \in rows
      PROVE  EventAt(r.event).attrs[r.part].e8 \in Int /\ Times[r.event[1]] \in Nat \ {0}
  <2>1. PICK e, part, ev : e = r.event /\ part = r.part /\ ev = EventAt(e)
    OBVIOUS
  <2>2. /\ InChain(e) /\ e[1] \in Nat /\ e[1] > 0 /\ part \in Nat /\ part > 0
        /\ part \in DOMAIN RowsOf(ev)
    BY <1>1, <2>1 DEF EventRows, Places
  <2>3. /\ chain \in Chains /\ e[1] \in 1..Len(chain)
        /\ e[2] \in 0..Len(chain[e[1]].TxsResults)
        /\ e[3] \in 1..Len(EventsOf(chain[e[1]], e[2]))
        /\ ev = EventsOf(chain[e[1]], e[2])[e[3]]
    BY <2>1, <2>2 DEF IInv, TypeOK, InChain, EventAt
  <2>4. \A i \in PerPool(ev) : ev.attrs[i].e8 \in Int
    BY <2>3, EventIs
  <2>5. part \in PerPool(ev)
    <3>1. DOMAIN RowsOf(ev) = IF Loads(ev)
            THEN {0} \cup (IF ev.type = "rewards" THEN PerPool(ev) ELSE {}) ELSE {}
      BY DEF RowsOf
    <3> QED
      BY <2>2, <3>1
  <2>6. Times[e[1]] \in Nat \ {0}
    <3>1. Len(chain) \in Nat /\ Len(chain) <= Len(Times) /\ Times \in Seq(Nat \ {0})
      BY <2>3, HeightIs, QueriesAssumption
    <3>2. PICK n \in Nat, m \in Nat : n = Len(chain) /\ m = Len(Times)
      BY <3>1
    <3>3. e[1] \in 1..m
      BY <2>3, <3>1, <3>2
    <3> QED
      BY <3>1, <3>2, <3>3
  <2> QED
    BY <2>1, <2>4, <2>5, <2>6
<1>5. ASSUME NEW r \in RewardEntries
      PROVE  r.amount.e8 \in Int /\ TimeOf(r) \in Nat \ {0}
  <2>1. PICK s \in rows : r = of(s)
    BY <1>2
  <2> HIDE DEF rows
  <2>2. r.amount = EventAt(s.event).attrs[s.part] /\ r.height = s.event[1]
    BY <2>1
  <2> QED
    BY <1>4, <2>2 DEF TimeOf
<1> QED
  BY <1>3, <1>5

(* The clock is after the newest block, which is not before the first.      *)
LEMMA ClockIs ==
  ASSUME QueriesIInv, Answering
  PROVE  NowSecond \in Int /\ \A low \in PeriodStarts : low \in Int /\ low <= NowSecond
<1>1. PICK t, n, m : t = Top /\ n = Len(chain) /\ m = Len(Times)
  OBVIOUS
<1>2. t \in Nat /\ n \in Nat /\ t <= n /\ Heights = 1..t
  BY <1>1, ListIs DEF QueriesIInv
<1>3. /\ db.log # {} /\ t = LastRow(db.log).height /\ LastRow(db.log) \in db.log
  BY <1>1, TopOf DEF Answering, QueriesIInv, IInv
<1>4. t \in 1..t
  <2>1. t \in Heights
    BY <1>3 DEF Heights
  <2> QED
    BY <1>2, <2>1
<1>5. /\ Times \in Seq(Nat \ {0}) /\ m \in Nat /\ n <= m
      /\ \A h, k \in 1..m : h < k => Times[h] < Times[k]
  <2>1. Times \in Seq(Nat \ {0}) /\ \A h, k \in DOMAIN Times : h < k => Times[h] < Times[k]
    BY QueriesAssumption
  <2>2. chain \in Chains
    BY DEF QueriesIInv, IInv, TypeOK
  <2>3. Len(chain) <= Len(Times)
    BY <2>2, QueriesAssumption
  <2>4. m \in Nat /\ DOMAIN Times = 1..m
    BY <1>1, <2>1
  <2> QED
    BY <1>1, <2>1, <2>3, <2>4
<1>6. 1 \in 1..m /\ t \in 1..m
  BY <1>2, <1>4, <1>5
<1>7. PICK x, y : x = Times[1] /\ y = Times[t]
  OBVIOUS
<1>8. x \in Nat /\ y \in Nat /\ x <= y
  <2>1. x \in Nat /\ y \in Nat
    <3>1. \A h \in 1..m : Times[h] \in Nat \ {0}
      BY <1>1, <1>5
    <3> QED
      BY <1>6, <1>7, <3>1
  <2>2. CASE t = 1
    BY <1>7, <2>1, <2>2
  <2>3. CASE t # 1
    <3>1. 1 < t
      BY <1>4, <1>2, <2>3
    <3> QED
      BY <1>5, <1>6, <1>7, <2>1, <3>1
  <2> QED
    BY <2>2, <2>3
<1>9. NowSecond = y + 1 /\ FirstSecond = x
  BY <1>3, <1>7 DEF NowSecond, FirstSecond
<1>10. PICK now : now = NowSecond
  OBVIOUS
<1>11. \A low \in PeriodStarts : low = x \/ \E length \in Periods : low = now - length
  <2>1. PeriodStarts = {now - length : length \in Periods} \cup {x}
    BY <1>9, <1>10 DEF PeriodStarts
  <2> QED
    BY <2>1
<1>12. \A length \in Periods : length \in Nat
  BY QueriesAssumption
<1> QED
  BY <1>8, <1>9, <1>10, <1>11, <1>12

-----------------------------------------------------------------------------
(* The calendar.                                                            *)

LEMMA MaxIs ==
  ASSUME NEW S, S \subseteq Int, NEW m \in S, \A x \in S : x <= m
  PROVE  Max(S) = m
<1>1. \A y \in S : (\A x \in S : y >= x) => y = m
  OBVIOUS
<1>2. \A x \in S : m >= x
  OBVIOUS
<1> QED
  BY <1>1, <1>2 DEF Max

(* The least of a set is found likewise.                                    *)
LEMMA MinIs ==
  ASSUME NEW S, S \subseteq Int, NEW m \in S, \A x \in S : m <= x
  PROVE  Min(S) = m
<1>1. \A y \in S : (\A x \in S : y <= x) => y = m
  OBVIOUS
<1> QED
  BY <1>1 DEF Min

(* A number is made up of a quotient and a rest.                            *)
LEMMA QuotientAndRest ==
  ASSUME NEW c \in Nat \ {0}, NEW s \in Int
  PROVE  s \div c \in Int /\ s % c \in 0..c - 1 /\ s = (s \div c) * c + (s % c)
OBVIOUS

(* The cycle a time is in, and how far it is into it.                       *)
LEMMA CycleIs ==
  ASSUME NEW c \in Nat \ {0}, NEW q \in Int, NEW m \in 0..c - 1, NEW s, s = q * c + m
  PROVE  s \in Int /\ s \div c = q /\ s % c = m
<1>1. s \in Int
  OBVIOUS
<1>2. PICK k \in Int : k = s \div c /\ k * c <= s /\ s < k * c + c
  BY <1>1, Quotient
<1>3. PICK x \in Int, y \in Int : x = q * c /\ y = k * c
  OBVIOUS
<1>4. ~(q < k) /\ ~(k < q)
  <2>1. q < k => x + c <= y
    BY <1>3, Multiples
  <2>2. k < q => y + c <= x
    BY <1>3, Multiples
  <2> QED
    BY <1>2, <1>3, <2>1, <2>2
<1>5. k = q
  BY <1>4
<1>6. s = (s \div c) * c + (s % c)
  BY <1>1, QuotientAndRest
<1> QED
  BY <1>1, <1>2, <1>3, <1>5, <1>6

(* A time belongs to the last offset of its cycle that is not after it.     *)
LEMMA TruncAt ==
  ASSUME NEW i, IsInterval(i), NEW q \in Int, NEW m \in 0..i.cycle - 1,
         NEW o \in i.offsets, o <= m, \A x \in i.offsets : x <= m => x <= o,
         NEW t, t = i.origin + q * i.cycle + m
  PROVE  Trunc(i, t) = i.origin + q * i.cycle + o
<1>1. PICK c \in Nat \ {0}, g \in Int : c = i.cycle /\ g = i.origin
             /\ i.offsets \subseteq 0..c - 1
  BY DEF IsInterval
<1>2. PICK s \in Int : s = t - g /\ s = q * c + m
  BY <1>1
<1>3. s \div c = q /\ s % c = m
  <2>1. m \in 0..c - 1
    BY <1>1
  <2> QED
    BY ONLY <1>2, <2>1, CycleIs
<1>4. Max({x \in i.offsets : x <= m}) = o
  <2>1. {x \in i.offsets : x <= m} \subseteq Int
    BY <1>1
  <2> QED
    BY <2>1, MaxIs
<1> QED
  BY <1>1, <1>2, <1>3, <1>4 DEF Trunc

(* A time is in a bucket, from its start to the start of the next.          *)
LEMMA BucketIs ==
  ASSUME NEW i, IsInterval(i), NEW t \in Int
  PROVE  \E b, e \in Int :
           /\ b = Trunc(i, t) /\ b <= t /\ t < e
           /\ i.minDuration <= e - b /\ e - b <= i.maxDuration
           /\ \A x \in Int : b <= x /\ x < e => Trunc(i, x) = b
           /\ Trunc(i, e) = e
<1>1. PICK c \in Nat \ {0}, g \in Int, d \in Nat \ {0}, D \in Nat \ {0} :
        /\ c = i.cycle /\ g = i.origin /\ d = i.minDuration /\ D = i.maxDuration
        /\ i.offsets \subseteq 0..c - 1 /\ 0 \in i.offsets
  BY DEF IsInterval
<1>2. PICK s \in Int : s = t - g
  BY <1>1
<1>3. PICK q \in Int, m \in 0..c - 1 : s = q * c + m
  <2>1. s = (s \div c) * c + (s % c) /\ s % c \in 0..c - 1 /\ s \div c \in Int
    BY <1>1, <1>2, QuotientAndRest
  <2> QED
    BY <2>1
<1>4. PICK o \in i.offsets : o <= m /\ \A x \in i.offsets : x <= m => x <= o
  <2> DEFINE S == {x \in i.offsets : x <= m}
  <2>1. S \subseteq Nat /\ S # {} /\ \A x \in S : x <= m
    BY <1>1, <1>3
  <2>2. m \in Nat
    BY <1>3
  <2> HIDE DEF S
  <2>3. Max(S) \in S /\ \A x \in S : x <= Max(S)
    BY <2>1, <2>2, MaxOf
  <2> QED
    BY <2>3 DEF S
<1>5. PICK next \in i.offsets \cup {c} :
        d <= next - o /\ next - o <= D /\ \A x \in i.offsets : x <= o \/ next <= x
  BY <1>1 DEF IsInterval
<1>6. o \in 0..c - 1 /\ next \in 0..c /\ m < next
  BY <1>1, <1>3, <1>4, <1>5
<1>7. PICK r \in Int : r = q * c
  OBVIOUS
<1>8. PICK b \in Int, e \in Int : b = g + r + o /\ e = g + r + next
  BY <1>6
<1>9. t = g + r + m /\ b <= t /\ t < e
  BY <1>2, <1>3, <1>4, <1>6, <1>7, <1>8
<1>10. \A x \in Int : b <= x /\ x < e => Trunc(i, x) = b
  <2> TAKE x \in Int
  <2> HAVE b <= x /\ x < e
  <2>1. PICK n \in 0..c - 1 : n = x - g - r /\ o <= n /\ n < next
    BY <1>6, <1>8
  <2>2. \A y \in i.offsets : y <= n => y <= o
    BY <1>1, <1>5, <1>6, <2>1
  <2>3. x = g + q * c + n
    BY <1>7, <2>1
  <2> QED
    <3>1. n \in 0..i.cycle - 1 /\ x = i.origin + q * i.cycle + n
      BY <1>1, <2>1, <2>3
    <3>2. o <= n
      BY <2>1
    <3>3. Trunc(i, x) = i.origin + q * i.cycle + o
      BY <2>2, <3>1, <3>2, TruncAt
    <3> QED
      BY <1>1, <1>7, <1>8, <3>3
<1>11. Trunc(i, t) = b
  BY <1>9, <1>10, <1>1, <1>2
<1>12. Trunc(i, e) = e
  <2>1. CASE next = c
    <3>1. PICK k \in Int : k = q + 1 /\ k * c = r + c
      BY <1>7
    <3>2. 0 \in 0..c - 1 /\ 0 <= 0 /\ \A x \in i.offsets : x <= 0 => x <= 0
      BY <1>1
    <3>3. e = g + k * c + 0 /\ k * c \in Int
      BY <1>8, <2>1, <3>1
    <3>4. Trunc(i, e) = g + k * c + 0
      BY <1>1, <3>1, <3>2, <3>3, TruncAt
    <3> QED
      BY <3>3, <3>4
  <2>2. CASE next \in i.offsets
    <3>1. next \in 0..c - 1 /\ next <= next
      BY <1>1, <2>2
    <3>2. e = g + q * c + next
      BY <1>7, <1>8
    <3>3. \A x \in i.offsets : x <= next => x <= next
      OBVIOUS
    <3> QED
      BY <1>1, <2>2, <3>1, <3>2, <3>3, TruncAt
  <2> QED
    BY <1>5, <2>1, <2>2
<1>13. i.minDuration <= e - b /\ e - b <= i.maxDuration
  BY <1>1, <1>5, <1>6, <1>8
<1> QED
  BY <1>8, <1>9, <1>10, <1>11, <1>12, <1>13

(* So a time is truncated to the last start of a bucket up to it.           *)
LEMMA TruncIs ==
  ASSUME NEW i, IsInterval(i), NEW t \in Int
  PROVE  /\ Trunc(i, t) \in Int /\ Trunc(i, t) <= t
         /\ Trunc(i, Trunc(i, t)) = Trunc(i, t)
         /\ \A x \in Int : x <= t /\ Trunc(i, x) = x => x <= Trunc(i, t)
         /\ \A x \in Int : Trunc(i, t) <= x /\ x <= t => Trunc(i, x) = Trunc(i, t)
<1>1. PICK b \in Int, e \in Int :
           /\ b = Trunc(i, t) /\ b <= t /\ t < e
           /\ i.minDuration <= e - b /\ e - b <= i.maxDuration
           /\ \A x \in Int : b <= x /\ x < e => Trunc(i, x) = b
           /\ Trunc(i, e) = e
  BY BucketIs, Zenon
<1>2. Trunc(i, b) = b
  BY <1>1
<1>3. ASSUME NEW x \in Int, x <= t, Trunc(i, x) = x, ~(x <= b) PROVE FALSE
  BY <1>1, <1>3
<1>4. ASSUME NEW x \in Int, b <= x, x <= t PROVE Trunc(i, x) = b
  BY <1>1, <1>4
<1> QED
  BY <1>1, <1>2, <1>3, <1>4

(* Later times do not belong to earlier buckets.                            *)
LEMMA TruncRises ==
  ASSUME NEW i, IsInterval(i), NEW s \in Int, NEW t \in Int, s <= t
  PROVE  Trunc(i, s) <= Trunc(i, t)
<1>1. PICK b \in Int : b = Trunc(i, s) /\ b <= s /\ Trunc(i, b) = b
  BY TruncIs
<1>2. b <= t
  BY <1>1
<1>3. b <= Trunc(i, t)
  BY <1>1, <1>2, TruncIs
<1> QED
  BY <1>1, <1>3

(* What comes from the database are starts of buckets, and all of them that *)
(* are not far from the window.                                             *)
LEMMA GapfillIs ==
  ASSUME NEW i, IsInterval(i), NEW from \in Int, NEW until \in Int,
         NEW S, S = Gapfill(i, from, until)
  PROVE  /\ S \subseteq Int /\ IsFiniteSet(S)
         /\ \A t \in S : Trunc(i, t) = t
         /\ \A t \in Int : /\ Trunc(i, t) = t
                           /\ from - i.maxDuration - i.minDuration <= t
                           /\ t <= until + i.maxDuration
                           => t \in S
         /\ \A t \in Int, u \in S :
              Trunc(i, t) = t /\ from - i.maxDuration - i.minDuration <= t /\ t < u => t \in S
<1>1. PICK d \in Nat \ {0}, D \in Nat \ {0} : d = i.minDuration /\ D = i.maxDuration
  BY DEF IsInterval
<1>2. PICK u \in Int, v \in Int : u = from - (D + d) /\ v = until + (D + d) - 1
  OBVIOUS
<1>3. PICK first \in Int : first = u \div d /\ first * d <= u
  BY Quotient
<1>4. PICK last \in Int : last = v \div d /\ v < last * d + d
  BY Quotient
<1>5. S = {Trunc(i, k * d) : k \in first..last}
  BY <1>1, <1>2, <1>3, <1>4 DEF Gapfill
<1>6. \A t \in S : t \in Int /\ Trunc(i, t) = t
  <2> TAKE t \in S
  <2>1. PICK k \in first..last : t = Trunc(i, k * d)
    BY <1>5
  <2>2. PICK x \in Int : x = k * d
    OBVIOUS
  <2> QED
    BY <2>1, <2>2, TruncIs
<1>7. IsFiniteSet(S)
  <2> DEFINE f == [k \in first..last |-> Trunc(i, k * d)]
  <2>1. IsFiniteSet(first..last)
    BY FS_Interval
  <2>2. S = {f[k] : k \in first..last}
    BY <1>5
  <2> HIDE DEF f
  <2> QED
    BY <2>1, <2>2, ImageIsFinite
<1>8. ASSUME NEW t \in Int, Trunc(i, t) = t, from - D - d <= t,
             t <= until + D \/ \E h \in S : t < h
      PROVE  t \in S
  <2>1. PICK e \in Int : d <= e - t /\ \A x \in Int : t <= x /\ x < e => Trunc(i, x) = t
    <3>1. PICK b \in Int, e \in Int :
            /\ b = Trunc(i, t) /\ b <= t /\ t < e
            /\ i.minDuration <= e - b /\ e - b <= i.maxDuration
            /\ \A x \in Int : b <= x /\ x < e => Trunc(i, x) = b
            /\ Trunc(i, e) = e
      BY BucketIs, Zenon
    <3> QED
      BY <1>1, <1>8, <3>1
  <2>2. PICK w \in Int : w = t + d - 1
    OBVIOUS
  <2>3. PICK k \in Int : k = w \div d /\ k * d <= w /\ w < k * d + d
    BY Quotient
  <2>4. PICK x \in Int, y \in Int, z \in Int : x = k * d /\ y = first * d /\ z = last * d
    OBVIOUS
  <2>5. t <= x /\ x < e /\ y <= u /\ v < z + d /\ x <= w
    BY <1>3, <1>4, <2>1, <2>2, <2>3, <2>4
  <2>6. y <= x
    BY <1>2, <1>8, <2>2, <2>5
  <2>7. x <= z \/ x <= v
    <3>1. CASE t <= until + D
      BY <1>2, <2>2, <2>5, <3>1
    <3>2. CASE \E h \in S : t < h
      <4>1. PICK h \in S : t < h
        BY <3>2
      <4>2. PICK m \in first..last : h = Trunc(i, m * d)
        BY <1>5
      <4>3. PICK o \in Int : o = m * d
        OBVIOUS
      <4>4. h \in Int /\ Trunc(i, h) = h /\ h <= o
        BY <1>6, <4>2, <4>3, TruncIs
      <4>5. e <= h
        BY <2>1, <4>1, <4>4
      <4>6. o <= z
        <5>1. m < last => o + d <= z
          BY <2>4, <4>3, Multiples
        <5>2. m = last \/ m < last
          OBVIOUS
        <5> QED
          BY <2>4, <4>3, <5>1, <5>2
      <4> QED
        BY <2>5, <4>4, <4>5, <4>6
    <3> QED
      BY <1>8, <3>1, <3>2
  <2>8. first <= k /\ k <= last
    <3>1. k < first => x + d <= y
      BY <2>4, Multiples
    <3>2. last < k => z + d <= x
      BY <2>4, Multiples
    <3> QED
      BY <2>5, <2>6, <2>7, <3>1, <3>2
  <2>9. t = Trunc(i, k * d) /\ k \in first..last
    BY <2>1, <2>4, <2>5, <2>8
  <2> QED
    BY <1>5, <2>9
<1> QED
  BY <1>1, <1>6, <1>7, <1>8

(* The numbers of a finite set, the least first.                            *)
LEMMA AscendingIs ==
  ASSUME NEW S, S \subseteq Int, IsFiniteSet(S), NEW s, s = Ascending(S)
  PROVE  /\ s \in Seq(Int) /\ Len(s) \in Nat
         /\ \A k \in 1..Len(s) : s[k] \in S
         /\ IsOrder(s, S, Len(s))
<1>1. PICK n : n = Cardinality(S)
  OBVIOUS
<1>2. n \in Nat /\ IsOrder(s, S, n) /\ \A k \in 1..n : s[k] \in S
  <2>1. ASSUME NEW k \in 1..n, NEW x \in S, HasRank(S, x, k - 1)
        PROVE  s[k] \in S /\ HasRank(S, s[k], k - 1)
    <3> DEFINE P(z) == Cardinality({y \in S : y < z}) = k - 1
    <3>1. s[k] = CHOOSE z \in S : P(z)
      BY <1>1 DEF Ascending
    <3>2. P(x)
      BY <2>1 DEF HasRank
    <3>3. s[k] \in S /\ P(s[k])
      <4> HIDE DEF P
      <4> QED
        BY <3>1, <3>2
    <3> QED
      BY <3>3 DEF HasRank
  <2> QED
    BY <1>1, <2>1, InOrder, Zenon
<1>3. \E f : s = [k \in 1..n |-> f[k]]
  <2> DEFINE g(k) == CHOOSE x \in S : Cardinality({y \in S : y < x}) = k - 1
  <2>1. s = [k \in 1..n |-> g(k)]
    BY <1>1 DEF Ascending
  <2> HIDE DEF g
  <2>2. s = [k \in 1..n |-> s[k]]
    BY <2>1
  <2> QED
    BY <2>2
<1>4. s \in [1..n -> Int]
  <2>1. \A k \in 1..n : s[k] \in Int
    BY <1>2
  <2>2. PICK f : s = [k \in 1..n |-> f[k]]
    BY <1>3
  <2>3. \A k \in 1..n : f[k] \in Int
    BY <2>1, <2>2
  <2> QED
    BY <2>2, <2>3
<1>5. s \in Seq(Int) /\ Len(s) = n
  BY ONLY <1>2, <1>4
<1> QED
  BY <1>2, <1>5

(* Starts of buckets, one after the other.                                  *)
Consecutive(i, s) ==
  /\ s \in Seq(Int)
  /\ \A k \in 1..Len(s) : Trunc(i, s[k]) = s[k]
  /\ \A k \in 2..Len(s) : Trunc(i, s[k] - 1) = s[k - 1]

(* They rise.                                                               *)
LEMMA ConsecutiveRises ==
  ASSUME NEW i, IsInterval(i), NEW s, Consecutive(i, s), NEW k \in 2..Len(s)
  PROVE  s[k - 1] < s[k]
<1>1. s[k] \in Int /\ Trunc(i, s[k] - 1) = s[k - 1]
  BY DEF Consecutive
<1>2. PICK x \in Int : x = s[k] - 1
  BY <1>1
<1>3. Trunc(i, x) \in Int /\ Trunc(i, x) <= x
  BY TruncIs
<1> QED
  BY <1>1, <1>2, <1>3

(* All starts in a range, in their order, are consecutive.                  *)
AreStarts(i, S, first, last) ==
  /\ IsFiniteSet(S) /\ S \subseteq Int /\ first \in S /\ last \in S
  /\ \A t \in Int : t \in S <=> first <= t /\ t <= last /\ Trunc(i, t) = t

(* And the range is theirs from end to end.                                 *)
LEMMA StartsAreConsecutive ==
  ASSUME NEW i, IsInterval(i), NEW first \in Int, NEW last \in Int,
         NEW S, AreStarts(i, S, first, last), NEW s, s = Ascending(S)
  PROVE  /\ Consecutive(i, s) /\ Len(s) \in Nat /\ 1 <= Len(s)
         /\ s[1] = first /\ s[Len(s)] = last
<1>1. /\ IsFiniteSet(S) /\ S \subseteq Int /\ first \in S /\ last \in S
      /\ \A x \in S : x \in Int
      /\ \A t \in Int : t \in S <=> first <= t /\ t <= last /\ Trunc(i, t) = t
  BY DEF AreStarts
<1>2. PICK n : n = Len(s)
  OBVIOUS
<1>3. s \in Seq(Int) /\ n \in Nat /\ (\A k \in 1..n : s[k] \in S) /\ IsOrder(s, S, n)
  BY <1>1, <1>2, AscendingIs, Zenon
<1>4. /\ \A x \in S : \E k \in 1..n : s[k] = x
      /\ \A x \in S : s[1] <= x /\ x <= s[n]
      /\ \A k \in 2..n : s[k - 1] < s[k] /\ \A x \in S : x < s[k] => x <= s[k - 1]
  BY <1>3, Zenon DEF IsOrder
<1>5. 1 <= n /\ 1 \in 1..n /\ n \in 1..n
  <2>1. PICK k \in 1..n : s[k] = first
    BY <1>1, <1>4
  <2> QED
    BY <1>3, <2>1
<1>6. s[1] = first /\ s[n] = last
  <2>1. PICK a \in S, b \in S : a = s[1] /\ b = s[n]
    BY <1>3, <1>5
  <2>2. a <= first /\ last <= b
    BY <1>1, <1>4, <2>1
  <2>3. first <= a /\ b <= last /\ a \in Int /\ b \in Int
    BY <1>1
  <2> QED
    BY <2>1, <2>2, <2>3
<1>7. ASSUME NEW k \in 2..n PROVE Trunc(i, s[k] - 1) = s[k - 1]
  <2>1. k - 1 \in 1..n /\ k \in 1..n
    BY <1>3
  <2>2. PICK y \in S, z \in S : y = s[k - 1] /\ z = s[k]
    BY <1>3, <2>1
  <2>3. y < z /\ \A x \in S : x < z => x <= y
    BY <1>4, <2>2
  <2>4. y \in Int /\ z \in Int /\ Trunc(i, y) = y /\ z <= last /\ first <= y
    BY <1>1
  <2>5. PICK w \in Int : w = z - 1 /\ y <= w /\ w < z
    BY <2>3, <2>4
  <2>6. PICK t \in Int : t = Trunc(i, w) /\ t <= w /\ Trunc(i, t) = t /\ y <= t
    <3>1. /\ Trunc(i, w) \in Int /\ Trunc(i, w) <= w
          /\ Trunc(i, Trunc(i, w)) = Trunc(i, w)
          /\ \A x \in Int : x <= w /\ Trunc(i, x) = x => x <= Trunc(i, w)
      BY TruncIs, Zenon
    <3> QED
      BY <2>4, <2>5, <3>1
  <2>7. t \in S /\ t < z
    BY <1>1, <2>4, <2>5, <2>6
  <2>8. t = y
    BY <2>3, <2>4, <2>6, <2>7
  <2> QED
    BY <2>2, <2>5, <2>6, <2>8
<1>8. \A k \in 1..n : Trunc(i, s[k]) = s[k]
  BY <1>1, <1>3
<1> QED
  BY <1>2, <1>3, <1>5, <1>6, <1>7, <1>8, Zenon DEF Consecutive

(* The timestamps of a window: from the start of the bucket it begins in to *)
(* the first start that is not below its end.                               *)
LEMMA TimestampsAre ==
  ASSUME NEW i, IsInterval(i), NEW from \in Int, NEW until \in Int, from <= until,
         NEW s, s = Timestamps(i, from, until)
  PROVE  /\ Consecutive(i, s) /\ Len(s) \in Nat /\ 1 <= Len(s)
         /\ s[1] = Trunc(i, from) /\ s[1] <= from /\ until <= s[Len(s)]
<1>1. PICK d \in Nat \ {0}, D \in Nat \ {0} : d = i.minDuration /\ D = i.maxDuration
  BY DEF IsInterval
<1>2. PICK S : S = Gapfill(i, from, until)
  OBVIOUS
<1>3. /\ S \subseteq Int /\ IsFiniteSet(S)
      /\ \A t \in S : Trunc(i, t) = t
      /\ \A t \in Int : /\ Trunc(i, t) = t
                        /\ from - i.maxDuration - i.minDuration <= t
                        /\ t <= until + i.maxDuration
                        => t \in S
  BY <1>2, GapfillIs, Zenon
<1>4. \A t \in Int : Trunc(i, t) = t /\ from - D <= t /\ t <= until + D => t \in S
  BY <1>1, <1>3
<1>5. PICK a \in Int : /\ a = Trunc(i, from) /\ a <= from /\ from - D <= a
                       /\ Trunc(i, a) = a
                       /\ \A x \in Int : x <= from /\ Trunc(i, x) = x => x <= a
  <2>1. PICK b \in Int, e \in Int :
           /\ b = Trunc(i, from) /\ b <= from /\ from < e
           /\ i.minDuration <= e - b /\ e - b <= i.maxDuration
           /\ \A x \in Int : b <= x /\ x < e => Trunc(i, x) = b
           /\ Trunc(i, e) = e
    BY BucketIs, Zenon
  <2>2. /\ Trunc(i, b) = b
        /\ \A x \in Int : x <= from /\ Trunc(i, x) = x => x <= b
    BY <2>1, TruncIs, Zenon
  <2> QED
    BY <1>1, <2>1, <2>2
<1>6. PICK z \in Int : /\ until <= z /\ z <= until + D /\ Trunc(i, z) = z
                       /\ \A x \in Int : until <= x /\ Trunc(i, x) = x => z <= x
  <2>1. PICK b \in Int, e \in Int :
           /\ b = Trunc(i, until) /\ b <= until /\ until < e
           /\ i.minDuration <= e - b /\ e - b <= i.maxDuration
           /\ \A x \in Int : b <= x /\ x < e => Trunc(i, x) = b
           /\ Trunc(i, e) = e
    BY BucketIs, Zenon
  <2>2. CASE b = until
    <3>1. Trunc(i, b) = b
      BY <2>1
    <3>2. WITNESS b \in Int
    <3> QED
      BY <1>1, <2>2, <3>1
  <2>3. CASE b # until
    <3>1. ASSUME NEW x \in Int, until <= x, Trunc(i, x) = x PROVE e <= x
      BY <2>1, <2>3, <3>1
    <3>2. WITNESS e \in Int
    <3> QED
      BY <1>1, <2>1, <3>1
  <2> QED
    BY <2>2, <2>3
<1>7. a \in S /\ z \in S
  BY <1>1, <1>4, <1>5, <1>6
<1>8. Max({t \in S : t <= from}) = a
  <2>1. {t \in S : t <= from} \subseteq Int /\ a \in {t \in S : t <= from}
        /\ \A x \in {t \in S : t <= from} : x <= a
    BY <1>3, <1>5, <1>7
  <2> QED
    BY <2>1, MaxIs, Zenon
<1>9. Min({t \in S : until <= t}) = z
  <2>1. {t \in S : until <= t} \subseteq Int /\ z \in {t \in S : until <= t}
        /\ \A x \in {t \in S : until <= t} : z <= x
    BY <1>3, <1>6, <1>7
  <2> QED
    BY <2>1, MinIs, Zenon
<1>10. PICK R : R = {t \in S : a <= t /\ t <= z}
  OBVIOUS
<1>11. s = Ascending(R)
  BY <1>2, <1>8, <1>9, <1>10, Zenon DEF Timestamps
<1>12. IsFiniteSet(R) /\ R \subseteq Int
  BY <1>3, <1>10, FS_Subset
<1>13. AreStarts(i, R, a, z)
  <2>1. \A t \in Int : t \in R <=> a <= t /\ t <= z /\ Trunc(i, t) = t
    BY <1>3, <1>4, <1>5, <1>6, <1>10
  <2>2. a \in R /\ z \in R
    BY <1>5, <1>6, <1>7, <1>10
  <2> QED
    BY <1>12, <2>1, <2>2 DEF AreStarts
<1>14. /\ Consecutive(i, s) /\ Len(s) \in Nat /\ 1 <= Len(s)
       /\ s[1] = a /\ s[Len(s)] = z
  BY <1>11, <1>13, StartsAreConsecutive
<1> QED
  BY <1>5, <1>6, <1>14

(* A finite set of numbers has a least one.                                 *)
LEMMA LeastOfFinite ==
  ASSUME NEW S, S \subseteq Int, IsFiniteSet(S), S # {}
  PROVE  Min(S) \in S /\ \A x \in S : Min(S) <= x
<1>1. PICK s : s = Ascending(S)
  OBVIOUS
<1>2. /\ s \in Seq(Int) /\ Len(s) \in Nat /\ \A k \in 1..Len(s) : s[k] \in S
      /\ IsOrder(s, S, Len(s))
  BY <1>1, AscendingIs, Zenon
<1>3. PICK n \in Nat : n = Len(s)
  BY <1>2
<1>4. (\A x \in S : \E k \in 1..n : s[k] = x) /\ \A x \in S : s[1] <= x
  BY <1>2, <1>3, Zenon DEF IsOrder
<1>5. 1 \in 1..n
  <2>1. PICK k \in 1..n : TRUE
    BY <1>4
  <2> QED
    BY <2>1
<1>6. PICK m \in S : m = s[1]
  BY <1>2, <1>3, <1>5
<1>7. Min(S) = m
  BY <1>4, <1>6, MinIs, Zenon
<1> QED
  BY <1>4, <1>6, <1>7

(* A window that ends before it begins has timestamps only if one bucket has *)
(* both ends, and then they are those of this bucket.                       *)
LEMMA ReversedTimestampsAre ==
  ASSUME NEW i, IsInterval(i), NEW from \in Int, NEW until \in Int, until < from,
         {t \in Gapfill(i, from, until) : from < t} # {},
         NEW s, s = Timestamps(i, from, until), ~(Len(s) < 2)
  PROVE  /\ Consecutive(i, s) /\ Len(s) \in Nat
         /\ s[1] <= from /\ until <= s[Len(s)]
<1>1. PICK d \in Nat \ {0}, D \in Nat \ {0} : d = i.minDuration /\ D = i.maxDuration
  BY DEF IsInterval
<1>2. PICK S : S = Gapfill(i, from, until)
  OBVIOUS
<1>3. /\ S \subseteq Int /\ IsFiniteSet(S)
      /\ \A t \in S : Trunc(i, t) = t
      /\ \A t \in Int, u \in S :
           Trunc(i, t) = t /\ from - i.maxDuration - i.minDuration <= t /\ t < u => t \in S
  BY <1>2, GapfillIs, Zenon
<1>4. PICK after \in S : from < after
  BY <1>2
<1>5. \A t \in Int : Trunc(i, t) = t /\ from - D <= t /\ t <= after => t \in S
  <2> TAKE t \in Int
  <2>1. from - D <= t => from - i.maxDuration - i.minDuration <= t
    BY <1>1
  <2>2. after \in Int /\ (t <= after => t < after \/ t = after)
    BY <1>3, <1>4
  <2> QED
    BY <1>3, <1>4, <2>1, <2>2, Zenon
<1>6. PICK a \in Int, e \in Int :
        /\ a = Trunc(i, from) /\ a <= from /\ from < e
        /\ i.minDuration <= e - a /\ e - a <= i.maxDuration
        /\ \A x \in Int : a <= x /\ x < e => Trunc(i, x) = a
        /\ Trunc(i, e) = e
  BY BucketIs, Zenon
<1>7. Trunc(i, a) = a /\ from - D <= a
  BY <1>1, <1>6
<1>8. \A x \in Int : Trunc(i, x) = x => x <= a \/ e <= x
  BY <1>6
<1>9. e <= after /\ a <= after
  BY <1>3, <1>4, <1>6, <1>8
<1>10. a \in S /\ e \in S
  BY <1>5, <1>6, <1>7, <1>9
<1>11. Max({t \in S : t <= from}) = a
  <2>1. {t \in S : t <= from} \subseteq Int /\ a \in {t \in S : t <= from}
    BY <1>3, <1>6, <1>10
  <2>2. ASSUME NEW x \in S, x <= from PROVE x <= a
    BY <1>3, <1>6, <1>8, <2>2
  <2>3. \A x \in {t \in S : t <= from} : x <= a
    BY <2>2
  <2> QED
    BY <2>1, <2>3, MaxIs, Zenon
<1>12. PICK z : z = Min({t \in S : until <= t})
  OBVIOUS
<1>13. z \in S /\ until <= z /\ \A x \in S : until <= x => z <= x
  <2> PICK T : T = {t \in S : until <= t}
    OBVIOUS
  <2>1. T \subseteq S /\ T \subseteq Int /\ e \in T
    <3>1. until <= e
      BY <1>6
    <3>2. T \subseteq S /\ e \in T
      BY <1>10, <3>1
    <3> QED
      BY <1>3, <3>2, Zenon
  <2>2. IsFiniteSet(T)
    BY <1>3, <2>1, FS_Subset
  <2>3. Min(T) \in T /\ \A x \in T : Min(T) <= x
    BY <2>1, <2>2, LeastOfFinite
  <2>4. z \in T /\ \A x \in T : z <= x
    BY <1>12, <2>3, Zenon
  <2>5. \A x \in S : until <= x => x \in T
    OBVIOUS
  <2> QED
    BY <2>4, <2>5
<1>14. PICK R : R = {t \in S : a <= t /\ t <= z}
  OBVIOUS
<1>15. s = Ascending(R)
  BY <1>2, <1>11, <1>12, <1>14, Zenon DEF Timestamps
<1>16. IsFiniteSet(R) /\ R \subseteq Int
  BY <1>3, <1>14, FS_Subset
<1>17. from < z
  <2> SUFFICES ASSUME z <= from PROVE FALSE
    BY <1>3, <1>13
  <2>1. \A x \in R : x = a
    BY <1>3, <1>6, <1>8, <1>13, <1>14
  <2>2. PICK n \in Nat : /\ n = Len(s) /\ \A k \in 1..n : s[k] \in R
                         /\ IsOrder(s, R, n)
    BY <1>15, <1>16, AscendingIs, Zenon
  <2>3. 1 \in 1..n /\ 2 \in 1..n /\ 2 \in 2..n
    BY <2>2
  <2>4. s[2 - 1] < s[2]
    BY <2>2, <2>3, Zenon DEF IsOrder
  <2>5. s[1] = a /\ s[2] = a
    BY <2>1, <2>2, <2>3
  <2> QED
    BY <2>4, <2>5
<1>18. z = e
  BY <1>3, <1>6, <1>8, <1>10, <1>13, <1>17
<1>19. AreStarts(i, R, a, z)
  <2>1. \A t \in Int : t \in R <=> a <= t /\ t <= z /\ Trunc(i, t) = t
    BY <1>3, <1>5, <1>7, <1>8, <1>9, <1>14, <1>18
  <2>2. a \in R /\ z \in R
    BY <1>6, <1>10, <1>14, <1>18
  <2> QED
    BY <1>16, <2>1, <2>2 DEF AreStarts
<1>20. /\ Consecutive(i, s) /\ Len(s) \in Nat
       /\ s[1] = a /\ s[Len(s)] = z
  BY <1>15, <1>18, <1>19, StartsAreConsecutive
<1> QED
  BY <1>6, <1>13, <1>20

(* Consecutive timestamps, cut off at either end.                           *)
IsPart(r, s, a, b) == r = SubSeq(s, a, b) /\ 1 <= a /\ a <= b /\ b <= Len(s)

(* What is left of them is consecutive still.                               *)
LEMMA ConsecutivePart ==
  ASSUME NEW i, NEW s, Consecutive(i, s), NEW a \in Int, NEW b \in Int,
         NEW r, IsPart(r, s, a, b)
  PROVE  /\ Consecutive(i, r) /\ Len(r) = b - a + 1
         /\ r[1] = s[a] /\ r[Len(r)] = s[b]
<1>1. PICK n \in Nat : n = Len(s) /\ s \in Seq(Int)
  BY DEF Consecutive
<1>2. r = SubSeq(s, a, b) /\ 1 <= a /\ a <= b /\ b <= n
  BY <1>1 DEF IsPart
<1> PICK m \in Nat : m = b - a + 1
  BY <1>2
<1>3. r \in Seq(Int) /\ Len(r) = m /\ \A k \in 1..m : r[k] = s[a + k - 1]
  BY <1>1, <1>2
<1>4. \A k \in 1..m : Trunc(i, r[k]) = r[k]
  <2> TAKE k \in 1..m
  <2>1. PICK j \in 1..n : j = a + k - 1
    BY <1>1, <1>2
  <2>2. Trunc(i, s[j]) = s[j]
    BY <1>1 DEF Consecutive
  <2> QED
    BY <1>3, <2>1, <2>2
<1>5. \A k \in 2..m : Trunc(i, r[k] - 1) = r[k - 1]
  <2> TAKE k \in 2..m
  <2>1. PICK j \in 2..n : j = a + k - 1
    BY <1>1, <1>2
  <2>2. Trunc(i, s[j] - 1) = s[j - 1]
    BY <1>1 DEF Consecutive
  <2>3. k - 1 \in 1..m /\ a + (k - 1) - 1 = j - 1
    BY <2>1
  <2> QED
    BY <1>3, <2>1, <2>2, <2>3
<1>6. r[1] = s[a] /\ r[m] = s[b]
  <2>1. 1 \in 1..m /\ m \in 1..m /\ a + 1 - 1 = a /\ a + m - 1 = b
    BY <1>2
  <2> QED
    BY <1>3, <2>1
<1> QED
  BY <1>2, <1>3, <1>4, <1>5, <1>6 DEF Consecutive

(* The window of a request, or none.                                        *)
LEMMA GeneratedAre ==
  ASSUME NEW i, IsInterval(i), NEW from \in Int, NEW until \in Int,
         NEW s, s = GenerateTimestamps(i, from, until), s # << >>
  PROVE  /\ Consecutive(i, s) /\ Len(s) \in Nat /\ 2 <= Len(s)
         /\ s[1] <= from /\ until <= s[Len(s)]
<1>1. /\ {t \in Gapfill(i, from, until) : from < t} # {}
      /\ s = Timestamps(i, from, until) /\ ~(Len(s) < 2)
  BY Zenon DEF GenerateTimestamps
<1>2. CASE from <= until
  <2>1. /\ Consecutive(i, s) /\ Len(s) \in Nat /\ 1 <= Len(s)
        /\ s[1] = Trunc(i, from) /\ s[1] <= from /\ until <= s[Len(s)]
    BY <1>1, <1>2, TimestampsAre
  <2> QED
    BY <1>1, <2>1
<1>3. CASE until < from
  <2>1. /\ Consecutive(i, s) /\ Len(s) \in Nat
        /\ s[1] <= from /\ until <= s[Len(s)]
    BY <1>1, <1>3, ReversedTimestampsAre
  <2> QED
    BY <1>1, <2>1
<1> QED
  BY <1>2, <1>3

(* The loops of restrictBuckets leave out buckets after the newest block and *)
(* before the first.                                                        *)
LEMMA RestrictedIs ==
  ASSUME NEW s, s \in Seq(Int), 2 <= Len(s), NEW r, r = RestrictBuckets(s)
  PROVE  \E a, b \in 1..Len(s) :
           /\ a < b /\ r = SubSeq(s, a, b)
           /\ b < Len(s) => NowSecond < s[b]
           /\ 1 < a => s[a] < FirstSecond
<1>1. PICK n, now, zero : n = Len(s) /\ n \in Nat /\ now = NowSecond /\ zero = FirstSecond
  OBVIOUS
<1>2. PICK A : A = {k \in 2..n : \A j \in k + 1..n : now < s[j - 1]}
  OBVIOUS
<1>3. A \subseteq Nat /\ n \in A
  BY <1>1, <1>2
<1>4. PICK b \in A : b = Min(A)
  BY <1>3, MinOf
<1>5. b \in 2..n /\ \A j \in b + 1..n : now < s[j - 1]
  BY <1>2
<1>6. b < n => now < s[b]
  <2>1. PICK j \in Int : j = b + 1
    BY <1>5
  <2>2. b < n => j \in b + 1..n
    BY <1>1, <1>5, <2>1
  <2>3. j - 1 = b
    BY <1>5, <2>1
  <2> QED
    BY <1>5, <2>2, <2>3
<1>7. PICK B : B = {k \in 1..b - 1 : \A j \in 2..k : s[j] < zero}
  OBVIOUS
<1>8. B \subseteq Nat /\ 1 \in B /\ b \in Nat /\ \A x \in B : x <= b
  BY <1>5, <1>7
<1>9. PICK a \in B : a = Max(B)
  BY <1>8, MaxOf
<1>10. a \in 1..b - 1 /\ (1 < a => s[a] < zero)
  BY <1>5, <1>7
<1>11. r = SubSeq(s, a, b)
  BY <1>1, <1>2, <1>4, <1>7, <1>9 DEF RestrictBuckets
<1> QED
  BY <1>1, <1>5, <1>6, <1>10, <1>11

(* Cut off after a count.                                                   *)
LEMMA FirstCountIs ==
  ASSUME NEW i, NEW s, Consecutive(i, s), 2 <= Len(s), NEW count \in Nat \ {0},
         NEW r, r = FirstCount(s, count)
  PROVE  /\ Consecutive(i, r) /\ 2 <= Len(r) /\ Len(r) - 1 <= count
         /\ Len(s) - 1 <= count => r = s
<1>1. PICK n \in Nat : n = Len(s) /\ s \in Seq(Int)
  BY DEF Consecutive
<1>2. PICK c \in Nat : c = count + 1 /\ 2 <= c
  OBVIOUS
<1>3. PICK m \in {n, c} : m <= n /\ m <= c
  OBVIOUS
<1>4. Min({n, count + 1}) = m
  <2>2. {n, c} \subseteq Int /\ m \in {n, c} /\ \A x \in {n, c} : m <= x
    BY <1>3
  <2>3. Min({n, c}) = m
    BY <2>2, MinIs, Zenon
  <2> QED
    BY <1>2, <2>3
<1>5. r = SubSeq(s, 1, m)
  BY <1>1, <1>4 DEF FirstCount
<1>6. 2 <= m /\ m <= n /\ m - 1 <= count /\ m \in Int
  BY <1>1, <1>2, <1>3
<1>7. Consecutive(i, r) /\ Len(r) = m
  <2>1. PICK a \in Int : a = 1
    OBVIOUS
  <2>2. IsPart(r, s, a, m)
    BY <1>1, <1>5, <1>6, <2>1 DEF IsPart
  <2>3. Consecutive(i, r) /\ Len(r) = m - a + 1
    BY <1>6, <2>2, ConsecutivePart
  <2> QED
    BY <1>6, <2>1, <2>3
<1>8. n - 1 <= count => r = s
  <2>1. SubSeq(s, 1, n) = s
    BY <1>1
  <2>2. n - 1 <= count => m = n
    BY <1>2, <1>3
  <2> QED
    BY <1>1, <1>5, <2>1, <2>2
<1> QED
  BY <1>1, <1>6, <1>7, <1>8

(* Cut off before a count.                                                  *)
LEMMA LastCountIs ==
  ASSUME NEW i, NEW s, Consecutive(i, s), 2 <= Len(s), NEW count \in Nat \ {0},
         NEW r, r = LastCount(s, count)
  PROVE  Consecutive(i, r) /\ 2 <= Len(r) /\ Len(r) - 1 <= count
<1>1. PICK n \in Nat : n = Len(s) /\ s \in Seq(Int)
  BY DEF Consecutive
<1>2. PICK c \in Int : c = n - count /\ n - c = count /\ 1 <= count
  OBVIOUS
<1>3. PICK m \in {1, c} : 1 <= m /\ c <= m
  OBVIOUS
<1>4. r = SubSeq(s, m, n)
  <2>1. {1, c} \subseteq Int /\ m \in {1, c} /\ \A x \in {1, c} : x <= m
    BY <1>3
  <2>2. Max({1, c}) = m
    BY <2>1, MaxIs, Zenon
  <2> QED
    BY <1>1, <1>2, <2>2 DEF LastCount
<1>5. 1 <= m /\ m <= n - 1 /\ n - m <= count /\ m \in Int
  BY <1>1, <1>2, <1>3
<1>6. Consecutive(i, r) /\ Len(r) = n - m + 1
  <2>1. IsPart(r, s, m, n)
    BY <1>1, <1>4, <1>5 DEF IsPart
  <2>2. n \in Int /\ m \in Int
    BY <1>5
  <2>3. Consecutive(i, r) /\ Len(r) = n - m + 1
    BY <2>1, <2>2, ConsecutivePart
  <2> QED
    BY <2>3
<1> QED
  BY <1>1, <1>5, <1>6

(* No timestamps stay none.                                                 *)
LEMMA NoneStayNone ==
  ASSUME NEW count \in Nat
  PROVE  Restricted(<< >>) = << >> /\ FirstCount(<< >>, count) = << >>
         /\ LastCount(<< >>, count) = << >>
<1>1. Restricted(<< >>) = << >>
  BY DEF Restricted
<1>2. FirstCount(<< >>, count) = << >>
  <2>1. PICK c \in Nat : c = count + 1
    OBVIOUS
  <2>2. {0, c} \subseteq Int /\ 0 \in {0, c} /\ \A x \in {0, c} : 0 <= x
    OBVIOUS
  <2>3. Min({0, c}) = 0
    <3>1. PICK S : S = {0, c}
      OBVIOUS
    <3>2. S \subseteq Int /\ 0 \in S /\ \A x \in S : 0 <= x
      BY <2>2, <3>1
    <3>3. Min(S) = 0
      BY <3>2, MinIs, Zenon
    <3> QED
      BY <3>1, <3>3
  <2>4. SubSeq(<< >>, 1, 0) = << >>
    OBVIOUS
  <2> QED
    BY <2>1, <2>3, <2>4 DEF FirstCount
<1>3. LastCount(<< >>, count) = << >>
  <2>1. PICK c \in Int : c = 0 - count
    OBVIOUS
  <2>2. {1, c} \subseteq Int /\ 1 \in {1, c} /\ \A x \in {1, c} : x <= 1
    BY <2>1
  <2>3. Max({1, c}) = 1
    BY <2>2, MaxIs, Zenon
  <2>4. SubSeq(<< >>, 1, 0) = << >>
    OBVIOUS
  <2> QED
    BY <2>1, <2>3, <2>4 DEF LastCount
<1> QED
  BY <1>1, <1>2, <1>3

(* What is left is consecutive, and what was before the first block or is   *)
(* after the newest one is all that is missing.                             *)
LEMMA RestrictedAre ==
  ASSUME NEW i, IsInterval(i), NEW s, Consecutive(i, s), 2 <= Len(s),
         NEW r, r = Restricted(s)
  PROVE  /\ Consecutive(i, r) /\ 2 <= Len(r) /\ Len(r) <= Len(s)
         /\ r[1] = s[1] \/ r[1] < FirstSecond
         /\ r[Len(r)] = s[Len(s)] \/ NowSecond < r[Len(r)]
<1>1. s \in Seq(Int) /\ Len(s) \in Nat /\ s # << >>
  BY DEF Consecutive
<1>2. r = RestrictBuckets(s)
  BY <1>1 DEF Restricted
<1>3. PICK a, b \in 1..Len(s) :
           /\ a < b /\ r = SubSeq(s, a, b)
           /\ b < Len(s) => NowSecond < s[b]
           /\ 1 < a => s[a] < FirstSecond
  BY <1>1, <1>2, RestrictedIs, Zenon
<1>4. a \in Int /\ b \in Int /\ 1 <= a /\ a <= b /\ b <= Len(s) /\ 1 <= b - a
  BY <1>1, <1>3
<1>5. /\ Consecutive(i, r) /\ Len(r) = b - a + 1
      /\ r[1] = s[a] /\ r[Len(r)] = s[b]
  <2>1. IsPart(r, s, a, b)
    BY <1>3, <1>4 DEF IsPart
  <2> QED
    BY <1>4, <2>1, ConsecutivePart
<1>6. 1 < a \/ a = 1
  BY <1>4
<1>7. b < Len(s) \/ b = Len(s)
  BY <1>1, <1>4
<1> QED
  BY <1>1, <1>3, <1>4, <1>5, <1>6, <1>7

(* What a request makes of an optional parameter.                           *)
LEMMA ValueIs ==
  ASSUME NEW S, NEW option, IsOption(option, S), NEW default
  PROVE  /\ Given(option) => Value(option, default) \in S /\ option = {Value(option, default)}
         /\ ~Given(option) => Value(option, default) = default
<1>1. ASSUME Given(option) PROVE Value(option, default) \in option
  BY <1>1 DEF Given, Value
<1> QED
  BY <1>1 DEF Given, Value, IsOption

(* The buckets of a history are consecutive in the calendar, as many as were *)
(* asked for at most, and cover the blocks of the window.                   *)
FitsAt(q, i, from, until, now, ts) ==
  /\ Consecutive(i, ts) /\ 2 <= Len(ts)
  /\ Len(ts) - 1 <= Value(q.count, maxIntervalCount)
  /\ ~Given(q.count) /\ Len(GenerateTimestamps(i, from, until)) - 1 <= maxIntervalCount =>
       \A h \in DOMAIN Times :
         from <= Times[h] /\ Times[h] < until /\ Times[h] < now =>
           ts[1] <= Times[h] /\ Times[h] < ts[Len(ts)]

LEMMA IntervalBuckets ==
  ASSUME NEW q, IsRequest(q), NEW i, IsInterval(i), NEW now \in Int, now = NowSecond,
         NEW zero \in Int, zero = FirstSecond,
         \A h \in DOMAIN Times : Times[h] \in Int /\ zero <= Times[h],
         NEW from, from = Value(q.from, zero), NEW until, until = Value(q.to, now),
         NEW ts, ts = GenerateBucketsWithInterval(i, q.from, q.to, q.count), ts # << >>
  PROVE  FitsAt(q, i, from, until, now, ts)
<1>1. from \in Int /\ until \in Int
  BY ValueIs DEF IsRequest
<1>2. PICK max \in Nat \ {0} : max = maxIntervalCount
  BY QueriesAssumption
<1>3. PICK n : n = Value(q.count, 0) /\ (Given(q.count) => n \in Int)
  BY ValueIs DEF IsRequest
<1>4. ASSUME NEW a \in Int, NEW b \in Int
      PROVE  \/ GenerateTimestamps(i, a, b) = << >>
             \/ \E s : /\ s = GenerateTimestamps(i, a, b)
                       /\ Consecutive(i, s) /\ Len(s) \in Nat /\ 2 <= Len(s)
                       /\ s[1] <= a /\ b <= s[Len(s)]
  BY GeneratedAre
<1>5. CASE ~Given(q.count)
  <2>1. PICK s : s = GenerateTimestamps(i, from, until)
    OBVIOUS
  <2>2. ts = Restricted(FirstCount(s, max))
    BY <1>2, <1>5, <2>1 DEF GenerateBucketsWithInterval
  <2>3. s # << >>
    BY <1>2, <2>2, NoneStayNone
  <2>4. /\ Consecutive(i, s) /\ Len(s) \in Nat /\ 2 <= Len(s)
        /\ s[1] <= from /\ until <= s[Len(s)]
    BY <1>1, <2>1, <2>3, GeneratedAre
  <2>5. PICK r : r = FirstCount(s, max)
    OBVIOUS
  <2>6. Consecutive(i, r) /\ 2 <= Len(r) /\ Len(r) - 1 <= max /\ (Len(s) - 1 <= max => r = s)
    BY <2>4, <2>5, FirstCountIs
  <2>7. /\ Consecutive(i, ts) /\ 2 <= Len(ts) /\ Len(ts) <= Len(r)
        /\ ts[1] = r[1] \/ ts[1] < zero
        /\ ts[Len(ts)] = r[Len(r)] \/ now < ts[Len(ts)]
    BY <2>2, <2>5, <2>6, RestrictedAre
  <2>8. Len(ts) - 1 <= max
    <3>1. ts \in Seq(Int) /\ r \in Seq(Int)
      BY <2>6, <2>7 DEF Consecutive
    <3>2. Len(ts) \in Nat /\ Len(r) \in Nat
      BY <3>1
    <3> QED
      BY <2>6, <2>7, <3>2
  <2>9. Value(q.count, maxIntervalCount) = max
    BY <1>2, <1>5 DEF Value
  <2>10. ASSUME Len(s) - 1 <= max, NEW h \in DOMAIN Times,
                from <= Times[h], Times[h] < until, Times[h] < now
         PROVE  ts[1] <= Times[h] /\ Times[h] < ts[Len(ts)]
    <3>1. PICK t \in Int : t = Times[h] /\ zero <= t /\ from <= t /\ t < until /\ t < now
      BY <2>10
    <3>2. PICK x \in Int, y \in Int, u \in Int, v \in Int :
            x = ts[1] /\ y = ts[Len(ts)] /\ u = s[1] /\ v = s[Len(s)]
      <4>1. ts \in Seq(Int) /\ s \in Seq(Int)
        BY <2>4, <2>7 DEF Consecutive
      <4>2. 1 \in 1..Len(ts) /\ Len(ts) \in 1..Len(ts) /\ 1 \in 1..Len(s) /\ Len(s) \in 1..Len(s)
        BY <2>4, <2>7, <4>1
      <4>3. (\A j \in 1..Len(ts) : ts[j] \in Int) /\ \A j \in 1..Len(s) : s[j] \in Int
        BY <4>1
      <4> QED
        BY <4>2, <4>3
    <3>3. (x = u \/ x < zero) /\ (y = v \/ now < y) /\ u <= from /\ until <= v
      BY <2>4, <2>6, <2>7, <2>10, <3>2
    <3>4. x <= t /\ t < y
      BY <1>1, <3>1, <3>3
    <3> QED
      BY <3>1, <3>2, <3>4
  <2> QED
    BY <1>2, <2>1, <2>7, <2>8, <2>9, <2>10 DEF FitsAt
<1>6. CASE Given(q.count)
  <2>1. n \in 1..max /\ ~(Given(q.from) /\ Given(q.to))
    BY <1>2, <1>3, <1>6 DEF GenerateBucketsWithInterval
  <2>2. Value(q.count, maxIntervalCount) = n /\ n \in Nat \ {0}
    <3>1. Value(q.count, maxIntervalCount) = Value(q.count, 0)
      <4>1. PICK a, b : a = Value(q.count, maxIntervalCount) /\ b = Value(q.count, 0)
        OBVIOUS
      <4>2. IsOption(q.count, Int)
        BY DEF IsRequest
      <4>3. q.count = {a} /\ q.count = {b}
        BY <1>6, <4>1, <4>2, ValueIs, Zenon
      <4> QED
        BY <4>1, <4>3
    <3> QED
      BY <1>2, <1>3, <2>1, <3>1
  <2>3. PICK D \in Nat : D = n * i.maxDuration
    BY <2>2 DEF IsInterval
  <2>4. CASE ~Given(q.from)
    <3>1. PICK a \in Int : a = until - D
      BY <1>1
    <3>2. PICK s, r : s = GenerateTimestamps(i, a, until) /\ r = Restricted(s)
      OBVIOUS
    <3>3. ts = LastCount(r, n)
      BY <1>2, <1>3, <1>6, <2>1, <2>3, <2>4, <3>1, <3>2 DEF GenerateBucketsWithInterval
    <3>4. s # << >>
      BY <2>2, <3>2, <3>3, NoneStayNone
    <3>5. Consecutive(i, s) /\ 2 <= Len(s)
      BY <1>1, <3>2, <3>4, GeneratedAre
    <3>6. Consecutive(i, r) /\ 2 <= Len(r)
      BY <3>2, <3>5, RestrictedAre
    <3>7. Consecutive(i, ts) /\ 2 <= Len(ts) /\ Len(ts) - 1 <= n
      BY <2>2, <3>3, <3>6, LastCountIs
    <3> QED
      BY <1>6, <2>2, <3>7 DEF FitsAt
  <2>5. CASE Given(q.from)
    <3>1. PICK b \in Int : b = from + D
      BY <1>1
    <3>2. PICK s, r : s = GenerateTimestamps(i, from, b) /\ r = Restricted(s)
      OBVIOUS
    <3>3. ts = FirstCount(r, n)
      BY <1>2, <1>3, <1>6, <2>1, <2>3, <2>5, <3>1, <3>2 DEF GenerateBucketsWithInterval
    <3>4. s # << >>
      BY <2>2, <3>2, <3>3, NoneStayNone
    <3>5. Consecutive(i, s) /\ 2 <= Len(s)
      BY <1>1, <3>2, <3>4, GeneratedAre
    <3>6. Consecutive(i, r) /\ 2 <= Len(r)
      BY <3>2, <3>5, RestrictedAre
    <3>7. Consecutive(i, ts) /\ 2 <= Len(ts) /\ Len(ts) - 1 <= n
      BY <2>2, <3>3, <3>6, FirstCountIs
    <3> QED
      BY <1>6, <2>2, <3>7 DEF FitsAt
  <2> QED
    BY <2>4, <2>5
<1> QED
  BY <1>5, <1>6

(* Consecutive starts are in order.                                         *)
LEMMA ConsecutiveOrder ==
  ASSUME NEW i, IsInterval(i), NEW s, Consecutive(i, s), NEW n \in Nat, n = Len(s)
  PROVE  \A j, k \in 1..n : j < k => s[j] < s[k]
<1>1. s \in Seq(Int) /\ \A k \in 1..n : s[k] \in Int
  BY DEF Consecutive
<1>2. \A k \in 2..n : s[k - 1] < s[k]
  BY ConsecutiveRises
<1> DEFINE B == {k \in 1..n : \E j \in 1..n : j < k /\ ~(s[j] < s[k])}
<1>3. SUFFICES ASSUME B # {} PROVE FALSE
  OBVIOUS
<1>4. PICK k \in B : \A l \in B : k <= l
  <2>1. B \subseteq Nat
    OBVIOUS
  <2> HIDE DEF B
  <2> QED
    BY <1>3, <2>1, Least
<1>5. PICK j \in 1..n : j < k /\ ~(s[j] < s[k])
  OBVIOUS
<1>6. PICK m \in 1..n : m = k - 1 /\ m < k /\ k \in 2..n
  BY <1>5
<1>7. m \notin B
  BY <1>4, <1>6
<1>8. j < m => s[j] < s[m]
  BY <1>5, <1>6, <1>7
<1>9. s[m] < s[k]
  BY <1>2, <1>6
<1>10. j < m \/ j = m
  BY <1>5, <1>6
<1> QED
  BY <1>1, <1>5, <1>6, <1>8, <1>9, <1>10

(* A time is in one of the first buckets just if it is from the start of the *)
(* first to the end of the last of them.                                    *)
LEMMA InBuckets ==
  ASSUME NEW i, IsInterval(i), NEW s, Consecutive(i, s), NEW n \in Nat, n = Len(s),
         NEW k \in 1..n - 1, NEW t \in Int
  PROVE  (\E j \in 1..k : Trunc(i, t) = s[j]) <=> s[1] <= t /\ t < s[k + 1]
<1>1. /\ s \in Seq(Int) /\ \A j \in 1..n : s[j] \in Int /\ Trunc(i, s[j]) = s[j]
      /\ \A j \in 2..n : Trunc(i, s[j] - 1) = s[j - 1]
  BY DEF Consecutive
<1>2. \A j, l \in 1..n : j < l => s[j] < s[l]
  BY ConsecutiveOrder
<1>3. /\ Trunc(i, t) \in Int /\ Trunc(i, t) <= t
      /\ \A x \in Int : x <= t /\ Trunc(i, x) = x => x <= Trunc(i, t)
  BY TruncIs
<1>4. PICK b \in Int : b = Trunc(i, t)
  BY <1>3
<1>5. PICK e \in 2..n : e = k + 1 /\ e \in 1..n
  OBVIOUS
<1>6. ASSUME NEW j \in 1..k, b = s[j]
      PROVE  s[1] <= t /\ t < s[e]
  <2>1. j \in 1..n /\ 1 \in 1..n /\ (j = 1 \/ 1 < j) /\ j < e
    BY <1>5
  <2>2. PICK x \in Int, y \in Int : x = s[1] /\ y = s[e]
    BY <1>1, <1>5, <2>1
  <2>3. x <= b
    BY <1>2, <1>6, <2>1, <2>2
  <2>4. b < y
    BY <1>2, <1>5, <1>6, <2>1, <2>2
  <2>5. ~(y <= t)
    BY <1>1, <1>3, <1>4, <1>5, <2>2, <2>4
  <2> QED
    BY <1>3, <1>4, <2>2, <2>3, <2>5
<1>7. ASSUME s[1] <= t, t < s[e]
      PROVE  \E j \in 1..k : b = s[j]
  <2> DEFINE A == {j \in 1..k : s[j] <= t}
  <2>1. A \subseteq Nat /\ 1 \in A /\ k \in Nat /\ \A j \in A : j <= k
    BY <1>7
  <2>2. PICK j \in A : \A l \in A : l <= j
    <3> HIDE DEF A
    <3>1. Max(A) \in A /\ \A l \in A : l <= Max(A)
      BY <2>1, MaxOf
    <3> QED
      BY <3>1
  <2>3. PICK l \in 2..n : l = j + 1 /\ l \in 1..n /\ j \in 1..n
    OBVIOUS
  <2>4. t < s[l]
    <3>1. CASE l = e
      BY <1>7, <3>1
    <3>2. CASE l # e
      <4>1. l \in 1..k /\ l \notin A
        BY <1>5, <2>2, <2>3, <3>2
      <4> QED
        BY <1>1, <2>3, <4>1
    <3> QED
      BY <3>1, <3>2
  <2>5. PICK x \in Int, y \in Int : x = s[j] /\ y = s[l] - 1 /\ t <= y /\ x <= t
    BY <1>1, <2>3, <2>4
  <2>6. Trunc(i, y) = x /\ Trunc(i, x) = x
    <3>1. j = l - 1
      BY <2>3
    <3> QED
      BY <1>1, <2>3, <2>5, <3>1
  <2>7. b <= x
    BY <1>4, <2>5, <2>6, TruncRises
  <2>8. x <= b
    BY <1>3, <1>4, <2>5, <2>6
  <2>9. b = s[j] /\ j \in 1..k
    BY <2>5, <2>7, <2>8
  <2> QED
    BY <2>9
<1> QED
  BY <1>4, <1>5, <1>6, <1>7

(* Where a bucket starts is told by the calendar.                           *)
LEMMA StartIs ==
  ASSUME NEW i, IsInterval(i), NEW t \in Int
  PROVE  \E q \in Int, o \in i.offsets : Trunc(i, t) = i.origin + q * i.cycle + o
<1>1. PICK c \in Nat \ {0}, g \in Int :
        /\ c = i.cycle /\ g = i.origin /\ i.offsets \subseteq 0..c - 1 /\ 0 \in i.offsets
  BY DEF IsInterval
<1>2. PICK s \in Int : s = t - g
  OBVIOUS
<1>3. PICK q \in Int, m \in 0..c - 1 : q = s \div c /\ m = s % c
  BY QuotientAndRest
<1>4. PICK S : S = {o \in i.offsets : o <= m}
  OBVIOUS
<1>5. S \subseteq Nat /\ 0 \in S /\ m \in Nat /\ \A x \in S : x <= m
  BY <1>1, <1>4
<1>6. PICK o \in i.offsets : o = Max(S)
  BY <1>4, <1>5, MaxOf
<1>7. Trunc(i, t) = g + q * c + o
  BY <1>1, <1>2, <1>3, <1>4, <1>6 DEF Trunc
<1> QED
  BY <1>1, <1>7

(* A multiple of a length is a number of them.                              *)
LEMMA WholeDays ==
  ASSUME NEW d \in Nat \ {0}, NEW x \in Int, x % d = 0
  PROVE  \E k \in Int : x = k * d
<1>1. PICK k \in Int : k = x \div d
  OBVIOUS
<1>2. x = k * d + (x % d)
  BY <1>1, QuotientAndRest
<1>3. PICK y \in Int : y = k * d
  OBVIOUS
<1>4. x = y
  BY <1>2, <1>3
<1> QED
  BY <1>3, <1>4

(* The aggregated views put a time into its bucket of the calendar.         *)
LEMMA ViewIs ==
  ASSUME NEW i, IsInterval(i), NEW t \in Int
  PROVE  ViewTimestamp(i, t) = Trunc(i, t)
<1>1. PICK c \in Nat \ {0}, g \in Int :
        /\ c = i.cycle /\ g = i.origin /\ i.offsets \subseteq 0..c - 1 /\ 0 \in i.offsets
  BY DEF IsInterval
<1>2. CASE i.exact
  <2>1. i.offsets = {0} /\ c = i.minDuration /\ g = 0
    BY <1>1, <1>2 DEF IsInterval
  <2>2. PICK q \in Int, o \in i.offsets : Trunc(i, t) = i.origin + q * i.cycle + o
    BY StartIs
  <2>3. Trunc(i, t) = q * c
    <3>1. PICK y \in Int : y = q * c
      OBVIOUS
    <3>2. o = 0 /\ Trunc(i, t) = g + y + o
      BY <1>1, <2>1, <2>2, <3>1
    <3>3. Trunc(i, t) = y
      BY <2>1, <3>2
    <3> QED
      BY <3>1, <3>3
  <2>4. PICK b \in Int, e \in Int :
           /\ b = Trunc(i, t) /\ b <= t /\ t < e
           /\ i.minDuration <= e - b /\ e - b <= i.maxDuration
           /\ \A x \in Int : b <= x /\ x < e => Trunc(i, x) = b
           /\ Trunc(i, e) = e
    BY BucketIs, Zenon
  <2>5. t - q * c \in 0..c - 1
    <3>1. PICK y \in Int : y = q * c + c
      OBVIOUS
    <3>2. Trunc(i, y) = y
      <4>1. PICK p \in Int : p = q + 1 /\ p * c = y
        BY <3>1
      <4>2. 0 \in 0..c - 1 /\ 0 <= 0 /\ \A x \in i.offsets : x <= 0 => x <= 0
        BY <1>1
      <4>3. y = g + p * c + 0
        BY <2>1, <4>1
      <4>4. Trunc(i, y) = g + p * c + 0
        BY <1>1, <4>1, <4>2, <4>3, TruncAt
      <4> QED
        BY <4>3, <4>4
    <3>3. ~(y <= t)
      <4>1. y <= t => y <= Trunc(i, t)
        BY <3>2, TruncIs
      <4> QED
        BY <1>1, <2>3, <3>1, <4>1
    <3> QED
      BY <2>3, <2>4, <3>1, <3>3
  <2>6. t \div c = q
    <3>1. PICK m \in 0..c - 1 : m = t - q * c
      BY <2>5
    <3>2. t = q * c + m
      BY <3>1
    <3> QED
      BY <3>2, CycleIs
  <2> QED
    BY <1>2, <2>1, <2>3, <2>6 DEF ViewTimestamp
<1>3. CASE ~i.exact
  <2>1. PICK d \in Nat \ {0} : d = aggregatedIntervalPeriod
    BY QueriesAssumption
  <2>2. PICK q \in Int, o \in i.offsets : Trunc(i, t) = i.origin + q * i.cycle + o
    BY StartIs
  <2>3. g % d = 0 /\ c % d = 0 /\ o % d = 0 /\ o \in Int
    BY <1>1, <1>3, <2>1 DEF IsInterval
  <2>4. PICK k \in Int, l \in Int, m \in Int : g = k * d /\ c = l * d /\ o = m * d
    <3>1. PICK k \in Int : g = k * d
      BY <2>3, WholeDays
    <3>2. PICK l \in Int : c = l * d
      <4>1. c \in Int
        OBVIOUS
      <4> QED
        BY <2>3, <4>1, WholeDays
    <3>3. PICK m \in Int : o = m * d
      BY <2>3, WholeDays
    <3> QED
      BY <3>1, <3>2, <3>3
  <2>5. PICK n \in Int : n = k + q * l + m
    OBVIOUS
  <2>6. Trunc(i, t) = n * d
    <3>1. Trunc(i, t) = k * d + q * (l * d) + m * d
      BY <1>1, <2>2, <2>4
    <3>2. k * d + q * (l * d) + m * d = n * d
      BY ONLY <2>5, d \in Int, k \in Int, l \in Int, m \in Int, q \in Int
    <3> QED
      BY <3>1, <3>2
  <2>7. PICK f \in Int : /\ TimeBucketFloor(t) = f * d
                         /\ f * d <= t /\ t < f * d + d
    BY <2>1, Quotient DEF TimeBucketFloor, Day
  <2>8. PICK b \in Int, x \in Int : b = n * d /\ x = f * d
    OBVIOUS
  <2>9. b <= t
    BY <2>6, <2>8, TruncIs
  <2>10. b <= x
    <3>1. f < n => x + d <= b
      BY <2>8, Multiples
    <3>2. n <= f => b <= x
      BY <2>8, Multiples
    <3> QED
      BY <2>7, <2>8, <2>9, <3>1, <3>2
  <2>11. Trunc(i, x) = b
    BY <2>6, <2>7, <2>8, <2>10, TruncIs
  <2> QED
    BY <1>3, <2>6, <2>7, <2>8, <2>11 DEF ViewTimestamp
<1> QED
  BY <1>2, <1>3

-----------------------------------------------------------------------------
(* Rows of depths.                                                          *)

LEMMA TimesAre ==
  /\ Len(Times) \in Nat /\ DOMAIN Times = 1..Len(Times)
  /\ \A h \in 1..Len(Times) : Times[h] \in Nat \ {0}
  /\ \A h, k \in 1..Len(Times) : h < k => Times[h] < Times[k]
BY QueriesAssumption

(* A pool has one row of a block at most, and blocks have times.            *)
IsHistory(D) ==
  /\ \A r \in D : r.height \in 1..Len(Times)
  /\ \A r, s \in D : r.pool = s.pool /\ r.height = s.height => r = s

(* The rows of a pool are told apart by their times.                        *)
LEMMA RowTimes ==
  ASSUME NEW D, IsHistory(D)
  PROVE  /\ \A r \in D : TimeOf(r) \in Nat \ {0} /\ TimeOf(r) \in Int
         /\ \A r, s \in D : r.pool = s.pool /\ TimeOf(r) = TimeOf(s) => r = s
         /\ \A r, s \in D : r.height <= s.height => TimeOf(r) <= TimeOf(s)
<1>1. PICK n \in Nat : n = Len(Times)
  BY TimesAre
<1>2. /\ \A h \in 1..n : Times[h] \in Nat \ {0}
      /\ \A h, k \in 1..n : h < k => Times[h] < Times[k]
  BY <1>1, TimesAre
<1>3. /\ \A r \in D : r.height \in 1..n
      /\ \A r, s \in D : r.pool = s.pool /\ r.height = s.height => r = s
  BY <1>1 DEF IsHistory
<1>4. \A r \in D : TimeOf(r) = Times[r.height]
  BY DEF TimeOf
<1>5. ASSUME NEW r \in D, NEW s \in D
      PROVE  /\ r.height <= s.height => TimeOf(r) <= TimeOf(s)
             /\ TimeOf(r) = TimeOf(s) => r.height = s.height
  <2>1. PICK h \in 1..n, k \in 1..n : h = r.height /\ k = s.height
    BY <1>3
  <2>2. PICK x \in Int, y \in Int : x = Times[h] /\ y = Times[k]
    BY <1>2
  <2>3. (h < k => x < y) /\ (k < h => y < x) /\ (h = k => x = y)
    BY <1>2, <2>2
  <2>4. (h <= k => x <= y) /\ (x = y => h = k)
    BY <2>3
  <2> QED
    BY <1>4, <2>1, <2>2, <2>4
<1> QED
  BY <1>2, <1>3, <1>4, <1>5

Of(D, p) == {r \in D : r.pool = p}

LEMMA PartOfHistory ==
  ASSUME NEW D, IsHistory(D), NEW E, E \subseteq D
  PROVE  IsHistory(E)
BY DEF IsHistory

(* Of the rows of a pool, one is the newest.                                *)
LEMMA NewestIs ==
  ASSUME NEW D, IsHistory(D), NEW p, NEW rows, rows = Of(D, p), rows # {}
  PROVE  /\ NewestOf(rows) \in rows
         /\ \A r \in rows : TimeOf(r) <= TimeOf(NewestOf(rows))
         /\ \A r \in rows : (\A s \in rows : TimeOf(s) <= TimeOf(r)) => r = NewestOf(rows)
<1>1. PICK n \in Nat : n = Len(Times)
  BY TimesAre
<1>2. \A r \in rows : r \in D /\ r.pool = p
  BY DEF Of
<1>3. \E r \in rows : \A s \in rows : TimeOf(s) <= TimeOf(r)
  <2>1. PICK H : H = {r.height : r \in rows}
    OBVIOUS
  <2>2. H \subseteq Nat /\ H # {} /\ \A h \in H : h <= n
    <3>1. \A r \in rows : r.height \in 1..n
      BY <1>1, <1>2 DEF IsHistory
    <3> QED
      BY <2>1, <3>1
  <2>3. Max(H) \in H /\ \A h \in H : h <= Max(H)
    BY <2>2, MaxOf
  <2>4. PICK r \in rows : r.height = Max(H)
    BY <2>1, <2>3
  <2>5. \A s \in rows : s.height <= r.height
    BY <2>1, <2>3, <2>4
  <2> QED
    BY <1>2, <2>5, RowTimes
<1> DEFINE P(r) == \A s \in rows : TimeOf(s) <= TimeOf(r)
<1>4. NewestOf(rows) = CHOOSE r \in rows : P(r)
  BY DEF NewestOf
<1>5. \E r \in rows : P(r)
  BY <1>3
<1>6. NewestOf(rows) \in rows /\ P(NewestOf(rows))
  <2> HIDE DEF P
  <2> QED
    BY <1>4, <1>5
<1>7. ASSUME NEW r \in rows, P(r) PROVE r = NewestOf(rows)
  <2>1. PICK s \in rows : s = NewestOf(rows) /\ P(s)
    BY <1>6
  <2>2. TimeOf(s) <= TimeOf(r) /\ TimeOf(r) <= TimeOf(s)
    BY <1>7, <2>1
  <2>3. TimeOf(s) \in Int /\ TimeOf(r) \in Int
    BY <1>2, RowTimes
  <2>4. TimeOf(s) = TimeOf(r)
    BY <2>2, <2>3
  <2>5. s = r
    BY <1>2, <2>4, RowTimes
  <2> QED
    BY <2>1, <2>5
<1> QED
  BY <1>6, <1>7

(* Older rows do not change which is the newest.                            *)
LEMMA NewestOfMore ==
  ASSUME NEW D, IsHistory(D), NEW p, NEW a, a \subseteq D, NEW b, b \subseteq D, a \subseteq b,
         Of(a, p) # {},
         \A r \in Of(b, p) \ Of(a, p) : \A s \in Of(a, p) : TimeOf(r) < TimeOf(s)
  PROVE  Of(b, p) # {} /\ NewestOf(Of(b, p)) = NewestOf(Of(a, p))
<1>1. IsHistory(a) /\ IsHistory(b)
  BY PartOfHistory
<1>2. PICK x, y : x = Of(a, p) /\ y = Of(b, p)
  OBVIOUS
<1>3. x \subseteq y /\ x # {} /\ y # {} /\ y \subseteq D
  BY <1>2 DEF Of
<1>4. PICK r \in x : r = NewestOf(x) /\ \A s \in x : TimeOf(s) <= TimeOf(r)
  BY <1>1, <1>2, <1>3, NewestIs
<1>5. \A s \in y : TimeOf(s) <= TimeOf(r)
  <2> TAKE s \in y
  <2>1. TimeOf(s) \in Int /\ TimeOf(r) \in Int
    BY <1>3, RowTimes
  <2>2. s \notin x => TimeOf(s) < TimeOf(r)
    BY <1>2
  <2> QED
    BY <1>4, <2>1, <2>2
<1>6. r = NewestOf(y)
  BY <1>1, <1>2, <1>3, <1>5, NewestIs
<1> QED
  BY <1>2, <1>3, <1>4, <1>6

LastDepth(D, p) == IF Of(D, p) = {} THEN None ELSE Depth(NewestOf(Of(D, p)))

OlderThan(D, time) == {r \in D : TimeOf(r) < time}

LEMMA DepthAsOfIs ==
  ASSUME NEW p, NEW time
  PROVE  DepthAsOf(p, time) = LastDepth(OlderThan(db.depths, time), p)
<1>1. {r \in db.depths : r.pool = p /\ TimeOf(r) < time} = Of(OlderThan(db.depths, time), p)
  BY DEF Of, OlderThan
<1> QED
  BY <1>1 DEF DepthAsOf, LastDepth

(* The depth at the end of an interval is the last one in it, or that before *)
(* it if there is none.                                                     *)
LEMMA DepthAtEnd ==
  ASSUME NEW D, IsHistory(D), NEW low \in Int, NEW high \in Int, low <= high, NEW p
  PROVE  /\ Of(Interval(D, low, high), p) = {} =>
              LastDepth(OlderThan(D, high), p) = LastDepth(OlderThan(D, low), p)
         /\ Of(Interval(D, low, high), p) # {} =>
              LastDepth(OlderThan(D, high), p) = LastDepth(Interval(D, low, high), p)
<1>1. PICK a, b, c : a = Interval(D, low, high) /\ b = OlderThan(D, high)
             /\ c = OlderThan(D, low)
  OBVIOUS
<1>2. /\ \A r \in D : TimeOf(r) \in Int
      /\ a = {r \in D : low <= TimeOf(r) /\ TimeOf(r) < high}
      /\ b = {r \in D : TimeOf(r) < high} /\ c = {r \in D : TimeOf(r) < low}
  BY <1>1, RowTimes DEF Interval, OlderThan
<1>3. \A r \in D : r \in b <=> r \in a \/ r \in c
  BY <1>2
<1>4. a \subseteq D /\ b \subseteq D /\ c \subseteq D /\ a \subseteq b /\ c \subseteq b
  BY <1>2, <1>3
<1>5. CASE Of(a, p) = {}
  <2>1. Of(b, p) = Of(c, p)
    BY <1>3, <1>4, <1>5 DEF Of
  <2> QED
    BY <1>1, <1>5, <2>1 DEF LastDepth
<1>6. CASE Of(a, p) # {}
  <2>1. \A r \in Of(b, p) \ Of(a, p) : \A s \in Of(a, p) : TimeOf(r) < TimeOf(s)
    <3>1. \A r \in Of(b, p) \ Of(a, p) : r \in c
      BY <1>3, <1>4 DEF Of
    <3>2. \A s \in Of(a, p) : s \in a
      BY DEF Of
    <3>3. \A r \in c : \A s \in a : TimeOf(r) < TimeOf(s)
      BY <1>2
    <3> QED
      BY <3>1, <3>2, <3>3
  <2>2. Of(b, p) # {} /\ NewestOf(Of(b, p)) = NewestOf(Of(a, p))
    BY <1>4, <1>6, <2>1, NewestOfMore
  <2> QED
    BY <1>1, <1>6, <2>2 DEF LastDepth
<1> QED
  BY <1>5, <1>6

(* The rows before the first whole day are older than those of the days, and *)
(* these than the rows after the last one.                                  *)
LEMMA PartsInOrder ==
  ASSUME NEW t \in Nat \ {0}, NEW u \in Nat \ {0}, NEW low \in Int, NEW high \in Int,
         low <= high, ~WithinOneDay(low, high)
  PROVE  /\ InBefore(t, low) /\ InDays(u, low, high) => t < TimeBucketFloor(u) /\ t < u
         /\ InDays(t, low, high) /\ InAfter(u, high) => TimeBucketFloor(t) < u /\ t < u
         /\ InBefore(t, low) /\ InAfter(u, high) => t < u
<1>1. PICK d \in Nat \ {0} : d = Day
  BY QueriesAssumption DEF Day
<1>2. PICK q \in Int : /\ TimeBucketFloor(t) = q * d /\ q * d <= t /\ t < q * d + d
  <2>1. t \in Int
    OBVIOUS
  <2> QED
    BY <1>1, <2>1, DayIs
<1>3. PICK p \in Int : /\ TimeBucketFloor(u) = p * d /\ p * d <= u /\ u < p * d + d
  <2>1. u \in Int
    OBVIOUS
  <2> QED
    BY <1>1, <2>1, DayIs
<1>4. PICK k \in Int : /\ TimeBucketFloor(high) = k * d /\ k * d <= high /\ high < k * d + d
  BY <1>1, DayIs
<1>5. PICK j \in Int : /\ TimeBucketFloor(low) = j * d /\ j * d <= low /\ low < j * d + d
                       /\ TimeBucketCeil(low) = IF low = j * d THEN low ELSE (j + 1) * d
  BY <1>1, DayIs
<1>6. PICK i \in Int : i = j + 1
  OBVIOUS
<1>7. PICK x \in Int, y \in Int, b \in Int, c \in Int, e \in Int :
        x = q * d /\ y = p * d /\ b = k * d /\ c = j * d /\ e = i * d
  OBVIOUS
<1>8. e = c + d
  BY <1>6, <1>7
<1>9. /\ x < b => x + d <= b
      /\ c < b => c + d <= b
      /\ b < c => b + d <= c
  BY <1>7, Multiples
<1>10. /\ x <= t /\ t < x + d /\ y <= u /\ u < y + d /\ b <= high /\ high < b + d
       /\ c <= low /\ low < c + d
       /\ TimeBucketFloor(t) = x /\ TimeBucketFloor(u) = y
       /\ TimeBucketFloor(high) = b /\ TimeBucketFloor(low) = c
       /\ TimeBucketCeil(low) = IF low = c THEN low ELSE e
  BY <1>2, <1>3, <1>4, <1>5, <1>6, <1>7
<1>11. ~(low > 0 /\ low # c /\ c = b)
  BY <1>10 DEF WithinOneDay
<1>12. /\ InBefore(t, low) <=> low > 0 /\ low # c /\ low <= t /\ t < e
       /\ InAfter(u, high) <=> high # b /\ b <= u /\ u < high
       /\ InDays(t, low, high) <=> x < b /\ (low > 0 =>
            (low = c /\ c <= x) \/ (low # c /\ e <= x))
       /\ InDays(u, low, high) <=> y < b /\ (low > 0 =>
            (low = c /\ c <= y) \/ (low # c /\ e <= y))
  BY <1>8, <1>10 DEF InBefore, InAfter, InDays, WholeDay
<1> QED
  BY <1>8, <1>9, <1>10, <1>11, <1>12

(* A part of a union has the rows of its time.                              *)
InPart(t, k, low, high) ==
  \/ k = 1 /\ InBefore(t, low)
  \/ k = 2 /\ InAfter(t, high)
  \/ k = 3 /\ InDays(t, low, high)

(* The parts of a union, moment by moment.                                  *)
LEMMA PartIs ==
  ASSUME NEW rows, NEW low, NEW high, NEW parts, parts = UnionParts(rows, low, high),
           NEW k \in 1..3
  PROVE  parts[k] = {r \in rows : InPart(TimeOf(r), k, low, high)}
<1>1. /\ parts[1] = {r \in rows : InBefore(TimeOf(r), low)}
      /\ parts[2] = {r \in rows : InAfter(TimeOf(r), high)}
      /\ parts[3] = {r \in rows : InDays(TimeOf(r), low, high)}
  BY DEF UnionParts, InBefore, InAfter, InDays
<1>2. k = 1 \/ k = 2 \/ k = 3
  OBVIOUS
<1> QED
  BY <1>1, <1>2 DEF InPart

(* The timestamp of a row in its part: the view by days has the days only.  *)
StampOf(r, k) == IF k = 3 THEN TimeBucketFloor(TimeOf(r)) ELSE TimeOf(r)
Rank(k) == CASE k = 1 -> 1 [] k = 2 -> 3 [] OTHER -> 2

(* A later part has the later rows and stamps.                              *)
LEMMA StampsInOrder ==
  ASSUME NEW D, IsHistory(D), NEW low \in Int, NEW high \in Int,
         low <= high, ~WithinOneDay(low, high), NEW parts, parts = UnionParts(D, low, high),
         NEW j \in 1..3, NEW k \in 1..3, Rank(j) < Rank(k), NEW r \in parts[j],
           NEW s \in parts[k]
  PROVE  StampOf(r, j) < StampOf(s, k) /\ TimeOf(r) < TimeOf(s)
<1>1. /\ r \in D /\ InPart(TimeOf(r), j, low, high)
      /\ s \in D /\ InPart(TimeOf(s), k, low, high)
  BY PartIs
<1>2. PICK t \in Nat \ {0}, u \in Nat \ {0} : t = TimeOf(r) /\ u = TimeOf(s)
  BY <1>1, RowTimes
<1>3. /\ InBefore(t, low) /\ InDays(u, low, high) => t < TimeBucketFloor(u) /\ t < u
      /\ InDays(t, low, high) /\ InAfter(u, high) => TimeBucketFloor(t) < u /\ t < u
      /\ InBefore(t, low) /\ InAfter(u, high) => t < u
  BY PartsInOrder
<1>4. \/ j = 1 /\ k = 3
      \/ j = 3 /\ k = 2
      \/ j = 1 /\ k = 2
  BY DEF Rank
<1> QED
  BY <1>1, <1>2, <1>3, <1>4 DEF InPart, StampOf

(* A stamp is a moment.                                                     *)
LEMMA StampIs ==
  ASSUME NEW D, IsHistory(D), NEW r \in D, NEW k
  PROVE  StampOf(r, k) \in Nat
<1>1. PICK t \in Nat \ {0} : t = TimeOf(r)
  BY RowTimes
<1>2. PICK d \in Nat \ {0} : d = Day
  BY QueriesAssumption DEF Day
<1>3. TimeBucketFloor(t) \in Nat
  <2>1. PICK q \in Int : q = t \div d /\ q * d <= t /\ t < q * d + d
    BY Quotient
  <2>2. PICK z \in Int, x \in Int : z = 0 * d /\ x = q * d
    OBVIOUS
  <2>3. q < 0 => x + d <= z
    BY <2>2, Multiples
  <2>4. z = 0
    BY <2>2
  <2>5. 0 <= q
    BY <2>1, <2>2, <2>3, <2>4
  <2>6. z <= x
    BY <2>2, <2>5, Multiples
  <2> QED
    BY <1>2, <2>1, <2>2, <2>4, <2>6 DEF TimeBucketFloor
<1> QED
  BY <1>1, <1>3 DEF StampOf

StartOf(parts, p, k) == Min({StampOf(r, k) : r \in Of(parts[k], p)})

IsLast(parts, p, k) ==
  /\ Of(parts[k], p) # {}
  /\ \A j \in 1..3 : Of(parts[j], p) # {} => StartOf(parts, p, j) <= StartOf(parts, p, k)

LastPart(parts, p) == CHOOSE k \in 1..3 : IsLast(parts, p, k)

(* The same choice in the words of Queries.                                 *)
LEMMA LastByPoolForm ==
  ASSUME NEW parts
  PROVE  LastByPool(parts) =
           [p \in {q \in Pools : \E k \in 1..3 : Of(parts[k], q) # {}} |->
             Depth(NewestOf(Of(parts[LastPart(parts, p)], p)))]
BY DEF LastByPool, LastPart, IsLast, StartOf, StampOf, Of

(* The least stamp of a part is that of a row.                              *)
LEMMA StartOfIs ==
  ASSUME NEW D, IsHistory(D), NEW parts, NEW k, NEW p, parts[k] \subseteq D,
         Of(parts[k], p) # {}
  PROVE  \E r \in Of(parts[k], p) :
           StartOf(parts, p, k) = StampOf(r, k) /\ StampOf(r, k) \in Nat
<1>1. PICK S : S = {StampOf(r, k) : r \in Of(parts[k], p)}
  OBVIOUS
<1>2. \A r \in Of(parts[k], p) : StampOf(r, k) \in Nat
  <2>1. \A r \in Of(parts[k], p) : r \in D
    BY DEF Of
  <2> QED
    BY <2>1, StampIs
<1>3. S \subseteq Nat /\ S # {}
  BY <1>1, <1>2
<1>4. Min(S) \in S
  BY <1>3, MinOf
<1> QED
  BY <1>1, <1>2, <1>4 DEF StartOf

(* The part with the latest start is the last one that knows the pool.      *)
HasRows(parts, p) == \E k \in 1..3 : Of(parts[k], p) # {}

(* The part chosen is the latest that has rows of the pool.                 *)
LEMMA LastPartIs ==
  ASSUME NEW D, IsHistory(D), NEW low \in Int, NEW high \in Int,
         low <= high, ~WithinOneDay(low, high), NEW parts, parts = UnionParts(D, low, high),
         NEW p, HasRows(parts, p)
  PROVE  \E k \in 1..3 :
           /\ k = LastPart(parts, p) /\ Of(parts[k], p) # {}
           /\ \A j \in 1..3 : j # k /\ Of(parts[j], p) # {} => Rank(j) < Rank(k)
<1>1. \A k \in 1..3 : parts[k] \subseteq D
  BY PartIs
<1>2. \A j, k \in 1..3 : j # k => Rank(j) < Rank(k) \/ Rank(k) < Rank(j)
  BY DEF Rank
<1>3. \A k \in 1..3 : Rank(k) \in 1..3
  BY DEF Rank
<1>4. ASSUME NEW j \in 1..3, NEW k \in 1..3, Of(parts[j], p) # {}, Of(parts[k], p) # {},
             Rank(j) < Rank(k)
      PROVE  /\ StartOf(parts, p, j) < StartOf(parts, p, k)
             /\ StartOf(parts, p, j) \in Int /\ StartOf(parts, p, k) \in Int
  <2>1. PICK r \in Of(parts[j], p) :
           StartOf(parts, p, j) = StampOf(r, j) /\ StampOf(r, j) \in Nat
    BY <1>1, <1>4, StartOfIs
  <2>2. PICK s \in Of(parts[k], p) :
           StartOf(parts, p, k) = StampOf(s, k) /\ StampOf(s, k) \in Nat
    BY <1>1, <1>4, StartOfIs
  <2>3. r \in parts[j] /\ s \in parts[k]
    BY DEF Of
  <2>4. StampOf(r, j) < StampOf(s, k)
    BY <1>4, <2>3, StampsInOrder
  <2> QED
    BY <2>1, <2>2, <2>4
<1>5. PICK R : R = {Rank(k) : k \in {j \in 1..3 : Of(parts[j], p) # {}}}
  OBVIOUS
<1>6. R \subseteq Nat /\ R # {} /\ 3 \in Nat /\ \A x \in R : x <= 3
  BY <1>3, <1>5 DEF HasRows
<1>7. PICK k \in 1..3 : Of(parts[k], p) # {} /\ \A x \in R : x <= Rank(k)
  <2>1. Max(R) \in R /\ \A x \in R : x <= Max(R)
    BY <1>6, MaxOf
  <2> QED
    BY <1>5, <2>1
<1>8. \A j \in 1..3 : j # k /\ Of(parts[j], p) # {} => Rank(j) < Rank(k)
  <2> SUFFICES ASSUME NEW j \in 1..3, j # k, Of(parts[j], p) # {} PROVE Rank(j) < Rank(k)
    OBVIOUS
  <2>1. Rank(j) <= Rank(k) /\ Rank(j) \in Int /\ Rank(k) \in Int
    BY <1>3, <1>5, <1>7
  <2>2. Rank(j) < Rank(k) \/ Rank(k) < Rank(j)
    BY <1>2
  <2> QED
    BY <2>1, <2>2
<1>9. IsLast(parts, p, k)
  <2>1. ASSUME NEW j \in 1..3, Of(parts[j], p) # {}
        PROVE  StartOf(parts, p, j) <= StartOf(parts, p, k)
    <3>1. CASE j = k
      <4>1. PICK r \in Of(parts[k], p) :
              StartOf(parts, p, k) = StampOf(r, k) /\ StampOf(r, k) \in Nat
        BY <1>1, <1>7, StartOfIs
      <4> QED
        BY <3>1, <4>1
    <3>2. CASE j # k
      BY <1>4, <1>7, <1>8, <2>1, <3>2
    <3> QED
      BY <3>1, <3>2
  <2> QED
    BY <1>7, <2>1 DEF IsLast
<1>10. ASSUME NEW l \in 1..3, IsLast(parts, p, l) PROVE l = k
  <2>1. SUFFICES ASSUME l # k PROVE FALSE
    OBVIOUS
  <2>2. Of(parts[l], p) # {} /\ StartOf(parts, p, k) <= StartOf(parts, p, l)
    BY <1>7, <1>10 DEF IsLast
  <2>3. /\ StartOf(parts, p, l) < StartOf(parts, p, k)
        /\ StartOf(parts, p, l) \in Int /\ StartOf(parts, p, k) \in Int
    BY <1>4, <1>7, <1>8, <2>1, <2>2
  <2> QED
    BY <2>2, <2>3
<1>11. k = LastPart(parts, p)
  <2>1. LastPart(parts, p) \in 1..3 /\ IsLast(parts, p, LastPart(parts, p))
    BY <1>9, Zenon DEF LastPart
  <2> QED
    BY <1>10, <2>1
<1> QED
  BY <1>7, <1>8, <1>11

(* The last values by pool are those of the newest rows of the interval.    *)
LEMMA LastByPoolIs ==
  ASSUME NEW D, IsHistory(D), NEW low \in Int, NEW high \in Int,
         low <= high, ~WithinOneDay(low, high), NEW parts, parts = UnionParts(D, low, high),
         NEW p \in Pools
  PROVE  /\ p \in DOMAIN LastByPool(parts) <=> Of(Interval(D, low, high), p) # {}
         /\ DepthAt(LastByPool(parts), p) = LastDepth(Interval(D, low, high), p)
<1>1. PICK all : all = Interval(D, low, high)
  OBVIOUS
<1>2. \A r \in D : TimeOf(r) \in Nat \ {0}
  BY RowTimes
<1>3. parts[1] \cup parts[2] \cup parts[3] = all
  BY <1>1, <1>2, UnionIsInterval
<1>4. /\ \A k \in 1..3 : parts[k] \subseteq all
      /\ \A r \in all : \E k \in 1..3 : r \in parts[k]
  <2>1. \A r \in all : r \in parts[1] \/ r \in parts[2] \/ r \in parts[3]
    BY <1>3
  <2>2. 1 \in 1..3 /\ 2 \in 1..3 /\ 3 \in 1..3
    OBVIOUS
  <2>3. \A k \in 1..3 : k = 1 \/ k = 2 \/ k = 3
    OBVIOUS
  <2> QED
    BY <1>3, <2>1, <2>2, <2>3
<1>5. all \subseteq D
  BY <1>1 DEF Interval
<1>6. (\E k \in 1..3 : Of(parts[k], p) # {}) <=> Of(all, p) # {}
  BY <1>4 DEF Of
<1>7. PICK f : f = [q \in {q \in Pools : \E k \in 1..3 : Of(parts[k], q) # {}} |->
                     Depth(NewestOf(Of(parts[LastPart(parts, q)], q)))]
  OBVIOUS
<1>8. LastByPool(parts) = f
  BY <1>7, LastByPoolForm
<1>9. p \in DOMAIN f <=> Of(all, p) # {}
  BY <1>6, <1>7
<1>10. CASE Of(all, p) = {}
  BY <1>1, <1>8, <1>9, <1>10 DEF DepthAt, LastDepth
<1>11. CASE Of(all, p) # {}
  <2>1. PICK k \in 1..3 :
           /\ k = LastPart(parts, p) /\ Of(parts[k], p) # {}
           /\ \A j \in 1..3 : j # k /\ Of(parts[j], p) # {} => Rank(j) < Rank(k)
    <3>1. HasRows(parts, p)
      BY <1>6, <1>11 DEF HasRows
    <3> QED
      BY ONLY <1>1, <3>1, IsHistory(D), low <= high, ~WithinOneDay(low, high),
         parts = UnionParts(D, low, high), LastPartIs
  <2>2. \A r \in Of(all, p) \ Of(parts[k], p) : \A s \in Of(parts[k], p) : TimeOf(r) < TimeOf(s)
    <3> SUFFICES ASSUME NEW r \in Of(all, p) \ Of(parts[k], p), NEW s \in Of(parts[k], p)
                 PROVE  TimeOf(r) < TimeOf(s)
      OBVIOUS
    <3>1. PICK j \in 1..3 : r \in parts[j]
      BY <1>4 DEF Of
    <3>2. j # k /\ Of(parts[j], p) # {}
      BY <3>1 DEF Of
    <3>3. Rank(j) < Rank(k) /\ s \in parts[k]
      BY <2>1, <3>2 DEF Of
    <3> QED
      BY <3>1, <3>3, StampsInOrder
  <2>3. NewestOf(Of(all, p)) = NewestOf(Of(parts[k], p))
    BY <1>4, <1>5, <2>1, <2>2, NewestOfMore
  <2>4. f[p] = Depth(NewestOf(Of(parts[k], p)))
    BY <1>7, <1>9, <1>11, <2>1
  <2> QED
    BY <1>1, <1>8, <1>9, <1>11, <2>3, <2>4 DEF DepthAt, LastDepth
<1> QED
  BY <1>1, <1>8, <1>9, <1>10, <1>11

(* What is read of the time before a moment is what was known at it.        *)
LEMMA DepthsBeforeIs ==
  ASSUME NEW D, D = db.depths, IsHistory(D), NEW time \in Int, NEW p \in Pools
  PROVE  DepthAt(DepthsBefore(time), p) = LastDepth(OlderThan(D, time), p)
<1>1. \A r \in D : TimeOf(r) \in Nat \ {0}
  BY RowTimes
<1>2. PICK low \in Int : low = IF 0 <= time THEN 0 ELSE time
  OBVIOUS
<1>3. UnionParts(D, 0, time) = UnionParts(D, low, time)
  BY <1>2 DEF UnionParts, WholeDay
<1>4. low <= time /\ ~WithinOneDay(low, time) /\ ~(low > 0)
  BY <1>2 DEF WithinOneDay
<1>5. Interval(D, low, time) = OlderThan(D, time)
  BY <1>1, <1>2 DEF Interval, OlderThan
<1>6. DepthAt(LastByPool(UnionParts(D, low, time)), p) = LastDepth(Interval(D, low, time), p)
  BY <1>4, LastByPoolIs
<1> QED
  BY <1>3, <1>5, <1>6 DEF DepthsBefore

(* A single interval: the last depth in it, or that from before it.         *)
LEMMA DepthsPeriodIs ==
  ASSUME NEW D, D = db.depths, IsHistory(D), NEW low \in Int, NEW high \in Int,
         low <= high, ~WithinOneDay(low, high), NEW p \in Pools
  PROVE  DepthAt(DepthsPeriod(low, high, TRUE), p) = LastDepth(OlderThan(D, high), p)
<1>1. PICK found, before :
        found = LastByPool(UnionParts(D, low, high)) /\ before = DepthsBefore(low)
  OBVIOUS
<1>2. /\ p \in DOMAIN found <=> Of(Interval(D, low, high), p) # {}
      /\ DepthAt(found, p) = LastDepth(Interval(D, low, high), p)
  BY <1>1, LastByPoolIs
<1>3. DepthAt(before, p) = LastDepth(OlderThan(D, low), p)
  BY <1>1, DepthsBeforeIs
<1>4. DepthsPeriod(low, high, TRUE) =
        [q \in DOMAIN found \cup DOMAIN before |->
          IF q \in DOMAIN found THEN found[q] ELSE before[q]]
  BY <1>1 DEF DepthsPeriod
<1>5. DepthAt(DepthsPeriod(low, high, TRUE), p) =
        IF p \in DOMAIN found THEN DepthAt(found, p) ELSE DepthAt(before, p)
  BY <1>4 DEF DepthAt
<1>6. /\ Of(Interval(D, low, high), p) = {} =>
           LastDepth(OlderThan(D, high), p) = LastDepth(OlderThan(D, low), p)
      /\ Of(Interval(D, low, high), p) # {} =>
           LastDepth(OlderThan(D, high), p) = LastDepth(Interval(D, low, high), p)
  BY ONLY IsHistory(D), low <= high, DepthAtEnd
<1> QED
  BY <1>2, <1>3, <1>5, <1>6

(* The buckets up to one of them have the rows of an interval.              *)
RowsUpTo(D, i, ts, k, p) ==
  {r \in D : r.pool = p /\ \E j \in 1..k : ViewTimestamp(i, TimeOf(r)) = ts[j]}

LEMMA BucketRows ==
  ASSUME NEW D, IsHistory(D), NEW i, IsInterval(i), NEW ts, Consecutive(i, ts),
         NEW n \in Nat, n = Len(ts), NEW k \in 1..n - 1, NEW p
  PROVE  \E low, high \in Int : /\ low = ts[1] /\ high = ts[k + 1] /\ low <= high
                                 /\ RowsUpTo(D, i, ts, k, p) = Of(Interval(D, low, high), p)
<1>1. 1 \in 1..n /\ k + 1 \in 1..n /\ 1 < k + 1
  OBVIOUS
<1>2. PICK low \in Int, high \in Int : low = ts[1] /\ high = ts[k + 1]
  <2>1. ts \in Seq(Int)
    BY DEF Consecutive
  <2>2. \A j \in 1..n : ts[j] \in Int
    BY <2>1
  <2> QED
    BY <1>1, <2>2
<1>3. low <= high
  <2>1. \A j, l \in 1..n : j < l => ts[j] < ts[l]
    BY ConsecutiveOrder
  <2>2. low < high
    BY <1>1, <1>2, <2>1
  <2> QED
    BY <2>2
<1>4. \A r \in D : (\E j \in 1..k : ViewTimestamp(i, TimeOf(r)) = ts[j])
                     <=> low <= TimeOf(r) /\ TimeOf(r) < high
  <2> TAKE r \in D
  <2>1. PICK t \in Int : t = TimeOf(r)
    BY RowTimes
  <2>2. ViewTimestamp(i, t) = Trunc(i, t)
    BY ViewIs
  <2>3. (\E j \in 1..k : Trunc(i, t) = ts[j]) <=> ts[1] <= t /\ t < ts[k + 1]
    BY InBuckets
  <2> QED
    BY <1>2, <2>1, <2>2, <2>3
<1>5. RowsUpTo(D, i, ts, k, p) = Of(Interval(D, low, high), p)
  BY <1>4 DEF Of, Interval, RowsUpTo
<1> QED
  BY <1>2, <1>3, <1>5

(* So a bucket has the last depth in them, or that from before the first.   *)
InBucketsOf(D, i, ts, n) ==
  /\ D = db.depths /\ IsHistory(D)
  /\ i = Intervals[Value(reader.request.interval, "")] /\ IsInterval(i)
  /\ ts = reader.timestamps /\ Consecutive(i, ts) /\ n \in Nat /\ n = Len(ts)

LEMMA FilledIs ==
  ASSUME NEW D, NEW i, NEW ts, NEW n, InBucketsOf(D, i, ts, n),
         NEW k \in 1..n - 1, NEW p \in Pools,
         DepthAt(reader.before, p) = LastDepth(OlderThan(D, ts[1]), p)
  PROVE  Filled(k, p) = LastDepth(OlderThan(D, ts[k + 1]), p)
<1> USE DEF InBucketsOf
<1>1. PICK rows : rows = RowsUpTo(D, i, ts, k, p)
  OBVIOUS
<1>2. PICK low, high \in Int : /\ low = ts[1] /\ high = ts[k + 1] /\ low <= high
                               /\ rows = Of(Interval(D, low, high), p)
  <2>1. PICK low, high \in Int :
          /\ low = ts[1] /\ high = ts[k + 1] /\ low <= high
          /\ RowsUpTo(D, i, ts, k, p) = Of(Interval(D, low, high), p)
    <3>1. /\ IsHistory(D) /\ IsInterval(i) /\ Consecutive(i, ts)
          /\ n \in Nat /\ n = Len(ts) /\ k \in 1..n - 1
      OBVIOUS
    <3> HIDE DEF InBucketsOf
    <3> QED
      BY ONLY <3>1, BucketRows
  <2> QED
    BY <1>1, <2>1
<1>3. Filled(k, p) = IF rows = {} THEN DepthAt(reader.before, p) ELSE Depth(NewestOf(rows))
  BY <1>1 DEF Filled, RowsUpTo
<1>4. /\ rows = {} => LastDepth(OlderThan(D, high), p) = LastDepth(OlderThan(D, low), p)
      /\ rows # {} => LastDepth(OlderThan(D, high), p) = LastDepth(Interval(D, low, high), p)
  <2>1. /\ Of(Interval(D, low, high), p) = {} =>
             LastDepth(OlderThan(D, high), p) = LastDepth(OlderThan(D, low), p)
        /\ Of(Interval(D, low, high), p) # {} =>
             LastDepth(OlderThan(D, high), p) = LastDepth(Interval(D, low, high), p)
    <3>1. IsHistory(D)
      OBVIOUS
    <3> HIDE DEF InBucketsOf
    <3> QED
      BY ONLY <1>2, <3>1, DepthAtEnd
  <2> QED
    BY <1>2, <2>1
<1>5. rows # {} => LastDepth(Interval(D, low, high), p) = Depth(NewestOf(rows))
  BY <1>2 DEF LastDepth
<1> QED
  BY <1>2, <1>3, <1>4, <1>5

-----------------------------------------------------------------------------
(* Histories while the recorder goes on. *)

(* The clock is just after the newest block.                                *)
LEMMA NowIs ==
  ASSUME IInv, BlocksInv
  PROVE  /\ Top \in Nat /\ Top <= Len(Times)
         /\ Answering => /\ 1 <= Top /\ NowSecond = Times[Top] + 1
                         /\ FirstSecond = Times[1]
<1>1. PICK t, n, m : t = Top /\ n = Len(chain) /\ m = Len(Times)
  OBVIOUS
<1>2. t \in Nat /\ n \in Nat /\ t <= n /\ Heights = 1..t
  BY <1>1, ListIs
<1>3. n <= m /\ m \in Nat
  <2>1. chain \in Chains
    BY DEF IInv, TypeOK
  <2> QED
    BY <1>1, <2>1, QueriesAssumption, TimesAre
<1>4. ASSUME Answering
      PROVE  1 <= t /\ NowSecond = Times[t] + 1
  <2>1. t = LastRow(db.log).height /\ LastRow(db.log) \in db.log
    BY <1>1, <1>4, TopOf DEF Answering, IInv
  <2>2. t \in Heights
    BY <2>1 DEF Heights
  <2> QED
    BY <1>2, <2>1, <2>2 DEF NowSecond
<1> QED
  BY <1>1, <1>2, <1>3, <1>4 DEF FirstSecond

(* The table of depths is a history.                                        *)
LEMMA DepthRowsAre ==
  ASSUME IInv, BlocksInv, DepthHeightsInv
  PROVE  IsHistory(db.depths) /\ \A r \in db.depths : r.height \in 1..Top
<1>1. PICK t \in Nat, m \in Nat : t = Top /\ m = Len(Times) /\ t <= m
  BY NowIs, TimesAre
<1>2. db.depths \subseteq Written.depths
  BY WrittenIs DEF IInv
<1>3. \A r \in db.depths : r.height \in Nat /\ 1 <= r.height /\ r.height <= t
  BY <1>1 DEF IInv, DepthsInv, DepthHeightsInv, RowsType, IsTables, DepthRows
<1>4. \A r, s \in db.depths : r.pool = s.pool /\ r.height = s.height => r = s
  BY <1>2 DEF IInv, DepthsInv
<1>5. \A r \in db.depths : r.height \in 1..t /\ r.height \in 1..m
  BY <1>1, <1>3
<1> QED
  BY <1>1, <1>4, <1>5 DEF IsHistory

(* It gains only the rows not yet committed.                                *)
LEMMA DepthsGrow ==
  ASSUME IInv, DepthHeightsInv, [Next]_vars
  PROVE  /\ DepthHeightsInv'
         /\ db.depths \subseteq db'.depths
         /\ \A r \in db'.depths \ db.depths : r \in pending.depths
<1>1. /\ Top \in Nat /\ height \in Nat
      /\ pc = "event" => Top < height
  BY TopOf, HeightIs DEF IInv, PositionInv
<1>2. /\ \A r \in db.depths : 1 <= r.height
      /\ \A r \in pending.depths : Top < r.height /\ r.height \in Nat
  BY DEF DepthHeightsInv, IInv, RowsType, IsTables, DepthRows
<1>3. NoRows.depths = {}
  BY DEF NoRows
<1>4. ASSUME db' = Together(db, pending)
      PROVE  db'.depths = db.depths \cup pending.depths
  BY <1>4, TogetherIs DEF IInv, RowsType
<1>5. ASSUME db'.depths = db.depths, db'.log = db.log,
             pending'.depths = pending.depths \/ pending'.depths = {}
      PROVE  /\ DepthHeightsInv' /\ db.depths \subseteq db'.depths
             /\ \A r \in db'.depths \ db.depths : r \in pending.depths
  <2>1. Top' = Top
    BY <1>5 DEF Top
  <2> QED
    BY <1>2, <1>5, <2>1 DEF DepthHeightsInv
<1>6. ASSUME db' = Together(db, pending), pending' = NoRows
      PROVE  /\ DepthHeightsInv' /\ db.depths \subseteq db'.depths
             /\ \A r \in db'.depths \ db.depths : r \in pending.depths
  <2>1. \A r \in pending.depths : 1 <= r.height
    BY <1>1, <1>2
  <2> QED
    BY <1>2, <1>3, <1>4, <1>6, <2>1 DEF DepthHeightsInv
<1>7. CASE LoadGenesis
  BY <1>5, <1>7, GenesisStepIs DEF LoadGenesis
<1>8. CASE ProcessEvent
  <2>1. pending'.depths = pending.depths
    <3>1. pending = [events |-> pending.events, depths |-> pending.depths, log |-> pending.log,
                     blocks |-> pending.blocks]
      BY DEF IInv, RowsType, IsTables
    <3> QED
      BY <1>8, <3>1 DEF ProcessEvent
  <2> QED
    BY <1>5, <1>8, <2>1 DEF ProcessEvent
<1>9. CASE EndEvents
  <2>1. PICK written \in SUBSET ChangedPools :
          pending'.depths = pending.depths \cup {DepthRow(p) : p \in written}
    BY <1>9, EndStepIs
  <2>2. \A p : DepthRow(p).height = height
    BY DEF DepthRow
  <2>3. db' = db /\ pc = "event"
    BY <1>9 DEF EndEvents
  <2>4. Top' = Top
    BY <2>3 DEF Top
  <2> QED
    BY <1>1, <1>2, <2>1, <2>2, <2>3, <2>4 DEF DepthHeightsInv
<1>10. CASE Commit
  BY <1>6, <1>10 DEF Commit
<1>11. CASE Kill
  BY <1>3, <1>5, <1>6, <1>11 DEF Kill, LoseMemory
<1>12. CASE FlushRejected
  BY <1>3, <1>5, <1>12 DEF FlushRejected, LoseMemory
<1>13. CASE StartProcess \/ GenesisExists \/ StartBlock \/ NextTx \/ UNCHANGED vars
  <2>1. db' = db /\ pending' = pending
    BY <1>13 DEF StartProcess, GenesisExists, StartBlock, NextTx, vars
  <2> QED
    BY <1>5, <2>1
<1> QED
  BY <1>7, <1>8, <1>9, <1>10, <1>11, <1>12, <1>13 DEF Next

(* These are of blocks after the newest one.                                *)
LEMMA PendingAre ==
  ASSUME IInv, DepthHeightsInv
  PROVE  \A r \in pending.depths : Top < r.height /\ r.height \in 1..Len(Times)
<1>1. PICK t, n, m : t = Top /\ n = Len(chain) /\ m = Len(Times)
  OBVIOUS
<1>2. t \in Nat /\ n \in Nat /\ m \in Nat /\ n <= m /\ height \in Nat /\ height <= n
  <2>1. chain \in Chains
    BY DEF IInv, TypeOK
  <2> QED
    BY <1>1, <2>1, QueriesAssumption, TimesAre, TopOf, HeightIs DEF IInv, TypeOK
<1>3. ASSUME NEW r \in pending.depths PROVE t < r.height /\ r.height \in 1..m
  <2>1. pc # "down"
    BY <1>3 DEF IInv, PositionInv, NoRows
  <2>2. r.height <= height /\ r.height \in Nat
    BY <2>1, WrittenIs DEF IInv, DepthsInv, RowsType, IsTables, DepthRows
  <2>3. t < r.height
    BY <1>1 DEF DepthHeightsInv
  <2> QED
    BY <1>2, <2>2, <2>3
<1> QED
  BY <1>1, <1>3

(* What was known at a moment stays so while newer blocks are written.      *)
LEMMA OldDepthsStay ==
  ASSUME IInv, BlocksInv, DepthHeightsInv, [Next]_vars,
         NEW h \in 1..Top, NEW time \in Int, time <= Times[h], NEW p
  PROVE  DepthAsOf(p, time)' = DepthAsOf(p, time)
<1>1. PICK t \in Nat, m \in Nat : t = Top /\ m = Len(Times) /\ t <= m
  BY NowIs, TimesAre
<1>2. /\ \A k \in 1..m : Times[k] \in Nat
      /\ \A k, l \in 1..m : k < l => Times[k] < Times[l]
  BY <1>1, TimesAre
<1>3. ASSUME NEW r \in db'.depths \ db.depths PROVE ~(TimeOf(r) < time)
  <2>1. t < r.height /\ r.height \in 1..m
    BY <1>1, <1>3, DepthsGrow, PendingAre
  <2>2. h \in 1..m /\ h < r.height
    BY <1>1, <2>1
  <2>3. Times[h] < Times[r.height] /\ Times[h] \in Nat /\ Times[r.height] \in Nat
    BY <1>2, <2>1, <2>2
  <2> QED
    BY <2>3 DEF TimeOf
<1>4. db.depths \subseteq db'.depths
  BY DepthsGrow
<1>5. PICK a, b : a = db.depths /\ b = db'.depths
  OBVIOUS
<1>6. {r \in b : r.pool = p /\ TimeOf(r) < time} = {r \in a : r.pool = p /\ TimeOf(r) < time}
  BY <1>3, <1>4, <1>5
<1> QED
  BY <1>5, <1>6 DEF DepthAsOf

(* The interval a request names.                                            *)
IntervalOf(q) == Intervals[Value(q.interval, "")]

LEMMA IntervalOfIs ==
  ASSUME NEW q \in HistoryRequests
  PROVE  IsRequest(q) /\ (Given(q.interval) => IsInterval(IntervalOf(q)))
<1>1. IsRequest(q)
  BY QueriesAssumption
<1>2. ASSUME Given(q.interval) PROVE IsInterval(IntervalOf(q))
  <2>1. PICK option : option = q.interval
    OBVIOUS
  <2>2. IsOption(option, DOMAIN Intervals) /\ Given(option)
    BY <1>1, <1>2, <2>1 DEF IsRequest
  <2>3. Value(option, "") \in DOMAIN Intervals
    BY <2>2, ValueIs
  <2> QED
    BY <2>1, <2>3, QueriesAssumption DEF IntervalOf
<1> QED
  BY <1>1, <1>2

(* The buckets a request is answered with.                                  *)
Asked(q, ts, now) ==
  /\ ts \in Seq(Int)
  /\ IF Given(q.interval)
     THEN FitsAt(q, IntervalOf(q), Value(q.from, FirstSecond), Value(q.to, now), now, ts)
     ELSE Len(ts) = 2

LEMMA AskedBuckets ==
  ASSUME IInv, BlocksInv, Answering, NEW q \in HistoryRequests,
         NEW ts, ts = Buckets(q), ts # << >>, NEW now, now = NowSecond
  PROVE  (\E h \in 1..Top : now = Times[h] + 1) /\ Asked(q, ts, now)
<1>1. PICK t \in Nat, m \in Nat : t = Top /\ m = Len(Times) /\ t <= m
  BY NowIs, TimesAre
<1>2. t \in 1..t /\ t \in 1..m /\ 1 \in 1..m /\ now = Times[t] + 1 /\ FirstSecond = Times[1]
  <2>1. 1 <= t /\ now = Times[t] + 1 /\ FirstSecond = Times[1]
    BY <1>1, NowIs
  <2> QED
    BY <1>1, <2>1
<1>3. /\ DOMAIN Times = 1..m
      /\ \A k \in 1..m : Times[k] \in Nat
      /\ \A k, l \in 1..m : k < l => Times[k] < Times[l]
  BY <1>1, TimesAre
<1>4. PICK zero \in Int : zero = FirstSecond
  BY <1>2, <1>3
<1>5. now \in Int
  BY <1>2, <1>3
<1>6. \A h \in DOMAIN Times : Times[h] \in Int /\ zero <= Times[h]
  <2> TAKE h \in DOMAIN Times
  <2>1. h \in 1..m /\ Times[h] \in Nat
    BY <1>3
  <2>2. CASE h = 1
    BY <1>2, <1>4, <2>1, <2>2
  <2>3. CASE h # 1
    <3>1. 1 < h
      BY <2>1, <2>3
    <3>2. Times[1] < Times[h] /\ Times[1] \in Nat
      BY <1>2, <1>3, <2>1, <3>1
    <3> QED
      BY <1>2, <1>4, <2>1, <3>2
  <2> QED
    BY <2>2, <2>3
<1>7. IsRequest(q) /\ (Given(q.interval) => IsInterval(IntervalOf(q)))
  BY IntervalOfIs
<1>8. CASE Given(q.interval)
  <2>1. PICK i, from, until : /\ i = IntervalOf(q) /\ from = Value(q.from, zero)
                              /\ until = Value(q.to, now)
    OBVIOUS
  <2>2. ts = GenerateBucketsWithInterval(i, q.from, q.to, q.count)
    BY <1>8, <2>1 DEF Buckets, IntervalOf
  <2>3. IsInterval(i)
    BY <1>7, <1>8, <2>1
  <2>4. FitsAt(q, i, from, until, now, ts)
    BY <1>4, <1>5, <1>6, <1>7, <2>1, <2>2, <2>3, IntervalBuckets
  <2>5. ts \in Seq(Int)
    BY <2>4 DEF FitsAt, Consecutive
  <2> QED
    BY <1>1, <1>2, <1>4, <1>8, <2>1, <2>4, <2>5 DEF Asked
<1>9. CASE ~Given(q.interval)
  <2>1. ts = <<Value(q.from, zero), Value(q.to, now)>>
    BY <1>4, <1>9 DEF Buckets, GenerateBucketsOnlyMeta
  <2>2. Value(q.from, zero) \in Int /\ Value(q.to, now) \in Int
    BY <1>4, <1>5, <1>7, ValueIs DEF IsRequest
  <2> QED
    BY <1>1, <1>2, <1>9, <2>1, <2>2 DEF Asked
<1> QED
  BY <1>8, <1>9

(* Whether buckets fit, in the words of both modules.                       *)
LEMMA FitIs ==
  ASSUME NEW q, NEW ts \in Seq(Int), NEW now
  PROVE  /\ reader.now = now =>
              (FitsAt(q, IntervalOf(q), Value(q.from, FirstSecond), Value(q.to, now), now, ts)
                 <=> 2 <= Len(ts) /\ BucketsFit(q, ts))
         /\ reader'.now = now =>
              (FitsAt(q, IntervalOf(q), Value(q.from, FirstSecond), Value(q.to, now), now, ts)
                 <=> 2 <= Len(ts) /\ BucketsFit(q, ts)')
BY DEF FitsAt, Consecutive, BucketsFit, IntervalOf

(* What is to be known of a history after a step.                           *)
LEMMA HistoryNext ==
  ASSUME NEW q \in HistoryRequests, NEW ts, NEW now, NEW h \in 1..Top', now = Times[h] + 1,
         Asked(q, ts, now),
         reader'.request = q, reader'.timestamps = ts, reader'.now = now,
         reader'.has /\ ts[1] < now =>
           \A p \in Pools : DepthAt(reader'.before, p) = DepthAsOf(p, ts[1])'
  PROVE  HistoryInv'
<1>1. ts \in Seq(Int)
  BY DEF Asked
<1>2. Given(q.interval) => 2 <= Len(ts) /\ BucketsFit(q, ts)'
  BY <1>1, FitIs DEF Asked
<1>3. ~Given(q.interval) => Len(ts) = 2
  BY DEF Asked
<1>4. Given(q.interval) => BucketsFit(reader.request, reader.timestamps)'
  BY <1>2 DEF BucketsFit
<1>5. \A p : DepthAsOf(p, reader.timestamps[1])' = DepthAsOf(p, ts[1])'
  BY DEF DepthAsOf
<1> QED
  BY <1>1, <1>2, <1>3, <1>4, <1>5 DEF HistoryInv

(* And what is known of it before.                                          *)
LEMMA HistoryNow ==
  ASSUME HistoryInv, reader.kind = "depths",
         NEW q, q = reader.request, NEW ts, ts = reader.timestamps, NEW now, now = reader.now
  PROVE  /\ q \in HistoryRequests /\ Asked(q, ts, now) /\ ts \in Seq(Int)
         /\ \E h \in 1..Top : now = Times[h] + 1
         /\ reader.has /\ ts[1] < now =>
              \A p \in Pools : DepthAt(reader.before, p) = DepthAsOf(p, ts[1])
<1>1. /\ q \in HistoryRequests /\ ts \in Seq(Int)
      /\ \E h \in 1..Top : now = Times[h] + 1
      /\ IF Given(q.interval) THEN 2 <= Len(ts) /\ BucketsFit(q, ts) ELSE Len(ts) = 2
      /\ reader.has /\ ts[1] < now =>
           \A p \in Pools : DepthAt(reader.before, p) = DepthAsOf(p, ts[1])
  BY DEF HistoryInv
<1>2. Asked(q, ts, now)
  BY <1>1, FitIs DEF Asked
<1> QED
  BY <1>1, <1>2

(* The ends of a history are moments.                                       *)
LEMMA EndsAre ==
  ASSUME NEW q, NEW ts, NEW now, Asked(q, ts, now)
  PROVE  Len(ts) \in Nat /\ 2 <= Len(ts) /\ \A k \in 1..Len(ts) : ts[k] \in Int
<1>1. ts \in Seq(Int)
  BY DEF Asked
<1>2. 2 <= Len(ts)
  <2>1. CASE Given(q.interval)
    BY <2>1 DEF Asked, FitsAt
  <2>2. CASE ~Given(q.interval)
    <3>1. Len(ts) = 2
      BY <2>2 DEF Asked
    <3> QED
      BY <3>1
  <2> QED
    BY <2>1, <2>2
<1> QED
  BY <1>1, <1>2

(* All steps together.                                                      *)
LEMMA HistoryStep ==
  ASSUME QueriesIInv, [QueriesNext]_queryVars
  PROVE  HistoryInv'
<1>1. IInv /\ BlocksInv /\ ReaderType /\ DepthHeightsInv /\ HistoryInv /\ [Next]_vars
  BY RecorderStep DEF QueriesIInv
<1>2. PICK t \in Nat, m \in Nat : t = Top /\ m = Len(Times) /\ t <= m
  BY <1>1, NowIs, TimesAre
<1>3. PICK u \in Nat : u = Top' /\ t <= u
  BY <1>1, <1>2, TopRises
<1>4. ASSUME reader' = reader, reader.kind = "depths" PROVE HistoryInv'
  <2>1. PICK q, ts, now :
          q = reader.request /\ ts = reader.timestamps /\ now = reader.now
    OBVIOUS
  <2>2. /\ q \in HistoryRequests /\ Asked(q, ts, now) /\ ts \in Seq(Int)
        /\ \E h \in 1..Top : now = Times[h] + 1
        /\ reader.has /\ ts[1] < now =>
             \A p \in Pools : DepthAt(reader.before, p) = DepthAsOf(p, ts[1])
    BY <1>1, <1>4, <2>1, HistoryNow
  <2>3. PICK h \in 1..t : now = Times[h] + 1
    BY <1>2, <2>2
  <2>4. PICK time \in Int : time = ts[1]
    <3>1. 1 \in 1..Len(ts)
      BY <2>2, EndsAre
    <3> QED
      BY <2>2, <3>1, EndsAre
  <2>5. ASSUME reader'.has, ts[1] < now, NEW p \in Pools
        PROVE  DepthAt(reader'.before, p) = DepthAsOf(p, ts[1])'
    <3>1. time <= Times[h]
      <4>1. Times[h] \in Nat
        <5>1. h \in 1..m
          BY <1>2, <2>3
        <5> QED
          BY <1>2, <5>1, TimesAre
      <4> QED
        BY <2>3, <2>4, <2>5, <4>1
    <3>2. DepthAsOf(p, time)' = DepthAsOf(p, time)
      BY <1>1, <1>2, <2>3, <3>1, OldDepthsStay
    <3>3. DepthAsOf(p, ts[1])' = DepthAsOf(p, time)'
      BY <2>4 DEF DepthAsOf
    <3>4. DepthAsOf(p, ts[1]) = DepthAsOf(p, time)
      BY <2>4 DEF DepthAsOf
    <3> QED
      BY <1>4, <2>2, <2>5, <3>2, <3>3, <3>4
  <2>6. h \in 1..Top'
    BY <1>3, <2>3
  <2> QED
    BY <1>4, <2>1, <2>2, <2>3, <2>5, <2>6, HistoryNext
<1>5. ASSUME reader'.kind # "depths" PROVE HistoryInv'
  BY <1>5 DEF HistoryInv
<1>6. Idle.kind # "depths"
  BY DEF Idle
<1>7. CASE Record
  BY <1>4, <1>5, <1>6, <1>7 DEF Record
<1>8. CASE OpenBlocks \/ AskBlock
  BY <1>5, <1>8 DEF OpenBlocks, AskBlock
<1>9. CASE NextPage
  <2>1. PICK asked, offset, there, seen, more :
          reader = [kind |-> "blocks", asked |-> asked, offset |-> offset,
                    there |-> there, seen |-> seen, more |-> more]
    BY <1>1, <1>9 DEF NextPage, ReaderType
  <2>2. reader'.kind = "blocks"
    BY <1>9, <2>1 DEF NextPage
  <2> QED
    BY <1>5, <2>2
<1>10. CASE AskHistory
  <2>1. PICK q \in HistoryRequests :
          /\ Buckets(q) # << >>
          /\ reader' = [kind |-> "depths", request |-> q, timestamps |-> Buckets(q),
                        now |-> NowSecond, has |-> FALSE, before |-> << >>]
    BY <1>10 DEF AskHistory
  <2>2. PICK ts, now : ts = Buckets(q) /\ now = NowSecond
    OBVIOUS
  <2>3. (\E h \in 1..Top : now = Times[h] + 1) /\ Asked(q, ts, now)
    BY <1>1, <1>10, <2>1, <2>2, AskedBuckets DEF AskHistory
  <2>4. PICK h \in 1..t : now = Times[h] + 1
    BY <1>2, <2>3
  <2>5. h \in 1..Top'
    BY <1>3, <2>4
  <2> QED
    BY <2>1, <2>2, <2>3, <2>4, <2>5, HistoryNext
<1>11. CASE ReadBefore
  <2>1. PICK q, ts, now :
          q = reader.request /\ ts = reader.timestamps /\ now = reader.now
    OBVIOUS
  <2>2. reader.kind = "depths" /\ db' = db
    BY <1>11 DEF ReadBefore, vars
  <2>3. /\ q \in HistoryRequests /\ Asked(q, ts, now) /\ ts \in Seq(Int)
        /\ \E h \in 1..Top : now = Times[h] + 1
    BY <1>1, <2>1, <2>2, HistoryNow
  <2>4. PICK h \in 1..t : now = Times[h] + 1
    BY <1>2, <2>3
  <2>5. PICK time \in Int : time = ts[1]
    <3>1. 1 \in 1..Len(ts)
      BY <2>3, EndsAre
    <3> QED
      BY <2>3, <3>1, EndsAre
  <2>6. PICK before : before = DepthsBefore(ts[1])
    OBVIOUS
  <2>7. reader' = [kind |-> "depths", request |-> q, timestamps |-> ts, now |-> now,
                   has |-> TRUE, before |-> before]
    <3>1. reader = [kind |-> "depths", request |-> q, timestamps |-> ts, now |-> now,
                    has |-> reader.has, before |-> reader.before]
      BY <1>1, <2>1, <2>2 DEF ReaderType
    <3>2. reader' = [reader EXCEPT !.has = TRUE, !.before = before]
      BY <1>11, <2>1, <2>6 DEF ReadBefore
    <3>3. PICK has, old : reader = [kind |-> "depths", request |-> q, timestamps |-> ts,
                                    now |-> now, has |-> has, before |-> old]
      BY <3>1
    <3> QED
      BY <3>2, <3>3
  <2>8. ASSUME NEW p \in Pools PROVE DepthAt(before, p) = DepthAsOf(p, ts[1])'
    <3>1. PICK D : D = db.depths
      OBVIOUS
    <3>2. IsHistory(D)
      BY <1>1, <3>1, DepthRowsAre
    <3>3. DepthAt(DepthsBefore(time), p) = LastDepth(OlderThan(D, time), p)
      BY <3>1, <3>2, DepthsBeforeIs
    <3>4. DepthAsOf(p, time) = LastDepth(OlderThan(D, time), p)
      BY <3>1, DepthAsOfIs
    <3>5. DepthAsOf(p, ts[1])' = DepthAsOf(p, time)
      BY <2>2, <2>5 DEF DepthAsOf
    <3> QED
      BY <2>5, <2>6, <3>3, <3>4, <3>5
  <2>9. h \in 1..Top'
    BY <1>3, <2>4
  <2> QED
    BY <2>3, <2>4, <2>7, <2>8, <2>9, HistoryNext
<1>12. CASE Respond
  BY <1>5, <1>6, <1>12 DEF Respond
<1>13. CASE UNCHANGED queryVars
  <2>1. reader' = reader
    BY <1>13 DEF queryVars
  <2> QED
    BY <1>4, <1>5, <2>1
<1> QED
  BY <1>7, <1>8, <1>9, <1>10, <1>11, <1>12, <1>13 DEF QueriesNext

-----------------------------------------------------------------------------
(* The invariant and what follows from it. *)

LEMMA QueriesInitially ==
  QueriesInit => QueriesIInv
<1> SUFFICES ASSUME QueriesInit PROVE QueriesIInv
  OBVIOUS
<1>1. IInv
  BY Initially DEF QueriesInit
<1>2. db = NoRows /\ pc = "down" /\ reader = Idle
  BY DEF QueriesInit, Init
<1>3. Top = 0 /\ 1..Top = {}
  BY <1>2 DEF Top, NoRows
<1>4. BlocksInv
  BY <1>2, <1>3 DEF BlocksInv, NoRows
<1>5. ReaderType /\ OffsetInv /\ PagesLeaveNoGap
  BY <1>2 DEF ReaderType, OffsetInv, PagesLeaveNoGap, Idle
<1>6. DepthHeightsInv /\ HistoryInv
  <2>1. pending = NoRows
    BY DEF QueriesInit, Init
  <2> QED
    BY <1>2, <2>1 DEF DepthHeightsInv, HistoryInv, NoRows, Idle
<1> QED
  BY <1>1, <1>4, <1>5, <1>6 DEF QueriesIInv

(* The inductive invariant of the readers, on top of that of the recorder.  *)
THEOREM QueriesInvariance == QueriesSpec => []QueriesIInv
<1>1. QueriesInit => QueriesIInv
  BY QueriesInitially
<1>2. QueriesIInv /\ [QueriesNext]_queryVars => QueriesIInv'
  <2> SUFFICES ASSUME QueriesIInv, [QueriesNext]_queryVars PROVE QueriesIInv'
    OBVIOUS
  <2>1. IInv /\ BlocksInv /\ [Next]_vars
    BY RecorderStep DEF QueriesIInv
  <2>2. IInv'
    BY <2>1, TypeStep, RowsTypeStep, PositionStep, EventsStep, LogStep, DepthsStep, RewardsStep
       DEF IInv
  <2>3. BlocksInv'
    BY <2>1, BlocksStep
  <2>4. PagesInv'
    BY PagesStep
  <2>5. DepthHeightsInv'
    BY <2>1, DepthsGrow DEF QueriesIInv
  <2>6. HistoryInv'
    BY HistoryStep
  <2> QED
    BY <2>2, <2>3, <2>4, <2>5, <2>6 DEF QueriesIInv, PagesInv
<1> QED
  BY <1>1, <1>2, PTL DEF QueriesSpec

(* A client that asks for page after page sees every block that was there    *)
(* when it began, however many are committed or the process restarts in      *)
(* between, and whatever limits it and the code have; what it sees of them   *)
(* is what the chain has.                                                    *)
THEOREM PagesNeverLeaveAGap == QueriesSpec => []PagesLeaveNoGap
<1>1. QueriesIInv => PagesLeaveNoGap
  BY DEF QueriesIInv
<1> QED
  BY <1>1, QueriesInvariance, PTL

(* The earnings of a period are the sum of the entries in it: the rows of    *)
(* the table at its ends and the whole days between them leave out no entry  *)
(* and count none twice, however long a day is and wherever the ends lie,    *)
(* as long as they are not within one day.                                   *)
THEOREM PeriodsAreAlwaysSums == QueriesSpec => []PeriodsAreSums
<1>1. QueriesIInv => PeriodsAreSums
  <2> SUFFICES ASSUME QueriesIInv, Answering, NEW low \in PeriodStarts,
                      ~WithinOneDay(low, NowSecond), NEW p \in Pools
               PROVE  PoolEarnings(p, low, NowSecond)
                        = TotalOf(p, Interval(RewardEntries, low, NowSecond))
    BY DEF PeriodsAreSums, SumsTheInterval
  <2>1. PICK high, rows, parts : /\ high = NowSecond /\ rows = RewardEntries
                                 /\ parts = UnionParts(rows, low, high)
    OBVIOUS
  <2>2. low \in Int /\ high \in Int /\ low <= high
    BY <2>1, ClockIs
  <2>3. IsFiniteSet(rows) /\ \A r \in rows : r.amount.e8 \in Int /\ TimeOf(r) \in Nat \ {0}
    BY <2>1, EntriesAre DEF QueriesIInv
  <2>4. PICK a, b, c : a = parts[1] /\ b = parts[2] /\ c = parts[3]
    OBVIOUS
  <2>5. /\ a \cup b \cup c = Interval(rows, low, high)
        /\ a \cap b = {} /\ (a \cup b) \cap c = {}
    <3>1. ~WithinOneDay(low, high) /\ parts = UnionParts(rows, low, high)
      BY <2>1
    <3>2. /\ parts[1] \cup parts[2] \cup parts[3] = Interval(rows, low, high)
          /\ parts[1] \cap parts[2] = {}
          /\ (parts[1] \cup parts[2]) \cap parts[3] = {}
      BY <2>2, <2>3, <3>1, UnionIsInterval, Zenon
    <3> QED
      BY <2>4, <3>2
  <2>6. a \cup b \cup c \subseteq rows
    BY <2>5 DEF Interval
  <2>7. IsFiniteSet(a) /\ IsFiniteSet(b) /\ IsFiniteSet(c) /\ IsFiniteSet(a \cup b)
    BY <2>3, <2>6, FS_Subset
  <2>8. TotalOf(p, a \cup b) = TotalOf(p, a) + TotalOf(p, b)
    BY <2>3, <2>5, <2>6, <2>7, TotalOfBoth
  <2>9. TotalOf(p, (a \cup b) \cup c) = TotalOf(p, a \cup b) + TotalOf(p, c)
    BY <2>3, <2>5, <2>6, <2>7, TotalOfBoth
  <2>10. PoolEarnings(p, low, high) = TotalOf(p, a) + TotalOf(p, b) + TotalOf(p, c)
    BY <2>1, <2>4 DEF PoolEarnings
  <2> QED
    BY <2>1, <2>5, <2>8, <2>9, <2>10
<1> QED
  BY <1>1, QueriesInvariance, PTL

(* Each bucket of a history has the newest depth of every pool before its    *)
(* end: the buckets follow each other in the calendar and leave out no block *)
(* of the window, and neither the commits between the two queries nor the    *)
(* rows that only changes leave make an answer wrong, whatever intervals,    *)
(* times and requests there are.                                             *)
THEOREM HistoriesAreDense == QueriesSpec => []HistoryDense
<1>1. QueriesIInv => HistoryDense
  <2> SUFFICES ASSUME QueriesIInv, reader.kind = "depths", reader.has
               PROVE  HistoryDense
    BY DEF HistoryDense
  <2>1. PICK q, ts, now : q = reader.request /\ ts = reader.timestamps /\ now = reader.now
    OBVIOUS
  <2>2. /\ q \in HistoryRequests /\ Asked(q, ts, now) /\ ts \in Seq(Int)
        /\ \E h \in 1..Top : now = Times[h] + 1
        /\ ts[1] < now => \A p \in Pools : DepthAt(reader.before, p) = DepthAsOf(p, ts[1])
    BY <2>1, HistoryNow DEF QueriesIInv
  <2>3. Given(q.interval) => BucketsFit(q, ts)
    BY <2>1, <2>2, FitIs DEF Asked
  <2>4. PICK n \in Nat : n = Len(ts) /\ 2 <= n /\ \A k \in 1..n : ts[k] \in Int
    BY <2>2, EndsAre
  <2>5. now \in Int
    <3>1. PICK h \in 1..Top : now = Times[h] + 1
      BY <2>2
    <3>2. Top \in Nat /\ Top <= Len(Times)
      BY NowIs DEF QueriesIInv
    <3>3. PICK t \in Nat, m \in Nat : t = Top /\ m = Len(Times) /\ t <= m
      BY <3>2, TimesAre
    <3>4. h \in 1..m
      BY <3>3
    <3>5. Times[h] \in Nat
      BY <3>3, <3>4, TimesAre
    <3> QED
      BY <3>1, <3>5
  <2>6. PICK D : D = db.depths
    OBVIOUS
  <2>7. IsHistory(D)
    BY <2>6, DepthRowsAre DEF QueriesIInv
  <2>8. 1 \in 1..n /\ 2 \in 1..n
    BY <2>4
  <2>9. PICK low \in Int, high \in Int : low = ts[1] /\ high = ts[2]
    BY <2>4, <2>8
  <2>10. ASSUME Given(q.interval), low < now, NEW k \in 1..n - 1, NEW p \in Pools
         PROVE  Answer(k, p) = DepthAsOf(p, ts[k + 1])
    <3>1. PICK i : i = IntervalOf(q) /\ IsInterval(i)
      BY <2>2, <2>10, IntervalOfIs
    <3>2. Consecutive(i, ts)
      BY <2>2, <2>10, <3>1 DEF Asked, FitsAt
    <3>3. i = Intervals[Value(reader.request.interval, "")]
      BY <2>1, <3>1 DEF IntervalOf
    <3>4. DepthAt(reader.before, p) = LastDepth(OlderThan(D, ts[1]), p)
      <4>1. DepthAt(reader.before, p) = DepthAsOf(p, ts[1])
        BY <2>2, <2>9, <2>10
      <4>2. DepthAsOf(p, ts[1]) = LastDepth(OlderThan(db.depths, ts[1]), p)
        BY DepthAsOfIs
      <4> QED
        BY <2>6, <4>1, <4>2
    <3>5. Filled(k, p) = LastDepth(OlderThan(D, ts[k + 1]), p)
      <4>1. InBucketsOf(D, i, ts, n)
        BY <2>1, <2>4, <2>6, <2>7, <3>1, <3>2, <3>3 DEF InBucketsOf
      <4> QED
        BY ONLY <3>4, <4>1, FilledIs
    <3>6. DepthAsOf(p, ts[k + 1]) = LastDepth(OlderThan(D, ts[k + 1]), p)
      <4>1. DepthAsOf(p, ts[k + 1]) = LastDepth(OlderThan(db.depths, ts[k + 1]), p)
        BY DepthAsOfIs
      <4> QED
        BY <2>6, <4>1
    <3>7. Answer(k, p) = Filled(k, p)
      BY <2>1, <2>10 DEF Answer
    <3> QED
      BY <3>5, <3>6, <3>7
  <2>11. ASSUME ~Given(q.interval), q.named, low <= high, ~WithinOneDay(low, high),
                NEW k \in 1..n - 1, NEW p \in Pools
         PROVE  Answer(k, p) = DepthAsOf(p, ts[k + 1])
    <3>1. n = 2 /\ k = 1 /\ ts[k + 1] = high
      <4>1. n = 2
        BY <2>2, <2>4, <2>11 DEF Asked
      <4>2. k = 1 /\ k + 1 = 2
        BY <4>1
      <4> QED
        BY <2>9, <4>1, <4>2
    <3>2. q.named = TRUE
      <4>1. q.named \in BOOLEAN
        BY <2>2, IntervalOfIs DEF IsRequest
      <4> QED
        BY <2>11, <4>1
    <3>3. Answer(k, p) = DepthAt(DepthsPeriod(low, high, TRUE), p)
      BY <2>1, <2>9, <2>11, <3>2 DEF Answer
    <3>4. DepthAt(DepthsPeriod(low, high, TRUE), p) = LastDepth(OlderThan(D, high), p)
      BY <2>6, <2>7, <2>11, DepthsPeriodIs
    <3>5. DepthAsOf(p, high) = LastDepth(OlderThan(D, high), p)
      <4>1. DepthAsOf(p, high) = LastDepth(OlderThan(db.depths, high), p)
        BY DepthAsOfIs
      <4> QED
        BY <2>6, <4>1
    <3> QED
      BY <3>1, <3>3, <3>4, <3>5
  <2>12. \/ low >= now
         \/ ~Given(q.interval) /\ (~q.named \/ high < low \/ WithinOneDay(low, high))
         \/ \A k \in 1..n - 1 : \A p \in Pools : Answer(k, p) = DepthAsOf(p, ts[k + 1])
    BY <2>5, <2>10, <2>11
  <2> QED
    BY <2>1, <2>3, <2>4, <2>9, <2>12 DEF HistoryDense
<1> QED
  BY <1>1, QueriesInvariance, PTL
=============================================================================
