--------------------------- MODULE IndexerProofs ---------------------------
(***************************************************************************)
(* Proofs of the safety properties of Indexer from the inductive invariant *)
(* of IndexerInv.                                                          *)
(***************************************************************************)
EXTENDS IndexerInv, TLAPS

(* Publishing is a set of values of wpc, expanded everywhere. *)
USE DEF Publishing

(* What Tail does to the length and the elements of a sequence. *)
LEMMA TailOfSeq ==
  ASSUME NEW S, NEW s \in Seq(S), s # << >>
  PROVE  /\ Len(s) \in Nat /\ Len(s) > 0
         /\ Head(s) = s[1] /\ s[1] \in S
         /\ Tail(s) \in Seq(S) /\ Len(Tail(s)) = Len(s) - 1
         /\ \A i \in 1..Len(Tail(s)) : Tail(s)[i] = s[i + 1]
OBVIOUS

(* What Append does to the length and the elements of a sequence. *)
LEMMA AppendToSeq ==
  ASSUME NEW S, NEW s \in Seq(S), NEW e \in S
  PROVE  /\ Append(s, e) \in Seq(S) /\ Append(s, e) # << >>
         /\ Len(s) \in Nat /\ Len(Append(s, e)) = Len(s) + 1
         /\ \A i \in 1..Len(s) : Append(s, e)[i] = s[i]
         /\ Append(s, e)[Len(s) + 1] = e
OBVIOUS

(* A non-empty table without gaps: its newest row is the one of height n. *)
LEMMA LastRowOfLog ==
  ASSUME NEW log, NEW n \in Nat, Heights(log) = 1..n, log # {}
  PROVE  /\ LastRow(log) \in log
         /\ LastRow(log).height = n
         /\ n > 0
<1>1. PICK r \in log : TRUE
  OBVIOUS
<1>2. r.height \in 1..n
  BY <1>1 DEF Heights
<1>3. n \in Heights(log)
  BY <1>2
<1>4. PICK q \in log : q.height = n
  BY <1>3 DEF Heights
<1>5. \A s \in log : s.height \in 1..n
  BY DEF Heights
<1>6. \E t \in log : \A s \in log : s.height <= t.height
  BY <1>4, <1>5
<1>7. LastRow(log) \in log /\ \A s \in log : s.height <= LastRow(log).height
  BY <1>6 DEF LastRow
<1>8. LastRow(log).height \in 1..n /\ n <= LastRow(log).height
  BY <1>4, <1>5, <1>7
<1> QED
  BY <1>2, <1>7, <1>8

(* The newest height of a table without gaps, empty or not. *)
LEMMA LastHeightOfLog ==
  ASSUME NEW log, NEW n \in Nat, Heights(log) = 1..n
  PROVE  LastHeight(log) = n
<1>1. CASE log = {}
  <2>1. Heights(log) = {}
    BY <1>1 DEF Heights
  <2>2. n = 0
    BY <2>1
  <2> QED
    BY <1>1, <2>2 DEF LastHeight
<1>2. CASE log # {}
  BY <1>2, LastRowOfLog DEF LastHeight
<1> QED
  BY <1>1, <1>2

(* The rows of a sequence that continues the table after the height n. *)
LEMMA HeightsOfRun ==
  ASSUME NEW s \in Seq(Rows), NEW n \in Nat,
         \A i \in 1..Len(s) : s[i].height = n + i
  PROVE  Heights(RowSet(s)) = (n + 1)..(n + Len(s))
<1>1. \A h \in (n + 1)..(n + Len(s)) : h - n \in 1..Len(s) /\ s[h - n].height = h
  BY Z3
<1>2. \A h \in (n + 1)..(n + Len(s)) : h \in Heights(RowSet(s))
  BY <1>1 DEF Heights, RowSet
<1>3. \A i \in 1..Len(s) : n + i \in (n + 1)..(n + Len(s))
  OBVIOUS
<1>4. \A h \in Heights(RowSet(s)) : h \in (n + 1)..(n + Len(s))
  BY <1>3 DEF Heights, RowSet
<1> QED
  BY <1>2, <1>4

(* The heights of two sets of rows together. *)
LEMMA HeightsOfUnion ==
  ASSUME NEW A, NEW B
  PROVE  Heights(A \cup B) = Heights(A) \cup Heights(B)
BY DEF Heights

(* Rows that continue the table do not change what was below them. *)
LEMMA RewardsBelow ==
  ASSUME NEW A, NEW C, NEW h,
         \A r \in A : r \in C,
         \A r \in C : r \in A \/ ~(r.height <= h)
  PROVE  RewardsUpTo(C, h) = RewardsUpTo(A, h)
BY DEF RewardsUpTo, Heights

(* A consistent table stays consistent when the rows of a batch are added: *)
(* they continue it, the last one has a state, and the states are right.   *)
LEMMA ExtendLog ==
  ASSUME NEW log \in SUBSET Rows, ConsistentLog(log), LastHeight(log) \in Nat,
         NEW s \in Seq(Rows), s # << >>,
         \A i \in 1..Len(s) : s[i].height = LastHeight(log) + i,
         s[Len(s)].saved,
         \A i \in 1..Len(s) :
           s[i].saved => s[i].agg = RewardsUpTo(log \cup RowSet(s), s[i].height)
  PROVE  /\ ConsistentLog(log \cup RowSet(s))
         /\ LastHeight(log \cup RowSet(s)) = LastHeight(log) + Len(s)
<1> DEFINE n == LastHeight(log)
           new == log \cup RowSet(s)
<1>0. Len(s) \in Nat /\ Len(s) > 0
  OBVIOUS
<1>1. Heights(RowSet(s)) = (n + 1)..(n + Len(s))
  BY HeightsOfRun
<1>2. Heights(new) = 1..(n + Len(s))
  <2>1. Heights(log) = 1..n
    BY DEF ConsistentLog
  <2>2. Heights(new) = Heights(log) \cup Heights(RowSet(s))
    BY HeightsOfUnion
  <2>3. n \in Nat /\ n + Len(s) \in Nat
    BY <1>0
  <2> HIDE DEF n, new
  <2> QED
    BY <1>0, <1>1, <2>1, <2>2, <2>3
<1>3. LastHeight(new) = n + Len(s)
  BY <1>0, <1>2, LastHeightOfLog
<1>4. \A r \in log : r.height \in 1..n
  BY DEF ConsistentLog, Heights
<1>5. \A r \in RowSet(s) : \E i \in 1..Len(s) : r = s[i] /\ r.height = n + i
  BY DEF RowSet
<1>6. \A q, r \in new : q.height = r.height => q = r
  <2>1. \A q, r \in log : q.height = r.height => q = r
    BY DEF ConsistentLog
  <2>2. \A q, r \in RowSet(s) : q.height = r.height => q = r
    BY <1>5
  <2>3. \A q \in log, r \in RowSet(s) : q.height # r.height
    BY <1>4, <1>5
  <2> QED
    BY <2>1, <2>2, <2>3
<1>7. LastRow(new).saved
  <2>1. LastRow(new) \in new /\ LastRow(new).height = n + Len(s)
    <3>1. s[Len(s)] \in RowSet(s)
      BY <1>0 DEF RowSet
    <3>2. n + Len(s) \in Nat /\ new # {}
      BY <1>0, <3>1
    <3> HIDE DEF n, new
    <3> QED
      BY <1>2, <3>2, LastRowOfLog
  <2>2. s[Len(s)] \in new /\ s[Len(s)].height = n + Len(s)
    BY <1>0 DEF RowSet
  <2>3. LastRow(new) = s[Len(s)]
    BY <1>6, <2>1, <2>2
  <2> QED
    BY <2>3
<1>8. \A r \in new : r.saved => r.agg = RewardsUpTo(new, r.height)
  <2>1. ASSUME NEW r \in log, r.saved
        PROVE  r.agg = RewardsUpTo(new, r.height)
    <3>1. r.agg = RewardsUpTo(log, r.height)
      BY <2>1 DEF ConsistentLog
    <3>2. \A q \in new : q \in log \/ ~(q.height <= r.height)
      BY <1>4, <1>5
    <3>3. RewardsUpTo(new, r.height) = RewardsUpTo(log, r.height)
      <4>1. \A q \in log : q \in new
        OBVIOUS
      <4> HIDE DEF new
      <4> QED
        BY <3>2, <4>1, RewardsBelow
    <3> QED
      BY <3>1, <3>3
  <2>2. ASSUME NEW r \in RowSet(s), r.saved
        PROVE  r.agg = RewardsUpTo(new, r.height)
    BY <2>2 DEF RowSet
  <2> QED
    BY <2>1, <2>2
<1> QED
  BY <1>2, <1>3, <1>6, <1>7, <1>8 DEF ConsistentLog

-----------------------------------------------------------------------------
(* The initial states. *)

(* The invariant holds of an empty database and a process not started. *)
LEMMA InitIInv == Init => IInv
<1> SUFFICES ASSUME Init PROVE IInv
  OBVIOUS
<1> USE DEF Init
<1>1. Heights(block_log) = {} /\ Top = 0
  BY DEF Heights, Top, LastHeight
<1>2. TypeOK
  <2>1. << >> \in Seq(Nat) /\ << >> \in Seq(Rows) /\ Len(<< >>) = 0
    OBVIOUS
  <2>2. nodeHeight \in 1..MaxHeight /\ ready \in {nodeHeight - 1, nodeHeight}
    OBVIOUS
  <2>3. FetchTypeOK
    BY <2>1, <2>2, ParametersAssumption DEF FetchTypeOK
  <2>4. WriteTypeOK
    BY <2>1, ParametersAssumption DEF WriteTypeOK
  <2> QED
    BY <2>3, <2>4 DEF TypeOK
<1>3. MemoryLost
  BY DEF MemoryLost
<1>4. FetcherInv
  BY ParametersAssumption DEF FetcherInv
<1>5. DatabaseConsistent
  <2>1. Heights({}) = {} /\ LastHeight({}) = 0 /\ 1..0 = {}
    BY DEF Heights, LastHeight
  <2>2. ConsistentLog({})
    BY <2>1 DEF ConsistentLog
  <2> QED
    BY <2>1, <2>2, ParametersAssumption DEF DatabaseConsistent
<1>6. ~Live
  BY DEF Live
<1> QED
  BY <1>1, <1>2, <1>3, <1>4, <1>5, <1>6, ParametersAssumption
  DEF IInv, PipelineInv, DepthsInv, TipInv, UnsetFirstInv, FirstInv, ForkInv

-----------------------------------------------------------------------------
(* What a step that leaves the writer alone cannot disturb. *)

(* A step of the node or the fetcher leaves the writer and the database be. *)
LEMMA WriterUntouched ==
  ASSUME IInv, UNCHANGED writeVars, nodeHeight' \in Nat, nodeHeight <= nodeHeight',
         proc' = "down" <=> proc = "down"
  PROVE  /\ WriteTypeOK'
         /\ (Top \in Nat)'
         /\ DatabaseConsistent'
         /\ DepthsInv'
         /\ UnsetFirstInv'
         /\ FirstInv'
         /\ ForkInv'
<1> USE DEF writeVars, loopVars, publishedVars, dbVars
<1>1. Top' = Top /\ (Live' <=> Live) /\ InHand' = InHand /\ Written' = Written
  BY DEF Top, Live, InHand, Written
<1>2. (Top \in Nat)'
  BY <1>1 DEF IInv
<1>3. DatabaseConsistent'
  <2>1. ConsistentLog(block_log)'
    BY DEF IInv, DatabaseConsistent
  <2>2. Top <= nodeHeight'
    BY DEF IInv, DatabaseConsistent, TypeOK, FetchTypeOK, WriteTypeOK, Top
  <2> QED
    BY <1>1, <2>1, <2>2 DEF DatabaseConsistent, Top
<1>4. DepthsInv'
  <2>1. RowsWritten' = RowsWritten
    BY DEF RowsWritten
  <2> QED
    BY <1>1, <2>1 DEF IInv, DepthsInv
<1>5. FirstInv'
  BY <1>1 DEF IInv, FirstInv
<1>6. ForkInv'
  BY <1>1 DEF IInv, ForkInv
<1>7. WriteTypeOK'
  BY DEF IInv, TypeOK, WriteTypeOK
<1>8. UnsetFirstInv'
  BY <1>1 DEF IInv, UnsetFirstInv
<1> QED
  BY <1>2, <1>3, <1>4, <1>5, <1>6, <1>7, <1>8

(* Nothing in the pipeline moves: its blocks stay in order. *)
LEMMA PipelineUntouched ==
  ASSUME IInv, UNCHANGED writeVars, UNCHANGED <<blocks, nextHeightToFetch>>,
         proc' = "down" <=> proc = "down"
  PROVE  PipelineInv'
<1> USE DEF writeVars, loopVars, publishedVars, dbVars
<1>1. Top' = Top /\ (Live' <=> Live) /\ InHand' = InHand /\ Written' = Written
  BY DEF Top, Live, InHand, Written
<1> QED
  BY <1>1 DEF IInv, PipelineInv

(* Nothing in the pipeline moves: the tip stays within reach. *)
LEMMA TipUntouched ==
  ASSUME IInv, UNCHANGED writeVars, UNCHANGED <<nextHeightToFetch, LastFetchedBlock>>,
         LastThorNodeBlock' \in Nat, LastThorNodeBlock <= LastThorNodeBlock',
         proc' = "down" <=> proc = "down"
  PROVE  TipInv'
<1> USE DEF writeVars, loopVars, publishedVars, dbVars
<1>1. Top' = Top /\ (Live' <=> Live) /\ Top \in Nat /\ cur \in Nat
  BY DEF Top, Live, IInv, TypeOK, FetchTypeOK, WriteTypeOK
<1>2. LastThorNodeBlock \in Nat /\ Len(pending) \in Nat
  BY DEF IInv, TypeOK, FetchTypeOK, WriteTypeOK
<1> QED
  BY <1>1, <1>2 DEF IInv, TipInv

-----------------------------------------------------------------------------
(* The steps of the fetcher. *)

(* Every step of the BlockFetch job keeps the invariant. *)
LEMMA FetchStepInv ==
  ASSUME IInv, FetchStep, UNCHANGED writeVars
  PROVE  IInv'
<1> USE DEF nodeVars, iterVars, retryVars
<1>t. FetchTypeOK /\ FetcherInv
  BY DEF IInv, TypeOK
<1>0. ASSUME nodeHeight' = nodeHeight, proc # "down", proc' # "down", FetchTypeOK',
             FetcherInv', PipelineInv', TipInv'
      PROVE  IInv'
  <2>1. nodeHeight' \in Nat /\ nodeHeight <= nodeHeight'
    BY <1>0, <1>t, ParametersAssumption DEF FetchTypeOK
  <2>2. (proc' = "down") <=> (proc = "down")
    BY <1>0
  <2> QED
    BY <1>0, <2>1, <2>2, WriterUntouched DEF IInv, TypeOK
<1>1. CASE CatchUpToFailed
  <2> USE <1>1, <1>t DEF CatchUpToFailed, StartIterator
  <2>1. FetchTypeOK'
    BY ParametersAssumption DEF FetchTypeOK
  <2>2. FetcherInv'
    BY DEF FetcherInv, FetchTypeOK
  <2>3. PipelineInv'
    BY PipelineUntouched
  <2>4. TipInv'
    BY TipUntouched DEF FetchTypeOK
  <2> QED
    BY <1>0, <2>1, <2>2, <2>3, <2>4
<1>2. CASE CatchUpToLatest
  <2> USE <1>2, <1>t DEF CatchUpToLatest, StartIterator
  <2>1. FetchTypeOK'
    BY ParametersAssumption DEF FetchTypeOK
  <2>2. FetcherInv'
    BY DEF FetcherInv, FetchTypeOK
  <2>3. PipelineInv'
    BY PipelineUntouched
  <2>4. TipInv'
    BY TipUntouched DEF FetchTypeOK, FetcherInv
  <2> QED
    BY <1>0, <2>1, <2>2, <2>3, <2>4
<1>3. CASE StatusFails
  <2> USE <1>3, <1>t DEF StatusFails, CatchUpFails, Fault
  <2>1. FetchTypeOK'
    BY ParametersAssumption DEF FetchTypeOK
  <2>2. FetcherInv'
    BY DEF FetcherInv, FetchTypeOK
  <2>3. PipelineInv' /\ TipInv' /\ proc' # "down"
    BY PipelineUntouched, TipUntouched DEF FetchTypeOK
  <2> QED
    BY <1>0, <2>1, <2>2, <2>3
<1>4. CASE ReachedTarget
  <2> USE <1>4, <1>t DEF ReachedTarget, CatchUpReturns, DropIterator
  <2>1. FetchTypeOK'
    BY ParametersAssumption DEF FetchTypeOK
  <2>2. FetcherInv'
    BY DEF FetcherInv, FetchTypeOK
  <2>3. PipelineInv' /\ TipInv'
    BY PipelineUntouched, TipUntouched DEF FetchTypeOK
  <2> QED
    BY <1>0, <2>1, <2>2, <2>3
<1>5. CASE NextFromStore
  <2> USE <1>5, <1>t DEF NextFromStore, Give
  <2>1. FetchTypeOK'
    BY ParametersAssumption DEF FetchTypeOK
  <2>2. FetcherInv'
    BY DEF FetcherInv, FetchTypeOK
  <2>3. PipelineInv' /\ TipInv'
    BY PipelineUntouched, TipUntouched DEF FetchTypeOK
  <2> QED
    BY <1>0, <2>1, <2>2, <2>3
<1>6. CASE SwitchToChain
  <2> USE <1>6, <1>t DEF SwitchToChain, Fault
  <2>1. FetchTypeOK'
    BY ParametersAssumption DEF FetchTypeOK
  <2>2. FetcherInv'
    BY DEF FetcherInv, FetchTypeOK
  <2>3. PipelineInv' /\ TipInv'
    BY PipelineUntouched, TipUntouched DEF FetchTypeOK
  <2> QED
    BY <1>0, <2>1, <2>2, <2>3
<1>7. CASE NextFromChain
  <2> DEFINE b == IF batch # << >> THEN batch ELSE FetchBatch
  <2> USE <1>7, <1>t
  <2>1. /\ fpc = "iterate" /\ itHeight <= finalHeight /\ source = "chain"
        /\ itHeight = nextHeightToFetch
        /\ itHeight \in Nat /\ finalHeight \in Nat /\ nextBatchStart \in Nat
        /\ batch \in Seq(Nat)
        /\ nextBatchStart = itHeight + Len(batch)
        /\ batch # << >> => nextBatchStart <= finalHeight + 1
    BY DEF NextFromChain, FetcherInv, FetchTypeOK
  <2>2. /\ b \in Seq(Nat) /\ b # << >>
        /\ \A i \in 1..Len(b) : b[i] = itHeight + i - 1
        /\ itHeight + Len(b) <= finalHeight + 1
    <3>1. CASE batch # << >>
      BY <2>1, <3>1 DEF FetcherInv
    <3>2. CASE batch = << >>
      <4>1. BatchLength \in Nat /\ BatchLength > 0
            /\ itHeight + BatchLength <= finalHeight + 1
        BY <2>1, <3>2, ParametersAssumption DEF BatchLength, LowerOf
      <4>2. FetchBatch = [i \in 1..BatchLength |-> itHeight + i - 1]
        BY <2>1, <3>2 DEF FetchBatch
      <4>3. FetchBatch \in Seq(Nat) /\ Len(FetchBatch) = BatchLength
        BY <2>1, <4>1, <4>2
      <4> QED
        BY <3>2, <4>1, <4>2, <4>3
    <3> QED
      BY <3>1, <3>2
  <2> HIDE DEF b
  <2>3. /\ batch' = Tail(b) /\ nextBatchStart' = nextBatchStart + Len(b) - Len(batch)
        /\ fetched' = Head(b) /\ itHeight' = itHeight + 1 /\ fpc' = "send"
        /\ UNCHANGED <<proc, faults, nodeVars, blocks, retryVars, finalHeight,
                       LastThorNodeBlock, LastFetchedBlock, source>>
    BY DEF NextFromChain, Give, b
  <2>4. /\ Head(b) = itHeight
        /\ Tail(b) \in Seq(Nat) /\ Len(Tail(b)) = Len(b) - 1
        /\ \A i \in 1..Len(Tail(b)) : Tail(b)[i] = itHeight + i
        /\ nextBatchStart' = itHeight + Len(b) /\ Len(b) \in Nat
    <3>1. /\ Len(b) \in Nat /\ Len(b) > 0 /\ Head(b) = b[1] /\ b[1] \in Nat
          /\ Tail(b) \in Seq(Nat) /\ Len(Tail(b)) = Len(b) - 1
          /\ \A i \in 1..Len(Tail(b)) : Tail(b)[i] = b[i + 1]
      BY <2>2, TailOfSeq
    <3>2. \A i \in 1..Len(Tail(b)) : i + 1 \in 1..Len(b)
      BY <3>1
    <3> QED
      BY <2>1, <2>2, <2>3, <3>1, <3>2
  <2>5. FetchTypeOK'
    BY <2>1, <2>3, <2>4, SMTT(30) DEF FetchTypeOK
  <2>6. FetcherInv'
    <3>1. /\ \A i \in 1..Len(batch') : batch'[i] = itHeight' + i - 1
          /\ nextBatchStart' = itHeight' + Len(batch')
          /\ nextBatchStart' <= finalHeight + 1
      BY <2>1, <2>2, <2>3, <2>4
    <3>2. fetched' = nextHeightToFetch /\ itHeight' = fetched' + 1 /\ fetched' <= finalHeight
      BY <2>1, <2>3, <2>4
    <3> QED
      BY <2>1, <2>3, <3>1, <3>2 DEF FetcherInv
  <2>7. PipelineInv' /\ TipInv'
    BY <2>3, PipelineUntouched, TipUntouched DEF FetchTypeOK
  <2>8. proc # "down"
    BY DEF NextFromChain
  <2> QED
    BY <1>0, <2>3, <2>5, <2>6, <2>7, <2>8
<1>8. CASE FetchFails
  <2> USE <1>8, <1>t DEF FetchFails, CatchUpFails, DropIterator, Fault
  <2>1. FetchTypeOK'
    BY ParametersAssumption DEF FetchTypeOK
  <2>2. FetcherInv'
    BY DEF FetcherInv, FetchTypeOK
  <2>3. PipelineInv' /\ TipInv' /\ proc' # "down"
    BY PipelineUntouched, TipUntouched DEF FetchTypeOK
  <2> QED
    BY <1>0, <2>1, <2>2, <2>3
<1>9. CASE SendBlock
  <2> USE <1>9, <1>t DEF SendBlock
  <2>1. FetchTypeOK'
    BY ParametersAssumption DEF FetchTypeOK
  <2>2. FetcherInv'
    BY DEF FetcherInv, FetchTypeOK
  <2>3. /\ Top' = Top /\ (Live' <=> Live) /\ InHand' = InHand /\ Written' = Written
        /\ Top \in Nat /\ Written \in Nat /\ Len(pending) \in Nat
    <3>1. Top' = Top /\ (Live' <=> Live) /\ InHand' = InHand /\ Written' = Written
      BY DEF Top, Live, InHand, Written, writeVars, loopVars, publishedVars, dbVars
    <3>2. Top \in Nat /\ pending \in Seq(Rows)
      BY DEF IInv, TypeOK, WriteTypeOK
    <3> QED
      BY <3>1, <3>2 DEF Written, InHand
  <2>4. /\ fetched \in Nat /\ blocks \in Seq(Nat) /\ Len(blocks') = Len(blocks) + 1
        /\ \A i \in 1..Len(blocks) : blocks'[i] = blocks[i]
        /\ blocks'[Len(blocks) + 1] = fetched
    <3>1. fetched \in Nat /\ blocks \in Seq(Nat) /\ blocks' = Append(blocks, fetched)
      BY DEF FetchTypeOK
    <3> QED
      BY <3>1, AppendToSeq
  <2>5. Live => fetched = Written + Len(blocks) + 1
    BY DEF IInv, PipelineInv, FetcherInv
  <2>6. PipelineInv'
    <3>1. /\ \A i \in 1..Len(blocks) : Live => blocks[i] = Written + i
          /\ Live => nextHeightToFetch = Written + Len(blocks) + 1
      BY DEF IInv, PipelineInv
    <3>2. \A i \in 1..Len(blocks') : Live => blocks'[i] = Written + i
      <4> TAKE i \in 1..Len(blocks')
      <4> HIDE DEF SendBlock
      <4>1. i \in 1..Len(blocks) \/ i = Len(blocks) + 1
        BY <2>4
      <4>2. CASE i \in 1..Len(blocks)
        BY <2>4, <3>1, <4>2
      <4>3. CASE i = Len(blocks) + 1
        BY <2>3, <2>4, <2>5, <4>3
      <4> QED
        BY <4>1, <4>2, <4>3
    <3>3. Live => nextHeightToFetch' = Written + Len(blocks') + 1
      BY <2>3, <2>4, <2>5
    <3> QED
      BY <2>3, <3>2, <3>3
      DEF IInv, PipelineInv, writeVars, loopVars, publishedVars, dbVars
  <2>7. TipInv'
    <3>1. Live => nextHeightToFetch' # Top + 1 /\ LastFetchedBlock' # 0
      BY <2>3, <2>4, <2>5 DEF Written, InHand
    <3> QED
      BY <2>3, <3>1 DEF IInv, TipInv, writeVars, loopVars, publishedVars, dbVars
  <2> QED
    BY <1>0, <2>1, <2>2, <2>6, <2>7
<1>10. CASE FetchStops
  <2> USE <1>10, <1>t DEF FetchStops
  <2>1. FetchTypeOK'
    BY ParametersAssumption DEF FetchTypeOK
  <2>2. FetcherInv'
    BY DEF FetcherInv, FetchTypeOK
  <2>3. PipelineInv' /\ TipInv'
    BY PipelineUntouched, TipUntouched DEF FetchTypeOK
  <2> QED
    BY <1>0, <2>1, <2>2, <2>3
<1> QED
  BY <1>1, <1>2, <1>3, <1>4, <1>5, <1>6, <1>7, <1>8, <1>9, <1>10 DEF FetchStep

-----------------------------------------------------------------------------
(* What the writer's steps leave alone, and what they do to the rows. *)

(* A step of the writer leaves the fetcher be. *)
LEMMA FetcherUntouched ==
  ASSUME IInv, UNCHANGED <<fetchVars, nodeVars>>, proc' \in {"up", "stopping"},
         faults' \in 0..MaxFaults, blocks' \in Seq(Nat), Len(blocks') <= FetchBatchSize
  PROVE  FetchTypeOK' /\ FetcherInv' /\ (proc' = "down" => MemoryLost')
<1> USE DEF fetchVars, nodeVars, iterVars, retryVars
<1>1. FetchTypeOK'
  BY DEF IInv, TypeOK, FetchTypeOK
<1>2. FetcherInv'
  BY DEF IInv, FetcherInv
<1> QED
  BY <1>1, <1>2

(* A step that writes nothing leaves the database consistent. *)
LEMMA DatabaseUntouched ==
  ASSUME IInv, UNCHANGED <<block_log, nodeHeight>>
  PROVE  Top' = Top /\ (Top \in Nat)' /\ DatabaseConsistent'
<1>1. Top' = Top /\ LastHeight(block_log)' = LastHeight(block_log)
  BY DEF Top
<1>2. ConsistentLog(block_log)'
  BY DEF IInv, DatabaseConsistent
<1> QED
  BY <1>1, <1>2 DEF IInv, DatabaseConsistent

(* A row above all others: what it adds to the depths. *)
LEMMA DepthsWithRow ==
  ASSUME NEW rows \in SUBSET Rows, NEW row \in Rows, NEW new,
         \A r \in rows : r.height < row.height,
         \A r : r \in new <=> (r \in rows \/ r = row)
  PROVE  /\ DepthsOf(new) = DepthsOf(rows) \cup (IF row.rewards THEN {row.height} ELSE {})
         /\ RewardsUpTo(new, row.height) = DepthsOf(new)
         /\ \A h \in Nat : h < row.height => RewardsUpTo(new, h) = RewardsUpTo(rows, h)
<1>1. \A r \in new : r.height \in Nat /\ r.height <= row.height
  BY DEF Rows
<1>2. DepthsOf(new) = DepthsOf(rows) \cup (IF row.rewards THEN {row.height} ELSE {})
  BY DEF Heights, DepthsOf
<1>3. RewardsUpTo(new, row.height) = DepthsOf(new)
  BY <1>1 DEF RewardsUpTo, Heights, DepthsOf
<1>4. ASSUME NEW h \in Nat, h < row.height
      PROVE  RewardsUpTo(new, h) = RewardsUpTo(rows, h)
  <2>1. \A r \in rows : r \in new
    OBVIOUS
  <2>2. \A r \in new : r \in rows \/ ~(r.height <= h)
    BY <1>4 DEF Rows
  <2> QED
    BY <2>1, <2>2, RewardsBelow
<1> QED
  BY <1>2, <1>3, <1>4

(* The rows of a sequence after one more. *)
LEMMA RowSetOfAppend ==
  ASSUME NEW s \in Seq(Rows), NEW row \in Rows
  PROVE  \A r : r \in RowSet(Append(s, row)) <=> (r \in RowSet(s) \/ r = row)
<1>1. /\ Len(s) \in Nat /\ Len(Append(s, row)) = Len(s) + 1
      /\ \A i \in 1..Len(s) : Append(s, row)[i] = s[i]
      /\ Append(s, row)[Len(s) + 1] = row
  BY AppendToSeq
<1>2. ASSUME NEW r, r \in RowSet(Append(s, row)) PROVE r \in RowSet(s) \/ r = row
  <2>1. PICK i \in 1..Len(Append(s, row)) : r = Append(s, row)[i]
    BY <1>2 DEF RowSet
  <2>2. i \in 1..Len(s) \/ i = Len(s) + 1
    BY <1>1
  <2> QED
    BY <1>1, <2>1, <2>2 DEF RowSet
<1>3. ASSUME NEW r \in RowSet(s) PROVE r \in RowSet(Append(s, row))
  <2>1. PICK i \in 1..Len(s) : r = s[i]
    BY DEF RowSet
  <2>2. i \in 1..Len(Append(s, row))
    BY <1>1
  <2> QED
    BY <1>1, <2>1, <2>2 DEF RowSet
<1>4. row \in RowSet(Append(s, row))
  BY <1>1 DEF RowSet
<1> QED
  BY <1>2, <1>3, <1>4

(* The rows written so far, stored or pending, are those up to Written. *)
LEMMA RowsWrittenType ==
  ASSUME IInv, Live
  PROVE  /\ Top \in Nat /\ Len(pending) \in Nat /\ pending \in Seq(Rows)
         /\ block_log \in SUBSET Rows
         /\ RowsWritten \in SUBSET Rows
         /\ \A r \in RowsWritten :
              r.height \in Nat /\ r.height <= Top + Len(pending)
<1> USE DEF RowsWritten
<1>1. /\ Top \in Nat /\ pending \in Seq(Rows) /\ Len(pending) \in Nat
      /\ block_log \in SUBSET Rows
  BY DEF IInv, TypeOK, WriteTypeOK
<1>2. RowSet(pending) \in SUBSET Rows
  BY <1>1 DEF RowSet
<1>3. \A r \in block_log : r.height \in 1..Top
  BY DEF IInv, DatabaseConsistent, ConsistentLog, Heights, Top
<1>4. \A r \in RowSet(pending) : \E i \in 1..Len(pending) : r.height = Top + i
  BY DEF IInv, PipelineInv, RowSet
<1>5. \A r \in RowsWritten :
        r.height \in Nat /\ r.height <= Top + Len(pending)
  BY <1>1, <1>3, <1>4
<1> QED
  BY <1>1, <1>2, <1>5

(* The process ends over a database that is consistent. *)
LEMMA LoseMemoryInv ==
  ASSUME IInv, LoseMemory, UNCHANGED nodeVars, faults' \in 0..MaxFaults, marked' \in BOOLEAN,
         block_log' \in SUBSET Rows, (Top \in Nat)', DatabaseConsistent',
         HardForkHeight # 0 => Top' <= HardForkHeight
  PROVE  IInv'
<1> USE DEF LoseMemory, DropIterator, nodeVars
<1>0. << >> \in Seq(Nat) /\ << >> \in Seq(Rows) /\ Len(<< >>) = 0
  OBVIOUS
<1>1. FetchTypeOK'
  BY <1>0, ParametersAssumption DEF IInv, TypeOK, FetchTypeOK
<1>2. WriteTypeOK'
  BY <1>0 DEF WriteTypeOK
<1>3. MemoryLost'
  BY DEF MemoryLost
<1>4. FetcherInv'
  BY ParametersAssumption DEF FetcherInv, IInv, TypeOK, FetchTypeOK
<1>5. ~Live'
  BY DEF Live
<1> QED
  BY <1>1, <1>2, <1>3, <1>4, <1>5
  DEF IInv, TypeOK, PipelineInv, DepthsInv, TipInv, UnsetFirstInv, FirstInv, ForkInv,
      LoseMemory

(* The database after a flush of the pending rows. *)
LEMMA FlushedLog ==
  ASSUME IInv, wpc = "flush"
  PROVE  LET new == RowsWritten
         IN /\ Live /\ proc # "down"
            /\ new \in SUBSET Rows
            /\ ConsistentLog(new)
            /\ LastHeight(new) = Top + Len(pending)
            /\ Top + Len(pending) \in Nat
            /\ Top + Len(pending) <= nodeHeight
            /\ cur = Top + Len(pending) /\ cur > 0
            /\ HardForkHeight # 0 => Top + Len(pending) <= HardForkHeight
<1>1. Live /\ proc # "down"
  BY DEF IInv, MemoryLost, Live
<1>2. /\ Top \in Nat /\ Len(pending) \in Nat /\ pending \in Seq(Rows)
      /\ block_log \in SUBSET Rows /\ RowsWritten \in SUBSET Rows
  BY <1>1, RowsWrittenType
<1>3. Written = Top + Len(pending)
  BY <1>2 DEF Written, InHand
<1>4. /\ pending # << >> /\ cur = Written /\ pending[Len(pending)].saved
      /\ \A i \in 1..Len(pending) : pending[i].height = Top + i
      /\ nextHeightToFetch = Written + Len(blocks) + 1
  BY <1>1 DEF IInv, PipelineInv
<1>5. \A i \in 1..Len(pending) : pending[i].saved =>
        pending[i].agg = RewardsUpTo(RowsWritten, pending[i].height)
  BY <1>1 DEF IInv, DepthsInv
<1>6. ConsistentLog(block_log)
  BY DEF IInv, DatabaseConsistent
<1>7. /\ ConsistentLog(RowsWritten)
      /\ LastHeight(RowsWritten) = Top + Len(pending)
  BY <1>2, <1>4, <1>5, <1>6, ExtendLog DEF Top, RowsWritten
<1>8. Top + Len(pending) \in Nat /\ Top + Len(pending) <= nodeHeight
  <2>1. nextHeightToFetch <= nodeHeight + 1 /\ Len(blocks) \in Nat /\ nodeHeight \in Nat
    BY ParametersAssumption DEF IInv, TypeOK, FetchTypeOK, FetcherInv
  <2> QED
    BY <1>2, <1>3, <1>4, <2>1
<1>9. HardForkHeight # 0 => Top + Len(pending) <= HardForkHeight
  BY <1>1, <1>3 DEF IInv, ForkInv
<1>10. cur > 0
  <2>1. Len(pending) > 0
    BY <1>2, <1>4
  <2> QED
    BY <1>2, <1>3, <1>4, <2>1
<1> QED
  BY <1>1, <1>2, <1>3, <1>4, <1>7, <1>8, <1>9, <1>10

(* A flush that the database accepts keeps the invariant. *)
LEMMA FlushInv ==
  ASSUME IInv, Flush
  PROVE  IInv'
<1> USE DEF Flush
<1>1. /\ Live /\ proc # "down" /\ cur = Top + Len(pending) /\ cur > 0
      /\ block_log' \in SUBSET Rows /\ ConsistentLog(block_log')
      /\ LastHeight(block_log') = cur /\ cur \in Nat /\ cur <= nodeHeight
      /\ HardForkHeight # 0 => cur <= HardForkHeight
  <2>1. block_log' = RowsWritten
    BY DEF RowsWritten
  <2> QED
    BY <2>1, FlushedLog
<1>2. Live' /\ Top' = cur /\ pending' = << >> /\ Len(pending') = 0
      /\ InHand' = 0 /\ Written' = cur
  BY <1>1 DEF Live, Top, InHand, Written
<1>3. FetchTypeOK' /\ FetcherInv' /\ (proc' = "down" => MemoryLost')
  BY <1>1, FetcherUntouched DEF IInv, TypeOK, FetchTypeOK
<1>4. WriteTypeOK'
  BY <1>1, <1>2 DEF IInv, TypeOK, WriteTypeOK, publishedVars
<1>5. DatabaseConsistent' /\ (Top \in Nat)'
  BY <1>1, <1>2 DEF DatabaseConsistent, nodeVars
<1>6. Written = cur /\ wpc' = "publish" /\ UNCHANGED <<blocks, fetchVars, synced, cur>>
  BY <1>1 DEF Written, InHand, IInv, TypeOK, WriteTypeOK
<1>7. PipelineInv'
  BY <1>1, <1>2, <1>6 DEF IInv, PipelineInv, fetchVars, retryVars
<1>8. DepthsInv'
  <2>1. RowSet(pending') = {}
    BY <1>2 DEF RowSet
  <2>2. RowsWritten' = RowsWritten /\ depths' = depths
    BY <2>1 DEF RowsWritten
  <2>3. depths = DepthsOf(RowsWritten)
    BY <1>1 DEF IInv, DepthsInv
  <2> QED
    BY <1>2, <2>2, <2>3 DEF DepthsInv
<1>9. TipInv'
  <2>1. Live => nextHeightToFetch = cur + Len(blocks) + 1 /\ LastFetchedBlock # 0
    <3>0. blocks \in Seq(Nat) /\ pending \in Seq(Rows) /\ pending # << >> /\ Top \in Nat
      <4>1. blocks \in Seq(Nat) /\ pending \in Seq(Rows) /\ Top \in Nat
        BY DEF IInv, TypeOK, FetchTypeOK, WriteTypeOK
      <4>2. pending # << >>
        BY <1>1 DEF IInv, PipelineInv
      <4> QED
        BY <4>1, <4>2
    <3>1. Len(blocks) \in Nat /\ Len(pending) > 0 /\ Len(pending) \in Nat
      BY <3>0
    <3>2. nextHeightToFetch = cur + Len(blocks) + 1
      BY <1>1, <1>6 DEF IInv, PipelineInv
    <3> QED
      BY <1>1, <3>0, <3>1, <3>2 DEF IInv, TipInv
  <2> QED
    BY <1>1, <1>2, <1>6, <2>1 DEF IInv, TipInv, fetchVars, publishedVars
<1>10. FirstInv'
  <2>1. FirstBlock = 0 => cur = 1
    <3>1. FirstBlock = 0 => Len(pending) = 1 /\ Top = 0
      BY <1>1 DEF IInv, FirstInv
    <3>2. cur = Top + Len(pending)
      BY <1>1
    <3> QED
      BY ONLY <3>1, <3>2
  <2>2. FirstBlock' = FirstBlock /\ FirstBlock \in {0, 1}
    BY <1>1 DEF IInv, FirstInv, publishedVars
  <2> QED
    BY <1>2, <1>6, <2>1, <2>2 DEF FirstInv
<1>11. ForkInv'
  BY <1>1, <1>2 DEF ForkInv
<1>12. UnsetFirstInv'
  BY <1>1, <1>2 DEF IInv, UnsetFirstInv, publishedVars
<1> QED
  BY <1>12, <1>3, <1>4, <1>5, <1>7, <1>8, <1>9, <1>10, <1>11 DEF IInv, TypeOK

(* Taking a block from the channel keeps the invariant. *)
LEMMA TakeBlockInv ==
  ASSUME IInv, TakeBlock
  PROVE  IInv'
<1> USE DEF TakeBlock
<1>1. /\ Live /\ proc' = proc /\ proc \in {"up", "stopping"} /\ wpc = "select"
      /\ blocks \in Seq(Nat) /\ blocks # << >> /\ blocks' = Tail(blocks)
      /\ cur' \in {0, Head(blocks)} /\ wpc' \in {"process", "forkwait"}
      /\ wpc' = "process" => cur' = Head(blocks)
      /\ pending \in Seq(Rows) /\ Top \in Nat
  BY DEF Live, IInv, TypeOK, FetchTypeOK, WriteTypeOK
<1>2. /\ Len(blocks) \in Nat /\ Len(blocks) > 0 /\ Head(blocks) = blocks[1]
      /\ Head(blocks) \in Nat /\ blocks' \in Seq(Nat) /\ Len(blocks') = Len(blocks) - 1
      /\ \A i \in 1..Len(blocks') : blocks'[i] = blocks[i + 1]
  BY <1>1, TailOfSeq
<1>3. Len(pending) \in Nat /\ Len(blocks) <= FetchBatchSize
  BY <1>1 DEF IInv, TypeOK, FetchTypeOK
<1>4. FetchTypeOK' /\ FetcherInv' /\ (proc' = "down" => MemoryLost')
  <2>1. faults' \in 0..MaxFaults /\ Len(blocks') <= FetchBatchSize
    BY <1>2, <1>3, ParametersAssumption DEF IInv, TypeOK, FetchTypeOK
  <2> QED
    BY <1>1, <1>2, <2>1, FetcherUntouched
<1>5. WriteTypeOK'
  BY <1>1, <1>2 DEF IInv, TypeOK, WriteTypeOK, publishedVars, dbVars
<1>6. Top' = Top /\ (Top \in Nat)' /\ DatabaseConsistent'
  BY DatabaseUntouched DEF dbVars, nodeVars
<1>7. Written = Top + Len(pending) /\ blocks[1] = Written + 1
      /\ \A i \in 1..Len(blocks) : blocks[i] = Written + i
      /\ nextHeightToFetch = Written + Len(blocks) + 1
  <2>1. \A i \in 1..Len(blocks) : blocks[i] = Written + i
    BY <1>1 DEF IInv, PipelineInv
  <2>2. Written = Top + Len(pending) /\ nextHeightToFetch = Written + Len(blocks) + 1
    BY <1>1, <1>3 DEF Written, InHand, IInv, PipelineInv
  <2> QED
    BY <1>2, <2>1, <2>2
<1>u. UnsetFirstInv'
  BY <1>1, <1>6 DEF IInv, UnsetFirstInv, publishedVars
<1>8. CASE wpc' = "forkwait"
  <2>1. ~Live'
    BY <1>8 DEF Live
  <2>2. ForkInv'
    BY <1>6, <2>1 DEF IInv, ForkInv
  <2> QED
    BY <1>4, <1>5, <1>6, <1>u, <2>1, <2>2 DEF IInv, TypeOK, PipelineInv, DepthsInv, TipInv, FirstInv
<1>9. CASE wpc' = "process"
  <2> HIDE DEF TakeBlock
  <2>0. /\ UNCHANGED <<fetchVars, synced, pending, depths, inserter, publishedVars, dbVars>>
        /\ HardForkHeight # 0 => Head(blocks) <= HardForkHeight
    <3>1. UNCHANGED <<fetchVars, synced, pending, depths, inserter, publishedVars, dbVars>>
      BY DEF TakeBlock
    <3>2. ~(HardForkHeight # 0 /\ HardForkHeight < Head(blocks))
      BY <1>9 DEF TakeBlock
    <3> QED
      BY <1>2, <3>1, <3>2, ParametersAssumption
  <2>1. Live' /\ Written' = Written + 1 /\ cur' = Written + 1 /\ Written \in Nat
    BY <1>1, <1>2, <1>3, <1>6, <1>7, <1>9, <2>0 DEF Live, Written, InHand
  <2>2. PipelineInv'
    <3>1. \A i \in 1..Len(blocks') : blocks'[i] = Written' + i
      <4> TAKE i \in 1..Len(blocks')
      <4>1. i + 1 \in 1..Len(blocks) /\ i \in Nat
        BY <1>2
      <4> QED
        BY <1>2, <1>7, <2>1, <4>1, SMTT(30)
    <3>2. nextHeightToFetch' = Written' + Len(blocks') + 1
      <4>1. nextHeightToFetch' = nextHeightToFetch
        BY <2>0 DEF fetchVars, retryVars
      <4>2. Written + Len(blocks) + 1 = Written + 1 + Len(blocks') + 1
        BY <1>2, <2>1
      <4> QED
        BY <1>7, <2>1, <4>1, <4>2
    <3>3. \A i \in 1..Len(pending') : pending'[i].height = Top' + i
      BY <1>1, <1>6, <2>0 DEF IInv, PipelineInv
    <3>4. inserter' = "immediate" => pending' = << >>
      BY <1>1, <2>0 DEF IInv, PipelineInv
    <3> QED
      BY <1>9, <2>1, <3>1, <3>2, <3>3, <3>4 DEF PipelineInv
  <2>3. DepthsInv'
    <3>1. RowsWritten' = RowsWritten
      BY <2>0 DEF RowsWritten, dbVars
    <3> QED
      BY <1>1, <2>0, <3>1 DEF IInv, DepthsInv
  <2>4. TipInv'
    <3>1. nextHeightToFetch' # Top' + 1 /\ LastFetchedBlock' # 0
      BY <1>1, <1>2, <1>3, <1>6, <1>7, <2>0 DEF IInv, TipInv, fetchVars, retryVars
    <3> QED
      BY <1>1, <1>6, <1>9, <2>0, <3>1 DEF IInv, TipInv, fetchVars, publishedVars
  <2>5. FirstInv'
    BY <1>1, <1>6, <1>9, <2>0 DEF IInv, FirstInv, publishedVars
  <2>6. ForkInv'
    BY <1>2, <1>6, <1>7, <2>0, <2>1 DEF IInv, ForkInv
  <2> QED
    BY <1>4, <1>5, <1>6, <1>u, <2>2, <2>3, <2>4, <2>5, <2>6 DEF IInv, TypeOK
<1> QED
  BY <1>1, <1>8, <1>9

(* The row of the block in hand extends the rows written so far. *)
LEMMA RowInHand ==
  ASSUME IInv, wpc = "process",
         NEW row, row = BlockRow(DepthsAfter, RewardsAccepted),
         NEW new, \A r : r \in new <=> (r \in RowsWritten \/ r = row)
  PROVE  /\ Live /\ proc # "down"
         /\ row \in Rows /\ row.height = cur /\ row.saved = SavesState
         /\ Top \in Nat /\ Len(pending) \in Nat
         /\ cur = Top + Len(pending) + 1 /\ cur \in Nat /\ cur <= nodeHeight
         /\ DepthsAfter = DepthsOf(new) /\ DepthsAfter \in SUBSET Nat
         /\ row.saved => row.agg = RewardsUpTo(new, cur)
         /\ \A h \in Nat : h < cur => RewardsUpTo(new, h) = RewardsUpTo(RowsWritten, h)
<1>1. Live /\ proc # "down"
  BY DEF IInv, MemoryLost, Live
<1>2. /\ Top \in Nat /\ Len(pending) \in Nat /\ RowsWritten \in SUBSET Rows
      /\ \A r \in RowsWritten : r.height \in Nat /\ r.height <= Top + Len(pending)
  BY <1>1, RowsWrittenType
<1>3. cur = Top + Len(pending) + 1 /\ nextHeightToFetch = cur + Len(blocks) + 1
  BY <1>1, <1>2 DEF IInv, PipelineInv, Written, InHand
<1>4. cur \in Nat /\ cur <= nodeHeight
  <2>1. Len(blocks) \in Nat /\ nextHeightToFetch <= nodeHeight + 1 /\ nodeHeight \in Nat
    BY ParametersAssumption DEF IInv, TypeOK, FetchTypeOK, FetcherInv
  <2> QED
    BY <1>2, <1>3, <2>1
<1>5. DepthsAfter \in SUBSET Nat /\ RewardsAccepted \in BOOLEAN /\ SavesState \in BOOLEAN
  <2>1. RewardsAccepted \in BOOLEAN
    BY DEF RewardsAccepted
  <2>2. SavesState \in BOOLEAN
    BY DEF SavesState
  <2>3. depths \in SUBSET Nat
    BY DEF IInv, TypeOK, WriteTypeOK
  <2>4. DepthsAfter \in SUBSET Nat
    BY <1>4, <2>3 DEF DepthsAfter
  <2> QED
    BY <2>1, <2>2, <2>4
<1>6. /\ row \in Rows /\ row.height = cur /\ row.saved = SavesState
      /\ row.rewards = RewardsAccepted /\ (SavesState => row.agg = DepthsAfter)
  <2> DEFINE agg == IF SavesState THEN DepthsAfter ELSE {}
  <2>1. row = [height |-> cur, saved |-> SavesState, agg |-> agg, rewards |-> RewardsAccepted]
    BY DEF BlockRow
  <2>2. agg \in SUBSET Nat /\ (SavesState => agg = DepthsAfter)
    BY <1>5
  <2> HIDE DEF agg
  <2> QED
    BY <1>4, <1>5, <2>1, <2>2 DEF Rows
<1>7. \A r \in RowsWritten : r.height < row.height
  BY <1>2, <1>3, <1>6
<1>8. /\ DepthsOf(new) = DepthsOf(RowsWritten) \cup (IF row.rewards THEN {row.height} ELSE {})
      /\ RewardsUpTo(new, row.height) = DepthsOf(new)
      /\ \A h \in Nat : h < row.height => RewardsUpTo(new, h) = RewardsUpTo(RowsWritten, h)
  BY <1>2, <1>6, <1>7, DepthsWithRow, ZenonT(40)
<1>9. DepthsAfter = DepthsOf(new)
  <2>1. depths = DepthsOf(RowsWritten)
    BY <1>1 DEF IInv, DepthsInv
  <2> QED
    BY <1>6, <1>8, <2>1 DEF DepthsAfter
<1> QED
  BY <1>1, <1>2, <1>3, <1>4, <1>5, <1>6, <1>8, <1>9

(* Processing a block into the batch keeps the invariant. *)
LEMMA ProcessBatchedInv ==
  ASSUME IInv, ProcessBatched
  PROVE  IInv'
<1> DEFINE row == BlockRow(DepthsAfter, RewardsAccepted)
<1>1. /\ wpc = "process" /\ inserter = "batch" /\ depths' = DepthsAfter
      /\ pending' = Append(pending, row)
      /\ UNCHANGED <<proc, faults, nodeVars, blocks, fetchVars, inserter, publishedVars, dbVars>>
      /\ \/ SavesState /\ wpc' = "flush" /\ synced' = IsSynced /\ cur' = cur
         \/ ~SavesState /\ wpc' = AfterBlock(cur) /\ cur' = 0 /\ synced' = FALSE
  BY DEF ProcessBatched, BlockDone
<1> HIDE DEF row
<1>2. pending \in Seq(Rows)
  BY DEF IInv, TypeOK, WriteTypeOK
<1>3. row \in Rows
  <2>1. \A r : r \in RowsWritten \cup {row} <=> (r \in RowsWritten \/ r = row)
    OBVIOUS
  <2> QED
    BY <1>1, <2>1, RowInHand DEF row
<1>4. /\ pending' \in Seq(Rows) /\ Len(pending') = Len(pending) + 1
      /\ \A i \in 1..Len(pending) : pending'[i] = pending[i]
      /\ pending'[Len(pending) + 1] = row /\ pending' # << >>
  BY <1>1, <1>2, <1>3, AppendToSeq
<1>5. \A r : r \in RowsWritten' <=> (r \in RowsWritten \/ r = row)
  BY <1>1, <1>2, <1>3, RowSetOfAppend DEF RowsWritten, dbVars
<1>6. /\ Live /\ proc # "down"
      /\ row.height = cur /\ row.saved = SavesState
      /\ Top \in Nat /\ Len(pending) \in Nat
      /\ cur = Top + Len(pending) + 1 /\ cur \in Nat /\ cur <= nodeHeight
      /\ DepthsAfter = DepthsOf(RowsWritten') /\ DepthsAfter \in SUBSET Nat
      /\ row.saved => row.agg = RewardsUpTo(RowsWritten', cur)
      /\ \A h \in Nat : h < cur => RewardsUpTo(RowsWritten', h) = RewardsUpTo(RowsWritten, h)
  BY <1>1, <1>5, RowInHand, SMTT(30) DEF row
<1>7. wpc' \in {"flush", "select", "forkwait", "done"} /\ (Live' => wpc' \in {"flush", "select"})
  BY <1>1 DEF AfterBlock, Live
<1>8. /\ Top' = Top /\ (Top \in Nat)' /\ DatabaseConsistent'
      /\ Written' = cur /\ Written = cur
  <2>1. Top' = Top /\ (Top \in Nat)' /\ DatabaseConsistent'
    BY <1>1, DatabaseUntouched DEF dbVars, nodeVars
  <2>2. InHand' = 0 /\ InHand = 1
    BY <1>1, <1>7 DEF InHand
  <2> QED
    BY <1>4, <1>6, <2>1, <2>2 DEF Written
<1>9. FetchTypeOK' /\ FetcherInv' /\ (proc' = "down" => MemoryLost')
  BY <1>1, <1>6, FetcherUntouched DEF IInv, TypeOK, FetchTypeOK
<1>10. WriteTypeOK'
  <2>1. cur' \in Nat /\ synced' \in BOOLEAN /\ depths' \in SUBSET Nat
    <3>1. synced' \in BOOLEAN
      <4>1. IsSynced \in BOOLEAN
        BY DEF IsSynced
      <4> QED
        BY <1>1, <4>1, Zenon
    <3>2. cur' \in Nat
      BY <1>1, <1>6
    <3>3. depths' \in SUBSET Nat
      BY <1>1, <1>6
    <3> QED
      BY <3>1, <3>2, <3>3
  <2> QED
    BY <1>1, <1>4, <1>7, <2>1 DEF IInv, TypeOK, WriteTypeOK, publishedVars, dbVars
<1>11. PipelineInv'
  <2>1. ASSUME NEW i \in 1..Len(pending') PROVE pending'[i].height = Top' + i
    <3>1. i \in 1..Len(pending) \/ i = Len(pending) + 1
      BY <1>4, <1>6
    <3>2. CASE i \in 1..Len(pending)
      BY <1>4, <1>6, <1>8, <3>2 DEF IInv, PipelineInv
    <3>3. CASE i = Len(pending) + 1
      BY <1>4, <1>6, <1>8, <3>3
    <3> QED
      BY <3>1, <3>2, <3>3
  <2>2. /\ \A i \in 1..Len(blocks') : blocks'[i] = Written' + i
        /\ nextHeightToFetch' = Written' + Len(blocks') + 1
    BY <1>1, <1>6, <1>8 DEF IInv, PipelineInv, fetchVars, retryVars
  <2>3. wpc' = "flush" => cur' = Written' /\ pending'[Len(pending')].saved
    <3>1. wpc' = "flush" => SavesState /\ cur' = cur
      BY <1>1 DEF AfterBlock
    <3> QED
      BY <1>4, <1>6, <1>8, <3>1
  <2> QED
    BY <1>1, <1>4, <1>7, <2>1, <2>2, <2>3 DEF PipelineInv
<1>12. DepthsInv'
  <2>1. ASSUME NEW i \in 1..Len(pending'), pending'[i].saved
        PROVE  pending'[i].agg = RewardsUpTo(RowsWritten', pending'[i].height)
    <3>1. i \in 1..Len(pending) \/ i = Len(pending) + 1
      BY <1>4, <1>6
    <3>2. CASE i \in 1..Len(pending)
      <4>1. pending[i].height = Top + i /\ pending[i].height \in Nat /\ pending[i].height < cur
        BY <1>6, <3>2 DEF IInv, PipelineInv
      <4>2. pending[i].agg = RewardsUpTo(RowsWritten, pending[i].height)
        BY <1>4, <1>6, <2>1, <3>2 DEF IInv, DepthsInv
      <4> QED
        BY <1>4, <1>6, <3>2, <4>1, <4>2
    <3>3. CASE i = Len(pending) + 1
      BY <1>4, <1>6, <2>1, <3>3
    <3> QED
      BY <3>1, <3>2, <3>3
  <2> QED
    BY <1>1, <1>6, <2>1 DEF DepthsInv
<1>13. ~SavesState => cur + 1 < LastThorNodeBlock
  BY <1>6 DEF SavesState, Commit, IsSynced, IInv, TypeOK, FetchTypeOK
<1>14. TipInv'
  <2>1. nextHeightToFetch' # Top' + 1 /\ LastFetchedBlock' # 0
    <3>1. nextHeightToFetch = cur + Len(blocks) + 1 /\ Len(blocks) \in Nat
      BY <1>6, <1>8 DEF IInv, PipelineInv, TypeOK, FetchTypeOK
    <3> QED
      BY <1>1, <1>6, <1>8, <3>1 DEF IInv, TipInv, fetchVars, retryVars
  <2>2. wpc' # "flush" => Top' + Len(pending') + 1 < LastThorNodeBlock'
    BY <1>1, <1>4, <1>6, <1>8, <1>13 DEF fetchVars
  <2>3. wpc' = "flush" /\ ~synced' => cur' + 1 < LastThorNodeBlock'
    <3>1. wpc' = "flush" => (synced' <=> LastThorNodeBlock <= cur + 1) /\ cur' = cur
      BY <1>1 DEF AfterBlock, IsSynced
    <3>2. LastThorNodeBlock' = LastThorNodeBlock /\ LastThorNodeBlock \in Nat
      BY <1>1 DEF fetchVars, IInv, TypeOK, FetchTypeOK
    <3> QED
      BY <1>6, <3>1, <3>2
  <2>4. LastCommittedBlock' = Top'
    BY <1>1, <1>6, <1>8 DEF IInv, TipInv, publishedVars
  <2> QED
    BY <1>7, <2>1, <2>2, <2>3, <2>4 DEF TipInv
<1>15. FirstInv' /\ UnsetFirstInv'
  <2>1. FirstBlock' = FirstBlock /\ FirstBlock \in {0, 1} /\ (Top # 0 => FirstBlock = 1)
    BY <1>1, <1>6 DEF IInv, FirstInv, publishedVars
  <2>2. FirstBlock = 0 => wpc' = "flush" /\ Len(pending') = 1
    <3>1. FirstBlock = 0 => pending = << >> /\ SavesState
      BY <1>1, <1>6 DEF IInv, UnsetFirstInv, SavesState, ThisIsTheFirstBlock
    <3> QED
      BY <1>1, <1>4, <3>1
  <2>3. UnsetFirstInv'
    <3> SUFFICES ASSUME FirstBlock' = 0
                 PROVE  Top' + Len(pending') <= 1 /\ wpc' = "flush"
      BY DEF UnsetFirstInv
    <3>1. Top' = 0 /\ Len(pending') = 1 /\ wpc' = "flush"
      BY <1>8, <2>1, <2>2
    <3> HIDE DEF Top
    <3> QED
      BY <3>1
  <2> QED
    BY <1>7, <1>8, <2>1, <2>2, <2>3 DEF FirstInv
<1>16. ForkInv'
  BY <1>6, <1>8 DEF IInv, ForkInv
<1> QED
  BY <1>8, <1>9, <1>10, <1>11, <1>12, <1>14, <1>15, <1>16 DEF IInv, TypeOK

(* The block's transaction: the row of the block in hand joins block_log. *)
LEMMA ImmediateRow ==
  ASSUME IInv, wpc = "process", inserter = "immediate",
         NEW row, row = BlockRow(DepthsAfter, RewardsAccepted)
  PROVE  /\ block_log \cup {row} \in SUBSET Rows
         /\ ConsistentLog(block_log \cup {row})
         /\ LastHeight(block_log \cup {row}) = cur
         /\ DepthsAfter = DepthsOf(block_log \cup {row})
         /\ DepthsAfter \in SUBSET Nat
         /\ Live /\ proc # "down" /\ pending = << >>
         /\ cur = Top + 1 /\ Written = cur /\ cur \in Nat /\ cur <= nodeHeight /\ Top \in Nat
<1> DEFINE new == block_log \cup {row}
<1>1. Live /\ pending = << >> /\ Len(pending) = 0
  BY DEF IInv, PipelineInv, MemoryLost, Live
<1>2. RowsWritten = block_log
  BY <1>1 DEF RowsWritten, RowSet
<1>3. \A r : r \in new <=> (r \in RowsWritten \/ r = row)
  BY <1>2
<1> HIDE DEF new
<1>4. /\ proc # "down" /\ row \in Rows /\ row.height = cur /\ row.saved = SavesState
      /\ Top \in Nat /\ cur = Top + 1 /\ cur \in Nat /\ cur <= nodeHeight
      /\ DepthsAfter = DepthsOf(new) /\ DepthsAfter \in SUBSET Nat
      /\ row.saved => row.agg = RewardsUpTo(new, cur)
  <2> HIDE DEF Top
  <2>1. /\ proc # "down" /\ row \in Rows /\ row.height = cur /\ row.saved = SavesState
        /\ Top \in Nat /\ cur = Top + Len(pending) + 1 /\ cur \in Nat /\ cur <= nodeHeight
        /\ DepthsAfter = DepthsOf(new) /\ DepthsAfter \in SUBSET Nat
        /\ row.saved => row.agg = RewardsUpTo(new, cur)
    BY <1>3, RowInHand
  <2> QED
    BY <1>1, <2>1
<1>5. SavesState
  BY DEF SavesState, Commit
<1> DEFINE s == <<row>>
<1>6. /\ s \in Seq(Rows) /\ s # << >> /\ Len(s) = 1 /\ s[1] = row
      /\ 1..Len(s) = {1} /\ RowSet(s) = {row}
  BY <1>4 DEF RowSet
<1>7. block_log \cup RowSet(s) = new
  BY <1>6 DEF new
<1>8. /\ \A i \in 1..Len(s) : s[i].height = LastHeight(block_log) + i
      /\ s[Len(s)].saved
      /\ \A i \in 1..Len(s) : s[i].saved => s[i].agg = RewardsUpTo(new, s[i].height)
  BY <1>4, <1>5, <1>6 DEF Top
<1> HIDE DEF s
<1>9. ConsistentLog(new) /\ LastHeight(new) = LastHeight(block_log) + Len(s)
  <2>1. block_log \in SUBSET Rows /\ ConsistentLog(block_log) /\ LastHeight(block_log) \in Nat
    BY <1>4 DEF IInv, TypeOK, WriteTypeOK, DatabaseConsistent, Top
  <2> QED
    BY <1>6, <1>7, <1>8, <2>1, ExtendLog
<1>10. new \in SUBSET Rows
  BY <1>4 DEF new, IInv, TypeOK, WriteTypeOK
<1>11. Written = cur
  BY <1>1, <1>4 DEF Written, InHand
<1> QED
  BY <1>1, <1>4, <1>6, <1>9, <1>10, <1>11 DEF new, Top

(* Processing and committing a block at once keeps the invariant. *)
LEMMA ProcessImmediateInv ==
  ASSUME IInv, ProcessImmediate
  PROVE  IInv'
<1> DEFINE row == BlockRow(DepthsAfter, RewardsAccepted)
<1>1. /\ wpc = "process" /\ inserter = "immediate" /\ wpc' = "publish"
      /\ depths' = DepthsAfter /\ block_log' = block_log \cup {row} /\ synced' = IsSynced
      /\ UNCHANGED <<proc, faults, nodeVars, blocks, fetchVars, cur, pending, inserter,
                     publishedVars, marked>>
  BY DEF ProcessImmediate
<1> HIDE DEF row
<1>2. /\ block_log' \in SUBSET Rows /\ ConsistentLog(block_log')
      /\ LastHeight(block_log') = cur
      /\ DepthsAfter = DepthsOf(block_log') /\ DepthsAfter \in SUBSET Nat
      /\ Live /\ proc # "down" /\ pending = << >>
      /\ cur = Top + 1 /\ Written = cur /\ cur \in Nat /\ cur <= nodeHeight /\ Top \in Nat
  BY <1>1, ImmediateRow DEF row
<1>3. Live' /\ Top' = cur /\ pending' = << >> /\ Len(pending') = 0 /\ InHand' = 0
      /\ Written' = cur /\ RowsWritten' = block_log'
  BY <1>1, <1>2 DEF Live, Top, InHand, Written, RowsWritten, RowSet
<1>4. FetchTypeOK' /\ FetcherInv' /\ (proc' = "down" => MemoryLost')
  BY <1>1, <1>2, FetcherUntouched DEF IInv, TypeOK, FetchTypeOK
<1>5. WriteTypeOK'
  <2>1. synced' \in BOOLEAN
    BY <1>1 DEF IsSynced
  <2> QED
    BY <1>1, <1>2, <1>3, <2>1 DEF IInv, TypeOK, WriteTypeOK, publishedVars
<1>6. DatabaseConsistent' /\ (Top \in Nat)'
  BY <1>1, <1>2, <1>3 DEF DatabaseConsistent, nodeVars
<1>7. PipelineInv'
  BY <1>1, <1>2, <1>3 DEF IInv, PipelineInv, fetchVars, retryVars
<1>8. DepthsInv'
  BY <1>1, <1>2, <1>3 DEF DepthsInv
<1>9. TipInv'
  <2>1. nextHeightToFetch = cur + Len(blocks) + 1 /\ Len(blocks) \in Nat
    BY <1>2 DEF IInv, PipelineInv, TypeOK, FetchTypeOK
  <2>2. LastFetchedBlock' # 0
    BY <1>1, <1>2, <2>1 DEF IInv, TipInv, fetchVars
  <2>3. ~synced' => cur' + 1 < LastThorNodeBlock'
    <3>1. synced' <=> LastThorNodeBlock <= cur + 1
      BY <1>1 DEF IsSynced
    <3> QED
      BY <1>1, <1>2, <3>1 DEF IInv, TypeOK, FetchTypeOK, fetchVars
  <2> QED
    BY <1>1, <1>3, <2>2, <2>3 DEF TipInv
<1>10. FirstInv' /\ UnsetFirstInv'
  <2>1. FirstBlock' = FirstBlock /\ FirstBlock \in {0, 1} /\ (Top # 0 => FirstBlock = 1)
    BY <1>1, <1>2 DEF IInv, FirstInv, publishedVars
  <2>2. UnsetFirstInv'
    BY <1>2, <1>3, <2>1 DEF UnsetFirstInv
  <2>3. FirstBlock = 0 => cur' = 1
    BY <1>1, <1>2, <2>1
  <2> QED
    BY <1>1, <1>3, <2>1, <2>2, <2>3 DEF FirstInv
<1>11. ForkInv'
  BY <1>2, <1>3 DEF IInv, ForkInv
<1> QED
  BY <1>4, <1>5, <1>6, <1>7, <1>8, <1>9, <1>10, <1>11 DEF IInv, TypeOK

(* A failed transaction of one block keeps the invariant. *)
LEMMA ImmediateFailsInv ==
  ASSUME IInv, ImmediateFails
  PROVE  IInv'
<1> DEFINE row == BlockRow(DepthsAfter, RewardsAccepted)
<1>1. /\ wpc = "process" /\ inserter = "immediate" /\ wpc' = "done" /\ proc' = "stopping"
      /\ depths' \in {depths, DepthsAfter} /\ block_log' \in {block_log, block_log \cup {row}}
      /\ UNCHANGED <<nodeVars, blocks, fetchVars, cur, synced, pending, inserter,
                     publishedVars, marked>>
  BY DEF ImmediateFails
<1>2. faults' \in 0..MaxFaults
  BY ParametersAssumption DEF ImmediateFails, Fault, IInv, TypeOK, FetchTypeOK
<1> HIDE DEF row
<1>3. /\ block_log \cup {row} \in SUBSET Rows /\ ConsistentLog(block_log \cup {row})
      /\ LastHeight(block_log \cup {row}) = cur
      /\ DepthsAfter \in SUBSET Nat
      /\ Live /\ proc # "down" /\ pending = << >>
      /\ cur = Top + 1 /\ Written = cur /\ cur \in Nat /\ cur <= nodeHeight /\ Top \in Nat
  BY <1>1, ImmediateRow DEF row
<1>4. /\ block_log' \in SUBSET Rows /\ ConsistentLog(block_log')
      /\ (Top' = Top \/ Top' = cur) /\ Top' \in Nat /\ Top' <= nodeHeight
  <2>1. /\ block_log \in SUBSET Rows /\ ConsistentLog(block_log) /\ Top <= nodeHeight
    BY DEF IInv, TypeOK, WriteTypeOK, DatabaseConsistent, Top
  <2> QED
    BY <1>1, <1>3, <2>1 DEF Top
<1>5. DatabaseConsistent' /\ (Top \in Nat)'
  BY <1>1, <1>4 DEF DatabaseConsistent, nodeVars, Top
<1>6. FetchTypeOK' /\ FetcherInv' /\ (proc' = "down" => MemoryLost')
  BY <1>1, <1>2, FetcherUntouched DEF IInv, TypeOK, FetchTypeOK
<1>7. WriteTypeOK'
  BY <1>1, <1>3, <1>4 DEF IInv, TypeOK, WriteTypeOK, publishedVars
<1>8. ~Live'
  BY <1>1 DEF Live
<1>9. ForkInv'
  BY <1>3, <1>4, <1>8 DEF IInv, ForkInv
<1>10. UnsetFirstInv'
  <2>1. FirstBlock' = 0 => Top = 0
    BY <1>1, <1>3 DEF IInv, FirstInv, publishedVars
  <2>2. pending' = << >> /\ Len(pending') = 0
    BY <1>1, <1>3
  <2> QED
    <3>1. FirstBlock' = 0 => Top' + Len(pending') <= 1
      <4>1. FirstBlock' = 0 => Top' \in {0, 1}
        BY <1>3, <1>4, <2>1
      <4> QED
        BY <2>2, <4>1
    <3> QED
      BY <2>2, <3>1 DEF UnsetFirstInv
<1> QED
  BY <1>10, <1>5, <1>6, <1>7, <1>8, <1>9
  DEF IInv, TypeOK, PipelineInv, DepthsInv, TipInv, FirstInv

(* Publishing the committed height keeps the invariant. *)
LEMMA SetLastBlockInv ==
  ASSUME IInv, SetLastBlock
  PROVE  IInv'
<1>1. /\ wpc = "publish" /\ wpc' = "first" /\ LastCommittedBlock' = cur
      /\ UNCHANGED <<proc, faults, nodeVars, blocks, fetchVars, cur, synced, pending, depths,
                     inserter, FirstBlock, refreshRequest, refreshedTo, dbVars>>
  BY DEF SetLastBlock
<1>2. Live /\ Live' /\ Publishing /\ Publishing' /\ cur = Top /\ pending = << >> /\ cur \in Nat
  BY <1>1 DEF IInv, MemoryLost, Live, Publishing, PipelineInv, TypeOK, WriteTypeOK
<1>3. Top' = Top /\ (Top \in Nat)' /\ DatabaseConsistent'
  BY <1>1, DatabaseUntouched DEF dbVars, nodeVars
<1>4. Written' = Written /\ RowsWritten' = RowsWritten
  BY <1>1, <1>3 DEF Written, InHand, RowsWritten, dbVars
<1>5. FetchTypeOK' /\ FetcherInv' /\ (proc' = "down" => MemoryLost')
  BY <1>1, <1>2, FetcherUntouched DEF IInv, TypeOK, FetchTypeOK, Live
<1>6. WriteTypeOK'
  BY <1>1, <1>2 DEF IInv, TypeOK, WriteTypeOK, dbVars
<1>7. PipelineInv'
  BY <1>1, <1>2, <1>3, <1>4 DEF IInv, PipelineInv, fetchVars, retryVars
<1>8. DepthsInv'
  BY <1>1, <1>2, <1>4 DEF IInv, DepthsInv
<1>9. TipInv'
  BY <1>1, <1>2, <1>3 DEF IInv, TipInv, fetchVars, retryVars
<1>10. FirstInv' /\ UnsetFirstInv' /\ ForkInv'
  BY <1>1, <1>2, <1>3, <1>4 DEF IInv, FirstInv, UnsetFirstInv, ForkInv
<1> QED
  BY <1>3, <1>5, <1>6, <1>7, <1>8, <1>9, <1>10 DEF IInv, TypeOK

(* Publishing the first block keeps the invariant. *)
LEMMA SetFirstBlockInv ==
  ASSUME IInv, SetAndCheckFirstBlock
  PROVE  IInv'
<1>1. /\ wpc = "first" /\ wpc' = "request"
      /\ FirstBlock' = IF ThisIsTheFirstBlock THEN cur ELSE FirstBlock
      /\ UNCHANGED <<proc, faults, nodeVars, blocks, fetchVars, cur, synced, pending, depths,
                     inserter, LastCommittedBlock, refreshRequest, refreshedTo, dbVars>>
  BY DEF SetAndCheckFirstBlock
<1>2. /\ Live /\ Live' /\ Publishing /\ Publishing'
      /\ cur = Top /\ cur > 0 /\ pending = << >> /\ cur \in Nat
  BY <1>1 DEF IInv, MemoryLost, Live, Publishing, PipelineInv, TypeOK, WriteTypeOK
<1>3. Top' = Top /\ (Top \in Nat)' /\ DatabaseConsistent'
  BY <1>1, DatabaseUntouched DEF dbVars, nodeVars
<1>4. Written' = Written /\ RowsWritten' = RowsWritten
  BY <1>1, <1>3 DEF Written, InHand, RowsWritten, dbVars
<1>5. FirstBlock' = 1
  BY <1>1, <1>2 DEF IInv, FirstInv, ThisIsTheFirstBlock
<1>6. FetchTypeOK' /\ FetcherInv' /\ (proc' = "down" => MemoryLost')
  BY <1>1, <1>2, FetcherUntouched DEF IInv, TypeOK, FetchTypeOK, Live
<1>7. WriteTypeOK'
  BY <1>1, <1>2, <1>5 DEF IInv, TypeOK, WriteTypeOK, dbVars
<1>8. PipelineInv'
  BY <1>1, <1>2, <1>3, <1>4 DEF IInv, PipelineInv, fetchVars, retryVars
<1>9. DepthsInv'
  BY <1>1, <1>2, <1>4 DEF IInv, DepthsInv
<1>10. TipInv'
  BY <1>1, <1>2, <1>3 DEF IInv, TipInv, fetchVars, retryVars
<1>11. FirstInv' /\ UnsetFirstInv' /\ ForkInv'
  BY <1>2, <1>3, <1>4, <1>5 DEF IInv, FirstInv, UnsetFirstInv, ForkInv
<1> QED
  BY <1>3, <1>6, <1>7, <1>8, <1>9, <1>10, <1>11 DEF IInv, TypeOK

(* Asking for a refresh, and the end of the block, keep the invariant. *)
LEMMA RequestInv ==
  ASSUME IInv, RequestAggregatesRefresh
  PROVE  IInv'
<1>1. /\ wpc = "request" /\ wpc' = AfterBlock(cur) /\ cur' = 0 /\ synced' = FALSE
      /\ refreshRequest' = (refreshRequest \/ synced)
      /\ UNCHANGED <<proc, faults, nodeVars, blocks, fetchVars, pending, depths, inserter,
                     LastCommittedBlock, FirstBlock, refreshedTo, dbVars>>
  BY DEF RequestAggregatesRefresh, BlockDone
<1>2. Live /\ Publishing /\ proc # "down"
  BY <1>1 DEF IInv, MemoryLost, Live, Publishing
<1>3. /\ pending = << >> /\ Len(pending) = 0 /\ cur = Top /\ cur > 0 /\ cur \in Nat
      /\ refreshRequest \in BOOLEAN /\ synced \in BOOLEAN
  BY <1>1, <1>2 DEF IInv, PipelineInv, TypeOK, WriteTypeOK
<1>4. wpc' \in {"select", "forkwait", "done"} /\ (Live' => wpc' = "select")
  BY <1>1 DEF AfterBlock, Live
<1>5. Top' = Top /\ (Top \in Nat)' /\ DatabaseConsistent'
  BY <1>1, DatabaseUntouched DEF dbVars, nodeVars
<1>6. Written' = Top /\ Written = Top
  BY <1>1, <1>3, <1>4, <1>5 DEF Written, InHand
<1>7. FetchTypeOK' /\ FetcherInv' /\ (proc' = "down" => MemoryLost')
  BY <1>1, <1>2, FetcherUntouched DEF IInv, TypeOK, FetchTypeOK
<1>8. WriteTypeOK'
  <2>1. refreshRequest' \in BOOLEAN
    BY <1>1
  <2> QED
    BY <1>1, <1>3, <1>4, <2>1 DEF IInv, TypeOK, WriteTypeOK, dbVars
<1>9. PipelineInv'
  BY <1>1, <1>2, <1>3, <1>4, <1>5, <1>6 DEF IInv, PipelineInv, Publishing, fetchVars, retryVars
<1>10. DepthsInv'
  <2>1. RowsWritten' = RowsWritten
    BY <1>1 DEF RowsWritten, dbVars
  <2> QED
    BY <1>1, <1>2, <2>1 DEF IInv, DepthsInv
<1>11. TipInv'
  <2>1. synced \/ Top + 1 < LastThorNodeBlock
    BY <1>2, <1>3 DEF IInv, TipInv
  <2>2. LastFetchedBlock = 0 => nextHeightToFetch = Top + 1
    BY <1>2 DEF IInv, TipInv
  <2>3. LastCommittedBlock = Top
    BY <1>1, <1>2 DEF IInv, TipInv
  <2> QED
    BY <1>1, <1>3, <1>4, <1>5, <2>1, <2>2, <2>3 DEF TipInv, Publishing, fetchVars, retryVars
<1>12. FirstInv' /\ UnsetFirstInv'
  <2>1. FirstBlock' = 1
    BY <1>1, <1>2, <1>3 DEF IInv, FirstInv
  <2> QED
    BY <2>1 DEF FirstInv, UnsetFirstInv
<1>13. ForkInv'
  BY <1>2, <1>5, <1>6 DEF IInv, ForkInv
<1> QED
  BY <1>5, <1>7, <1>8, <1>9, <1>10, <1>11, <1>12, <1>13 DEF IInv, TypeOK

(* The process moves towards its end, and the writer with it or not. *)
LEMMA StoppingInv ==
  ASSUME IInv, proc # "down", proc' \in {"up", "stopping"}, faults' \in 0..MaxFaults,
         \/ wpc' = wpc
         \/ wpc = "startfork" /\ wpc' = "select"
         \/ wpc # "flush" /\ wpc' = "done",
         UNCHANGED <<nodeVars, blocks, fetchVars, cur, synced, pending, depths, inserter,
                     publishedVars, dbVars>>
  PROVE  IInv'
<1> USE DEF publishedVars, dbVars
<1>1. FetchTypeOK' /\ FetcherInv' /\ (proc' = "down" => MemoryLost')
  BY FetcherUntouched DEF IInv, TypeOK, FetchTypeOK
<1>2. WriteTypeOK'
  BY DEF IInv, TypeOK, WriteTypeOK
<1>3. Top' = Top /\ (Top \in Nat)' /\ DatabaseConsistent'
  BY DatabaseUntouched DEF nodeVars
<1>u. UnsetFirstInv'
  BY <1>3 DEF IInv, UnsetFirstInv
<1>4. CASE Live'
  <2>1. Live /\ Written' = Written /\ RowsWritten' = RowsWritten
    BY <1>3, <1>4 DEF Live, Written, InHand, RowsWritten
  <2>2. PipelineInv'
    BY <1>3, <1>4, <2>1 DEF IInv, PipelineInv, fetchVars, retryVars, Live
  <2>3. DepthsInv'
    BY <1>4, <2>1 DEF IInv, DepthsInv
  <2>4. TipInv'
    BY <1>3, <1>4, <2>1 DEF IInv, TipInv, fetchVars, retryVars, Live
  <2>5. FirstInv'
    BY <1>3, <1>4, <2>1 DEF IInv, FirstInv, Live
  <2>6. ForkInv'
    BY <1>3, <2>1 DEF IInv, ForkInv
  <2> QED
    BY <1>1, <1>2, <1>3, <1>u, <2>2, <2>3, <2>4, <2>5, <2>6 DEF IInv, TypeOK
<1>5. CASE ~Live'
  <2>1. ForkInv'
    BY <1>3, <1>5 DEF IInv, ForkInv
  <2> QED
    BY <1>1, <1>2, <1>3, <1>5, <1>u, <2>1
    DEF IInv, TypeOK, PipelineInv, DepthsInv, TipInv, FirstInv
<1> QED
  BY <1>4, <1>5

(* A refresh of the aggregates keeps the invariant. *)
LEMMA TakeRefreshRequestInv ==
  ASSUME IInv, TakeRefreshRequest \/ RefreshAtInterval
  PROVE  IInv'
<1>1. /\ refreshedTo' = LastCommittedBlock /\ refreshRequest' \in BOOLEAN
      /\ proc # "down"
      /\ UNCHANGED <<proc, faults, nodeVars, blocks, fetchVars, loopVars, LastCommittedBlock,
                     FirstBlock, inserter, dbVars>>
  BY DEF TakeRefreshRequest, RefreshAtInterval, IInv, TypeOK, WriteTypeOK
<1> USE DEF loopVars, dbVars
<1>2. FetchTypeOK' /\ FetcherInv' /\ (proc' = "down" => MemoryLost')
  BY <1>1, FetcherUntouched DEF IInv, TypeOK, FetchTypeOK
<1>3. WriteTypeOK'
  BY <1>1 DEF IInv, TypeOK, WriteTypeOK
<1>4. Top' = Top /\ (Top \in Nat)' /\ DatabaseConsistent'
  BY <1>1, DatabaseUntouched DEF nodeVars
<1>5. /\ Live' <=> Live
      /\ Publishing' <=> Publishing
      /\ Written' = Written /\ RowsWritten' = RowsWritten
  BY <1>1, <1>4 DEF Live, Publishing, Written, InHand, RowsWritten
<1>6. PipelineInv'
  BY <1>1, <1>4, <1>5 DEF IInv, PipelineInv, fetchVars, retryVars
<1>7. DepthsInv'
  BY <1>1, <1>5 DEF IInv, DepthsInv
<1>8. TipInv'
  BY <1>1, <1>4, <1>5 DEF IInv, TipInv, Publishing, fetchVars, retryVars
<1>9. FirstInv' /\ UnsetFirstInv'
  BY <1>1, <1>4, <1>5 DEF IInv, FirstInv, UnsetFirstInv
<1>10. ForkInv'
  BY <1>1, <1>4, <1>5 DEF IInv, ForkInv
<1> QED
  BY <1>2, <1>3, <1>4, <1>6, <1>7, <1>8, <1>9, <1>10 DEF IInv, TypeOK

(* Flush with the process ending, whether or not the rows got in. *)
LEMMA FlushEndsInv ==
  ASSUME IInv, FlushRejected \/ FlushBreaks
  PROVE  IInv'
<1>1. wpc = "flush" /\ LoseMemory /\ UNCHANGED nodeVars /\ marked' \in BOOLEAN
  BY DEF FlushRejected, FlushBreaks, IInv, TypeOK, WriteTypeOK
<1>2. faults' \in 0..MaxFaults
  <2>1. faults' = faults \/ Fault
    BY DEF FlushRejected, FlushBreaks
  <2> QED
    BY <2>1, ParametersAssumption DEF Fault, IInv, TypeOK, FetchTypeOK
<1>3. block_log' \in {block_log, RowsWritten}
  BY DEF FlushRejected, FlushBreaks, RowsWritten
<1>4. CASE block_log' = block_log
  <2>1. Top' = Top /\ (Top \in Nat)' /\ DatabaseConsistent' /\ block_log' \in SUBSET Rows
    BY <1>1, <1>4, DatabaseUntouched DEF nodeVars, IInv, TypeOK, WriteTypeOK
  <2>2. HardForkHeight # 0 => Top' <= HardForkHeight
    BY <2>1 DEF IInv, ForkInv
  <2> QED
    BY <1>1, <1>2, <2>1, <2>2, LoseMemoryInv
<1>5. CASE block_log' = RowsWritten
  <2>1. /\ RowsWritten \in SUBSET Rows /\ ConsistentLog(RowsWritten)
        /\ LastHeight(RowsWritten) \in Nat /\ LastHeight(RowsWritten) <= nodeHeight
        /\ HardForkHeight # 0 => LastHeight(RowsWritten) <= HardForkHeight
    BY <1>1, FlushedLog
  <2>2. (Top \in Nat)' /\ DatabaseConsistent' /\ block_log' \in SUBSET Rows
        /\ (HardForkHeight # 0 => Top' <= HardForkHeight)
    BY <1>1, <1>5, <2>1 DEF Top, DatabaseConsistent, nodeVars
  <2> QED
    BY <1>1, <1>2, <2>2, LoseMemoryInv
<1> QED
  BY <1>3, <1>4, <1>5

(* A finished shutdown and a crash keep the invariant. *)
LEMMA EndingInv ==
  ASSUME IInv, EndProcess \/ Crash
  PROVE  IInv'
<1>1. LoseMemory /\ UNCHANGED <<nodeVars, dbVars>>
  BY DEF EndProcess, Crash
<1>2. faults' \in 0..MaxFaults
  BY ParametersAssumption DEF EndProcess, Crash, Fault, IInv, TypeOK, FetchTypeOK
<1>3. Top' = Top /\ (Top \in Nat)' /\ DatabaseConsistent'
  BY <1>1, DatabaseUntouched DEF nodeVars, dbVars
<1>4. block_log' \in SUBSET Rows /\ marked' \in BOOLEAN
  BY <1>1 DEF dbVars, IInv, TypeOK, WriteTypeOK
<1>5. HardForkHeight # 0 => Top' <= HardForkHeight
  BY <1>3 DEF IInv, ForkInv
<1> QED
  BY <1>1, <1>2, <1>3, <1>4, <1>5, LoseMemoryInv

(* A start from the database establishes what the jobs rely on. *)
LEMMA StartProcessInv ==
  ASSUME IInv, StartProcess
  PROVE  IInv'
<1>1. /\ proc = "down" /\ proc' = "up" /\ inserter' \in {"batch", "immediate"}
      /\ depths' = (IF block_log = {} THEN {} ELSE LastRow(block_log).agg)
      /\ LastCommittedBlock' = Top
      /\ FirstBlock' = (IF EarliestIsRoot \/ block_log # {} THEN 1 ELSE 0)
      /\ LastThorNodeBlock' = nodeHeight /\ nextHeightToFetch' = Top + 1
      /\ fpc' = "catchup" /\ wpc' \in {"startfork", "select"}
      /\ UNCHANGED <<faults, nodeVars, blocks, failedThorNodeFetchHeight, previousHeight,
                     errorCount, iterVars, LastFetchedBlock, cur, synced, pending,
                     refreshRequest, refreshedTo, dbVars>>
  BY DEF StartProcess, Top
<1> USE DEF nodeVars, dbVars, iterVars
<1>2. MemoryLost /\ Top \in Nat /\ Top <= nodeHeight /\ ConsistentLog(block_log)
      /\ block_log \in SUBSET Rows
  BY <1>1 DEF IInv, DatabaseConsistent, Top, TypeOK, WriteTypeOK
<1>3. Top' = Top /\ (Top \in Nat)' /\ DatabaseConsistent'
  BY <1>1, DatabaseUntouched
<1>4. /\ pending' = << >> /\ Len(pending') = 0 /\ blocks' = << >> /\ Len(blocks') = 0
      /\ Live' /\ InHand' = 0 /\ Written' = Top
  BY <1>1, <1>2, <1>3 DEF MemoryLost, Live, InHand, Written
<1>5. depths' = DepthsOf(block_log)
  <2>1. CASE block_log = {}
    BY <1>1, <2>1 DEF DepthsOf, Heights
  <2>2. CASE block_log # {}
    <3>1. LastRow(block_log) \in block_log /\ LastRow(block_log).height = Top
      BY <1>2, <2>2, LastRowOfLog DEF ConsistentLog, Top
    <3>2. depths' = RewardsUpTo(block_log, Top)
      BY <1>1, <1>2, <2>2, <3>1 DEF ConsistentLog
    <3>3. \A r \in block_log : r.height \in 1..Top
      BY <1>2 DEF ConsistentLog, Heights, Top
    <3>4. RewardsUpTo(block_log, Top) = DepthsOf(block_log)
      BY <1>2, <3>3 DEF RewardsUpTo, DepthsOf, Heights
    <3> QED
      BY <3>2, <3>4
  <2> QED
    BY <2>1, <2>2
<1>6. FetchTypeOK'
  BY <1>1, <1>2, ParametersAssumption, SMTT(30) DEF IInv, TypeOK, FetchTypeOK, MemoryLost
<1>7. WriteTypeOK'
  <2>1. depths' \in SUBSET Nat
    BY <1>2, <1>5 DEF DepthsOf, Heights, Rows
  <2>2. FirstBlock' \in Nat
    BY <1>1
  <2> QED
    BY <1>1, <1>2, <1>4, <2>1, <2>2 DEF IInv, TypeOK, WriteTypeOK
<1>8. FetcherInv'
  BY <1>1, <1>2, ParametersAssumption DEF IInv, FetcherInv, MemoryLost, TypeOK, FetchTypeOK
<1>9. PipelineInv'
  BY <1>1, <1>2, <1>3, <1>4 DEF PipelineInv
<1>10. DepthsInv'
  <2>1. RowsWritten' = block_log
    BY <1>1, <1>4 DEF RowsWritten, RowSet
  <2> QED
    BY <1>4, <1>5, <2>1 DEF DepthsInv
<1>11. TipInv'
  BY <1>1, <1>2, <1>3, <1>4 DEF TipInv, MemoryLost
<1>12. FirstInv' /\ UnsetFirstInv'
  <2>1. FirstBlock' \in {0, 1} /\ (Top # 0 => FirstBlock' = 1)
    BY <1>1 DEF Top, LastHeight
  <2> QED
    BY <1>1, <1>3, <1>4, <2>1 DEF FirstInv, UnsetFirstInv
<1>13. ForkInv'
  BY <1>3, <1>4 DEF IInv, ForkInv
<1> QED
  BY <1>1, <1>3, <1>6, <1>7, <1>8, <1>9, <1>10, <1>11, <1>12, <1>13 DEF IInv, TypeOK

-----------------------------------------------------------------------------
(* Steps of the node, and the case split over Next. *)

(* What is at most one beyond a height is so when the height grows. *)
LEMMA NextGrows ==
  ASSUME NEW m \in Nat, NEW n \in Nat, m <= n, NEW h \in Nat, h <= m + 1
  PROVE  h <= n + 1
OBVIOUS

(* The node's height grows under the fetcher and the writer. *)
LEMMA NodeStepInv ==
  ASSUME IInv, NodeAdvance \/ NodeResultsReady, UNCHANGED writeVars
  PROVE  IInv'
<1> USE DEF NodeAdvance, NodeResultsReady
<1>1. /\ UNCHANGED <<proc, faults, blocks, fetchVars>>
      /\ nodeHeight \in Nat /\ nodeHeight' \in 1..MaxHeight /\ nodeHeight <= nodeHeight'
      /\ ready' \in {nodeHeight' - 1, nodeHeight'}
  BY ParametersAssumption DEF IInv, TypeOK, FetchTypeOK, nodeVars
<1> USE DEF fetchVars, iterVars, retryVars
<1>2. FetchTypeOK'
  BY <1>1 DEF IInv, TypeOK, FetchTypeOK
<1>3. FetcherInv'
  <2> HIDE DEF NodeAdvance, NodeResultsReady
  <2>1. /\ finalHeight \in Nat /\ failedThorNodeFetchHeight \in Int
        /\ LastThorNodeBlock \in Nat /\ nextHeightToFetch \in Nat /\ nodeHeight' \in Nat
    BY <1>1, ParametersAssumption DEF IInv, TypeOK, FetchTypeOK
  <2>2. FetcherInv
    BY DEF IInv
  <2>3. /\ finalHeight <= nodeHeight' /\ failedThorNodeFetchHeight <= nodeHeight'
        /\ LastThorNodeBlock <= nodeHeight' /\ nextHeightToFetch <= nodeHeight' + 1
    <3>1. /\ finalHeight <= nodeHeight /\ failedThorNodeFetchHeight <= nodeHeight
          /\ LastThorNodeBlock <= nodeHeight /\ nextHeightToFetch <= nodeHeight + 1
      BY <2>2 DEF FetcherInv
    <3>2. nodeHeight \in Nat /\ nodeHeight <= nodeHeight'
      BY <1>1
    <3> QED
      <4>1. finalHeight <= nodeHeight' /\ failedThorNodeFetchHeight <= nodeHeight'
        BY <2>1, <3>1, <3>2
      <4>2. LastThorNodeBlock <= nodeHeight'
        BY <2>1, <3>1, <3>2
      <4>3. nextHeightToFetch <= nodeHeight' + 1
        BY <2>1, <3>1, <3>2, NextGrows
      <4> QED
        BY <4>1, <4>2, <4>3
  <2> QED
    <3>1. UNCHANGED <<finalHeight, failedThorNodeFetchHeight, LastThorNodeBlock,
                      nextHeightToFetch, batch, source, fpc, itHeight, fetched, nextBatchStart>>
      BY <1>1
    <3> QED
      BY ONLY <2>2, <2>3, <3>1 DEF FetcherInv
<1>4. PipelineInv' /\ TipInv'
  BY <1>1, PipelineUntouched, TipUntouched DEF IInv, TypeOK, FetchTypeOK
<1>5. WriteTypeOK' /\ (Top \in Nat)' /\ DatabaseConsistent' /\ DepthsInv' /\ UnsetFirstInv'
      /\ FirstInv' /\ ForkInv'
  BY <1>1, WriterUntouched
<1>6. proc' = "down" => MemoryLost'
  BY <1>1 DEF IInv, MemoryLost, writeVars, loopVars, publishedVars
<1> QED
  BY <1>2, <1>3, <1>4, <1>5, <1>6 DEF IInv, TypeOK

(* A step that changes nothing keeps the invariant. *)
LEMMA StutterInv ==
  ASSUME IInv, UNCHANGED vars
  PROVE  IInv'
<1> USE DEF vars, nodeVars, fetchVars, writeVars, iterVars, retryVars, loopVars, publishedVars,
            dbVars
<1>1. Top' = Top /\ (Live' <=> Live) /\ Written' = Written /\ RowsWritten' = RowsWritten
  BY DEF Top, Live, Written, InHand, RowsWritten
<1>2. TypeOK' /\ (proc' = "down" => MemoryLost') /\ FetcherInv'
  BY DEF IInv, TypeOK, FetchTypeOK, WriteTypeOK, MemoryLost, FetcherInv
<1>3. (Top \in Nat)' /\ DatabaseConsistent'
  BY DatabaseUntouched
<1>4. PipelineInv' /\ DepthsInv' /\ TipInv' /\ UnsetFirstInv' /\ FirstInv' /\ ForkInv'
  BY <1>1 DEF IInv, PipelineInv, DepthsInv, TipInv, UnsetFirstInv, FirstInv, ForkInv
<1> QED
  BY <1>2, <1>3, <1>4 DEF IInv

(* Every step keeps the inductive invariant. *)
LEMMA StepIInv == IInv /\ [Next]_vars => IInv'
<1> SUFFICES ASSUME IInv, [Next]_vars PROVE IInv'
  OBVIOUS
<1>1. CASE NodeAdvance /\ UNCHANGED writeVars
  BY <1>1, NodeStepInv
<1>2. CASE NodeResultsReady /\ UNCHANGED writeVars
  BY <1>2, NodeStepInv
<1>3. CASE Fetch
  BY <1>3, FetchStepInv DEF Fetch
<1>4. CASE WriteStep
  <2>1. CASE TakeBlock
    BY <2>1, TakeBlockInv
  <2>2. CASE ProcessBatched
    BY <2>2, ProcessBatchedInv
  <2>3. CASE ProcessImmediate
    BY <2>3, ProcessImmediateInv
  <2>4. CASE ImmediateFails
    BY <2>4, ImmediateFailsInv
  <2>5. CASE Flush
    BY <2>5, FlushInv
  <2>6. CASE FlushRejected \/ FlushBreaks
    BY <2>6, FlushEndsInv
  <2>7. CASE SetLastBlock \/ SetAndCheckFirstBlock \/ RequestAggregatesRefresh
    BY <2>7, SetLastBlockInv, SetFirstBlockInv, RequestInv
  <2>8. CASE ForkTimeout \/ WriterStops
    <3>1. /\ proc # "down" /\ proc' \in {"up", "stopping"} /\ faults' = faults
          /\ \/ wpc = "startfork" /\ wpc' = "select"
             \/ wpc # "flush" /\ wpc' = "done"
          /\ UNCHANGED <<nodeVars, blocks, fetchVars, cur, synced, pending, depths, inserter,
                         publishedVars, dbVars>>
      BY <2>8 DEF ForkTimeout, WriterStops
    <3>2. faults' \in 0..MaxFaults
      BY <3>1 DEF IInv, TypeOK, FetchTypeOK
    <3> QED
      BY <3>1, <3>2, StoppingInv
  <2> QED
    BY <1>4, <2>1, <2>2, <2>3, <2>4, <2>5, <2>6, <2>7, <2>8 DEF WriteStep
<1>5. CASE TakeRefreshRequest \/ RefreshAtInterval
  BY <1>5, TakeRefreshRequestInv
<1>6. CASE StartProcess
  BY <1>6, StartProcessInv
<1>7. CASE EndProcess \/ Crash
  BY <1>7, EndingInv
<1>8. CASE Interrupt
  <2>1. /\ proc # "down" /\ proc' \in {"up", "stopping"}
        /\ UNCHANGED <<nodeVars, blocks, fetchVars, wpc, cur, synced, pending, depths, inserter,
                       publishedVars, dbVars>>
    BY <1>8 DEF Interrupt, writeVars, loopVars
  <2>2. faults' \in 0..MaxFaults
    BY <1>8, ParametersAssumption DEF Interrupt, Fault, IInv, TypeOK, FetchTypeOK
  <2> QED
    BY <2>1, <2>2, StoppingInv
<1>9. CASE UNCHANGED vars
  BY <1>9, StutterInv
<1> QED
  BY <1>1, <1>2, <1>3, <1>4, <1>5, <1>6, <1>7, <1>8, <1>9 DEF Next

(* The inductive invariant holds of every reachable state. *)
THEOREM Invariance == Spec => []IInv
<1>1. Init => IInv
  BY InitIInv
<1>2. IInv /\ [Next]_vars => IInv'
  BY StepIInv
<1> QED
  BY <1>1, <1>2, PTL DEF Spec

-----------------------------------------------------------------------------
(* The safety properties. *)

(* Every variable keeps its type, the channel its capacity and the error   *)
(* count its limit.                                                        *)
THEOREM TypeCorrect == Spec => []TypeOK
BY Invariance, PTL DEF IInv

(* Three sequences that continue one another are one run of heights. *)
LEMMA ThreeRuns ==
  ASSUME NEW p \in Seq(Nat), NEW c \in Seq(Nat), NEW b \in Seq(Nat), NEW n \in Nat,
         \A i \in 1..Len(p) : p[i] = n + i,
         \A i \in 1..Len(c) : c[i] = n + Len(p) + i,
         \A i \in 1..Len(b) : b[i] = n + Len(p) + Len(c) + i
  PROVE  /\ p \o c \o b \in Seq(Nat)
         /\ Len(p \o c \o b) = Len(p) + Len(c) + Len(b)
         /\ \A i \in 1..Len(p \o c \o b) : (p \o c \o b)[i] = n + i
<1>1. ASSUME NEW s \in Seq(Nat), NEW t \in Seq(Nat), NEW m \in Nat,
             \A i \in 1..Len(s) : s[i] = m + i,
             \A i \in 1..Len(t) : t[i] = m + Len(s) + i
      PROVE  /\ s \o t \in Seq(Nat) /\ Len(s \o t) = Len(s) + Len(t)
             /\ \A i \in 1..Len(s \o t) : (s \o t)[i] = m + i
  <2>1. s \o t \in Seq(Nat) /\ Len(s \o t) = Len(s) + Len(t) /\ Len(s) \in Nat /\ Len(t) \in Nat
    OBVIOUS
  <2>2. ASSUME NEW i \in 1..Len(s \o t) PROVE (s \o t)[i] = m + i
    <3>1. CASE i <= Len(s)
      BY <1>1, <2>1, <3>1
    <3>2. CASE i > Len(s)
      <4>1. i - Len(s) \in 1..Len(t) /\ (s \o t)[i] = t[i - Len(s)]
        BY <2>1, <3>2
      <4> QED
        BY <1>1, <2>1, <4>1
    <3> QED
      BY <2>1, <3>1, <3>2
  <2> QED
    BY <2>1, <2>2
<1>2. /\ p \o c \in Seq(Nat) /\ Len(p \o c) = Len(p) + Len(c)
      /\ \A i \in 1..Len(p \o c) : (p \o c)[i] = n + i
  BY <1>1
<1>3. \A i \in 1..Len(b) : b[i] = n + Len(p \o c) + i
  BY <1>2
<1> QED
  BY <1>1, <1>2, <1>3

(* The blocks in flight are those between the database and the fetcher's   *)
(* next height, in order.                                                  *)
THEOREM PipelineKeepsOrder == Spec => []PipelineInOrder
<1>1. IInv => PipelineInOrder
  <2> SUFFICES ASSUME IInv PROVE PipelineInOrder
    OBVIOUS
  <2>1. fpc = "send" => fetched = nextHeightToFetch
    BY DEF IInv, FetcherInv
  <2>2. ASSUME proc # "down", wpc \notin {"forkwait", "done"}
        PROVE  /\ InFlight = [i \in 1..Len(InFlight) |-> LastHeight(block_log) + i]
               /\ nextHeightToFetch = LastHeight(block_log) + Len(InFlight) + 1
    <3> DEFINE p == [i \in 1..Len(pending) |-> pending[i].height]
               c == IF wpc = "process" THEN <<cur>> ELSE << >>
    <3>1. Live
      BY <2>2 DEF Live
    <3>2. Top \in Nat /\ pending \in Seq(Rows) /\ blocks \in Seq(Nat) /\ cur \in Nat
      BY DEF IInv, TypeOK, FetchTypeOK, WriteTypeOK
    <3>3. /\ p \in Seq(Nat) /\ Len(p) = Len(pending) /\ Len(p) \in Nat
          /\ \A i \in 1..Len(p) : p[i] = Top + i
      <4>1. \A i \in 1..Len(pending) : pending[i].height = Top + i /\ Top + i \in Nat
        BY <3>1, <3>2 DEF IInv, PipelineInv
      <4>2. Len(pending) \in Nat
        BY <3>2
      <4>3. p \in [1..Len(pending) -> Nat]
        BY <4>1
      <4>4. p \in Seq(Nat) /\ Len(p) = Len(pending)
        <5> HIDE DEF p
        <5> QED
          BY <4>2, <4>3
      <4> QED
        BY <4>1, <4>2, <4>4
    <3>4. /\ c \in Seq(Nat) /\ Len(c) = InHand /\ InHand \in Nat
          /\ \A i \in 1..Len(c) : c[i] = Top + Len(p) + i
      <4>1. CASE wpc = "process"
        <5>1. c = <<cur>> /\ Len(c) = 1 /\ c[1] = cur /\ InHand = 1
          BY <4>1 DEF InHand
        <5>2. cur = Top + Len(p) + 1
          BY <3>1, <3>3, <4>1, <5>1 DEF IInv, PipelineInv, Written
        <5> QED
          BY <3>2, <5>1, <5>2, SMTT(30)
      <4>2. CASE wpc # "process"
        <5>1. c = << >> /\ InHand = 0
          BY <4>2 DEF InHand
        <5>2. Len(c) = 0 /\ c \in Seq(Nat)
          BY <5>1
        <5> HIDE DEF c, p
        <5> QED
          BY <5>1, <5>2
      <4> HIDE DEF c, p
      <4> QED
        BY <4>1, <4>2
    <3>5. /\ Len(blocks) \in Nat
          /\ \A i \in 1..Len(blocks) : blocks[i] = Top + Len(p) + Len(c) + i
      <4>1. Written = Top + Len(p) + Len(c) /\ Len(blocks) \in Nat
        <5>1. Len(p) = Len(pending) /\ Len(c) = InHand /\ Len(blocks) \in Nat
          BY <3>2, <3>3, <3>4
        <5> HIDE DEF p, c
        <5> QED
          BY <5>1 DEF Written
      <4>2. \A i \in 1..Len(blocks) : blocks[i] = Written + i
        BY <3>1 DEF IInv, PipelineInv
      <4> HIDE DEF p, c
      <4> QED
        BY <4>1, <4>2
    <3>6. nextHeightToFetch = Top + Len(p) + Len(c) + Len(blocks) + 1
      <4>1. Written = Top + Len(p) + Len(c) /\ nextHeightToFetch = Written + Len(blocks) + 1
        BY <3>1, <3>2, <3>3, <3>4 DEF Written, IInv, PipelineInv
      <4> QED
        BY <4>1
    <3>7. InFlight = p \o c \o blocks
      BY DEF InFlight
    <3> HIDE DEF p, c
    <3>8. /\ p \o c \o blocks \in Seq(Nat)
          /\ Len(p \o c \o blocks) = Len(p) + Len(c) + Len(blocks)
          /\ \A i \in 1..Len(p \o c \o blocks) : (p \o c \o blocks)[i] = Top + i
      <4> HIDE DEF Top
      <4>1. Top \in Nat /\ p \in Seq(Nat) /\ c \in Seq(Nat) /\ blocks \in Seq(Nat)
        BY <3>2, <3>3, <3>4
      <4>2. \A i \in 1..Len(p) : p[i] = Top + i
        BY <3>3
      <4>3. \A i \in 1..Len(c) : c[i] = Top + Len(p) + i
        BY <3>4
      <4>4. \A i \in 1..Len(blocks) : blocks[i] = Top + Len(p) + Len(c) + i
        BY <3>5
      <4> QED
        BY <4>1, <4>2, <4>3, <4>4, ThreeRuns
    <3> DEFINE s == p \o c \o blocks
    <3>9. s = [i \in 1..Len(s) |-> Top + i]
      <4>1. s \in Seq(Nat) /\ \A i \in 1..Len(s) : s[i] = Top + i
        BY <3>8
      <4>2. s = [i \in 1..Len(s) |-> s[i]]
        <5> HIDE DEF s
        <5> QED
          BY <4>1
      <4> HIDE DEF s, Top
      <4> QED
        BY <4>1, <4>2
    <3>10. nextHeightToFetch = Top + Len(s) + 1
      <4>1. Len(s) = Len(p) + Len(c) + Len(blocks)
        BY <3>8
      <4> HIDE DEF s, Top
      <4> QED
        BY ONLY <3>2, <3>3, <3>4, <3>5, <3>6, <4>1
    <3>11. InFlight = s
      BY <3>7
    <3> HIDE DEF s
    <3> QED
      BY <3>9, <3>10, <3>11 DEF Top
  <2> QED
    BY <2>1, <2>2 DEF PipelineInOrder
<1> QED
  BY <1>1, Invariance, PTL

(* The database can be restarted from at every moment, crashes included. *)
THEOREM DatabaseAlwaysConsistent == Spec => []DatabaseConsistent
BY Invariance, PTL DEF IInv

(* With the fetcher and the channel at rest no block waits in a batch. *)
THEOREM NoBlockStranded == Spec => []NoStrandedBlocks
<1>1. IInv => NoStrandedBlocks
  <2> SUFFICES ASSUME IInv, Quiescent
               PROVE  pending = << >> /\ LastHeight(block_log) = nextHeightToFetch - 1
    BY DEF NoStrandedBlocks
  <2>1. Live /\ wpc = "select" /\ blocks = << >> /\ Len(blocks) = 0
        /\ nextHeightToFetch > LastThorNodeBlock
    BY DEF Quiescent, Live
  <2>2. Top \in Nat /\ pending \in Seq(Rows) /\ LastThorNodeBlock \in Nat
    BY DEF IInv, TypeOK, FetchTypeOK, WriteTypeOK
  <2>3. Len(pending) \in Nat /\ nextHeightToFetch = Top + Len(pending) + 1
    BY <2>1, <2>2 DEF IInv, PipelineInv, Written, InHand
  <2>4. pending = << >>
    BY <2>1, <2>2, <2>3 DEF IInv, TipInv
  <2> QED
    BY <2>2, <2>3, <2>4 DEF Top
<1> QED
  BY <1>1, Invariance, PTL

(* The aggregates' refresh has seen, or is asked to see, the newest block. *)
THEOREM NoRefreshLost == Spec => []RefreshNotLost
<1>1. IInv => RefreshNotLost
  <2> SUFFICES ASSUME IInv, Quiescent, ~refreshRequest, LastFetchedBlock # 0
               PROVE  refreshedTo = LastCommittedBlock
    BY DEF RefreshNotLost
  <2>1. Live /\ wpc = "select" /\ blocks = << >> /\ Len(blocks) = 0
        /\ nextHeightToFetch > LastThorNodeBlock
    BY DEF Quiescent, Live
  <2>2. Top \in Nat /\ pending \in Seq(Rows) /\ LastThorNodeBlock \in Nat
    BY DEF IInv, TypeOK, FetchTypeOK, WriteTypeOK
  <2>3. Len(pending) \in Nat /\ nextHeightToFetch = Top + Len(pending) + 1
    BY <2>1, <2>2 DEF IInv, PipelineInv, Written, InHand
  <2>4. pending = << >> /\ LastCommittedBlock = Top
    BY <2>1, <2>2, <2>3 DEF IInv, TipInv
  <2>5. nextHeightToFetch = Top + 1
    BY <2>2, <2>3, <2>4
  <2> QED
    BY <2>1, <2>2, <2>4, <2>5 DEF IInv, TipInv
<1> QED
  BY <1>1, Invariance, PTL

(* No block beyond the hard fork is ever stored. *)
THEOREM StopsAtFork == Spec => []NeverPastFork
<1>1. IInv => NeverPastFork
  BY DEF IInv, ForkInv, NeverPastFork, Top
<1> QED
  BY <1>1, Invariance, PTL

(* While the first block is unknown at most one block is written. *)
THEOREM FirstBlockIsFirst == Spec => []FirstBlockBeforeOthers
<1>1. IInv => FirstBlockBeforeOthers
  BY DEF IInv, UnsetFirstInv, FirstBlockBeforeOthers, Top
<1> QED
  BY <1>1, Invariance, PTL

-----------------------------------------------------------------------------
(* The pipeline implements the Ledger. *)

(* A step adds at most the row of the block in hand to the rows written. *)
LEMMA RowsOfStep ==
  ASSUME IInv, [Next]_vars, NEW r \in RowsWritten', r \notin RowsWritten
  PROVE  wpc = "process" /\ r = BlockRow(DepthsAfter, RewardsAccepted)
<1> USE DEF RowsWritten
<1>1. pending \in Seq(Rows) /\ RowSet(<< >>) = {}
  BY DEF IInv, TypeOK, WriteTypeOK, RowSet
<1>2. (UNCHANGED <<pending, block_log>>) => FALSE
  BY DEF RowSet
<1>3. (pending' = << >> /\ block_log' \in {block_log, block_log \cup RowSet(pending)}) => FALSE
  BY <1>1
<1>4. ProcessBatched \/ ProcessImmediate \/ ImmediateFails
  <2>1. NodeAdvance /\ UNCHANGED writeVars => FALSE
    BY <1>2 DEF writeVars, loopVars, dbVars
  <2>2. NodeResultsReady /\ UNCHANGED writeVars => FALSE
    BY <1>2 DEF writeVars, loopVars, dbVars
  <2>3. Fetch => FALSE
    BY <1>2 DEF Fetch, writeVars, loopVars, dbVars
  <2>4. (TakeBlock \/ SetLastBlock \/ SetAndCheckFirstBlock \/ RequestAggregatesRefresh
           \/ ForkTimeout \/ WriterStops \/ TakeRefreshRequest \/ RefreshAtInterval) => FALSE
    BY <1>2 DEF TakeBlock, SetLastBlock, SetAndCheckFirstBlock, RequestAggregatesRefresh,
                ForkTimeout, WriterStops, TakeRefreshRequest, RefreshAtInterval, dbVars, loopVars
  <2>5. (Flush \/ FlushRejected \/ FlushBreaks) => FALSE
    BY <1>3 DEF Flush, FlushRejected, FlushBreaks, LoseMemory
  <2>6. (StartProcess \/ Interrupt) => FALSE
    BY <1>2 DEF StartProcess, Interrupt, writeVars, loopVars, dbVars
  <2>7. (EndProcess \/ Crash) => FALSE
    BY <1>3 DEF EndProcess, Crash, LoseMemory, dbVars
  <2>8. (UNCHANGED vars) => FALSE
    BY <1>2 DEF vars, writeVars, loopVars, dbVars
  <2> QED
    BY <2>1, <2>2, <2>3, <2>4, <2>5, <2>6, <2>7, <2>8 DEF Next, WriteStep
<1> DEFINE row == BlockRow(DepthsAfter, RewardsAccepted)
<1>5. CASE ProcessBatched
  <2>1. wpc = "process" /\ pending' = Append(pending, row) /\ block_log' = block_log
    BY <1>5 DEF ProcessBatched, dbVars
  <2>2. row \in Rows
    <3>1. \A q : q \in RowsWritten \cup {row} <=> (q \in RowsWritten \/ q = row)
      OBVIOUS
    <3> HIDE DEF RowsWritten
    <3> QED
      BY <2>1, <3>1, RowInHand
  <2> HIDE DEF row
  <2>3. r \in RowSet(pending) \/ r = row \/ r \in block_log
    BY <1>1, <2>1, <2>2, RowSetOfAppend
  <2> QED
    BY <2>1, <2>3 DEF row
<1>6. CASE ProcessImmediate \/ ImmediateFails
  BY <1>6 DEF ProcessImmediate, ImmediateFails
<1> QED
  BY <1>4, <1>5, <1>6

(* A row is written without its rewards only if the schema rejects them. *)
LEMMA StepRejected == IInv /\ RejectedInv /\ [Next]_vars => RejectedInv'
<1> SUFFICES ASSUME IInv, RejectedInv, [Next]_vars, NEW r \in RowsWritten'
             PROVE  r.rewards \/ r.height \in PoisonRewards
  BY DEF RejectedInv
<1>1. CASE r \in RowsWritten
  BY <1>1 DEF RejectedInv
<1>2. CASE r \notin RowsWritten
  <2>1. wpc = "process" /\ r = BlockRow(DepthsAfter, RewardsAccepted)
    BY <1>2, RowsOfStep
  <2>2. r.rewards = RewardsAccepted /\ r.height = cur
    BY <2>1 DEF BlockRow
  <2> QED
    BY <2>2 DEF RewardsAccepted
<1> QED
  BY <1>1, <1>2

(* Rows written to the database continue the ledger. *)
LEMMA RecordStep ==
  ASSUME IInv, NEW new \in SUBSET Rows, block_log' = new, nodeHeight' = nodeHeight,
         ConsistentLog(new), block_log \subseteq new,
         LastHeight(new) \in Nat, Top < LastHeight(new), LastHeight(new) <= nodeHeight,
         \A r \in new : r.rewards \/ r.height \in PoisonRewards
  PROVE  StoredLedger!Record
<1> DEFINE n == LastHeight(new)
           rejected == Heights({r \in new : ~r.rewards /\ r \notin block_log})
<1>1. Heights(block_log) = 1..Top /\ Top \in Nat
  BY DEF IInv, DatabaseConsistent, ConsistentLog, Top
<1>2. Heights(new) = 1..n /\ \A q, r \in new : q.height = r.height => q = r
  BY DEF ConsistentLog
<1>3. n \in (Top + 1)..nodeHeight
  BY <1>1 DEF IInv, TypeOK, FetchTypeOK
<1>4. rejected \subseteq PoisonRewards \cap ((Top + 1)..n)
  <2> SUFFICES ASSUME NEW r \in new, ~r.rewards, r \notin block_log
               PROVE  r.height \in PoisonRewards /\ r.height \in (Top + 1)..n
    BY DEF Heights
  <2>1. r.height \in PoisonRewards
    OBVIOUS
  <2>2. r.height \in 1..n
    BY <1>2 DEF Heights
  <2>3. r.height \notin 1..Top
    <3>1. SUFFICES ASSUME r.height \in Heights(block_log) PROVE FALSE
      BY <1>1
    <3>2. PICK q \in block_log : q.height = r.height
      BY <3>1 DEF Heights
    <3> QED
      BY <1>2, <3>2
  <2> QED
    <3> HIDE DEF n
    <3> QED
      BY <1>1, <2>1, <2>2, <2>3
<1>5. Heights({r \in new : ~r.rewards}) = Heights({r \in block_log : ~r.rewards}) \cup rejected
  BY DEF Heights
<1>6. (IF new = {} THEN {} ELSE LastRow(new).agg) = (1..n) \ Heights({r \in new : ~r.rewards})
  <2>1. new # {}
    BY <1>1 DEF LastHeight
  <2>2. LastRow(new) \in new /\ LastRow(new).height = n
    BY <1>2, <2>1, LastRowOfLog
  <2>3. LastRow(new).saved
    BY <2>1 DEF ConsistentLog
  <2>4. LastRow(new).agg = RewardsUpTo(new, n)
    BY <2>2, <2>3 DEF ConsistentLog
  <2>5. \A r \in new : r.height \in 1..n /\ r.height <= n
    BY <1>2 DEF Heights
  <2>6. RewardsUpTo(new, n) = Heights({r \in new : r.rewards})
    BY <2>5 DEF RewardsUpTo, Heights
  <2>7. Heights({r \in new : r.rewards}) = Heights(new) \ Heights({r \in new : ~r.rewards})
    BY <1>2 DEF Heights
  <2> QED
    BY <1>2, <2>1, <2>4, <2>6, <2>7
<1> HIDE DEF n, rejected
<1>7. LastHeight(block_log') = n /\ LastHeight(block_log) = Top
  BY DEF n, Top
<1>8. PoisonRewards \cap ((Top + 1)..n) \in SUBSET PoisonRewards
  OBVIOUS
<1> QED
  BY <1>3, <1>4, <1>5, <1>6, <1>7 DEF StoredLedger!Record

(* What the database holds is left alone and the node's chain may grow. *)
LEMMA LogUntouched ==
  ASSUME block_log' = block_log, nodeHeight' = nodeHeight \/ NodeAdvance
  PROVE  StoredLedger!Grow \/ UNCHANGED StoredLedger!ledgerVars
<1>1. /\ LastHeight(block_log') = LastHeight(block_log)
      /\ Heights({r \in block_log' : ~r.rewards}) = Heights({r \in block_log : ~r.rewards})
      /\ (IF block_log' = {} THEN {} ELSE LastRow(block_log').agg)
           = (IF block_log = {} THEN {} ELSE LastRow(block_log).agg)
  OBVIOUS
<1>2. CASE nodeHeight' = nodeHeight
  BY <1>1, <1>2 DEF StoredLedger!ledgerVars
<1>3. CASE NodeAdvance
  BY <1>1, <1>3 DEF StoredLedger!Grow, NodeAdvance
<1> QED
  BY <1>2, <1>3

(* Every step of the pipeline is a step of the ledger, or none of it. *)
LEMMA LedgerStep ==
  IInv /\ RejectedInv /\ RejectedInv' /\ [Next]_vars
    => [StoredLedger!LedgerNext]_(StoredLedger!ledgerVars)
<1> SUFFICES ASSUME IInv, RejectedInv, RejectedInv', [Next]_vars
             PROVE  [StoredLedger!LedgerNext]_(StoredLedger!ledgerVars)
  OBVIOUS
<1> USE DEF StoredLedger!LedgerNext
<1>1. ASSUME block_log' = block_log, nodeHeight' = nodeHeight \/ NodeAdvance
      PROVE  [StoredLedger!LedgerNext]_(StoredLedger!ledgerVars)
  BY <1>1, LogUntouched
<1>2. CASE NodeAdvance /\ UNCHANGED writeVars
  BY <1>1, <1>2 DEF writeVars, dbVars
<1>3. CASE NodeResultsReady /\ UNCHANGED writeVars
  BY <1>1, <1>3 DEF NodeResultsReady, writeVars, dbVars
<1>4. CASE Fetch
  <2>1. UNCHANGED <<nodeVars, dbVars>>
    BY <1>4 DEF Fetch, FetchStep, CatchUpToFailed, CatchUpToLatest, StatusFails, ReachedTarget,
      NextFromStore, Give, SwitchToChain, NextFromChain, FetchFails, SendBlock, FetchStops,
      writeVars
  <2> QED
    BY <1>1, <2>1 DEF nodeVars, dbVars
<1>5. CASE TakeBlock \/ ProcessBatched \/ FlushRejected \/ SetLastBlock \/ SetAndCheckFirstBlock
           \/ RequestAggregatesRefresh \/ ForkTimeout \/ WriterStops
           \/ TakeRefreshRequest \/ RefreshAtInterval
  <2>1. block_log' = block_log /\ UNCHANGED nodeVars
    BY <1>5 DEF TakeBlock, ProcessBatched, FlushRejected, SetLastBlock, SetAndCheckFirstBlock,
      RequestAggregatesRefresh, ForkTimeout, WriterStops, TakeRefreshRequest, RefreshAtInterval,
      dbVars
  <2> QED
    BY <1>1, <2>1 DEF nodeVars
<1>6. CASE StartProcess \/ EndProcess \/ Interrupt \/ Crash \/ UNCHANGED vars
  <2>1. UNCHANGED <<nodeVars, dbVars>>
    BY <1>6 DEF StartProcess, EndProcess, Interrupt, Crash, writeVars, vars
  <2> QED
    BY <1>1, <2>1 DEF nodeVars, dbVars
<1>7. CASE ProcessImmediate \/ ImmediateFails
  <2> DEFINE row == BlockRow(DepthsAfter, RewardsAccepted)
  <2>1. /\ wpc = "process" /\ inserter = "immediate" /\ nodeHeight' = nodeHeight
        /\ block_log' \in {block_log, block_log \cup {row}}
    BY <1>7 DEF ProcessImmediate, ImmediateFails, nodeVars
  <2> HIDE DEF row
  <2>2. /\ block_log \cup {row} \in SUBSET Rows /\ ConsistentLog(block_log \cup {row})
        /\ LastHeight(block_log \cup {row}) = cur
        /\ cur = Top + 1 /\ cur \in Nat /\ cur <= nodeHeight /\ Top \in Nat
    BY <2>1, ImmediateRow DEF row
  <2>3. CASE block_log' = block_log
    BY <1>1, <2>1, <2>3
  <2>4. CASE block_log' = block_log \cup {row}
    <3>1. \A r \in block_log \cup {row} : r.rewards \/ r.height \in PoisonRewards
      BY <2>4 DEF RejectedInv, RowsWritten
    <3>2. Top < LastHeight(block_log \cup {row})
      BY <2>2
    <3> QED
      BY <2>1, <2>2, <2>4, <3>1, <3>2, RecordStep
  <2> QED
    BY <2>1, <2>3, <2>4
<1>8. CASE Flush \/ FlushBreaks
  <2>1. /\ wpc = "flush" /\ nodeHeight' = nodeHeight
        /\ block_log' \in {block_log, RowsWritten}
    BY <1>8 DEF Flush, FlushBreaks, RowsWritten, nodeVars
  <2>2. /\ Live /\ RowsWritten \in SUBSET Rows /\ ConsistentLog(RowsWritten)
        /\ LastHeight(RowsWritten) = Top + Len(pending)
        /\ Top + Len(pending) \in Nat /\ Top + Len(pending) <= nodeHeight
    BY <2>1, FlushedLog
  <2>3. CASE block_log' = block_log
    BY <1>1, <2>1, <2>3
  <2>4. CASE block_log' = RowsWritten
    <3>1. \A r \in RowsWritten : r.rewards \/ r.height \in PoisonRewards
      BY DEF RejectedInv
    <3>2. Top < Top + Len(pending)
      <4>1. pending \in Seq(Rows) /\ pending # << >> /\ Top \in Nat
        BY <2>1, <2>2 DEF IInv, PipelineInv, TypeOK, WriteTypeOK
      <4>2. Len(pending) \in Nat /\ Len(pending) > 0
        BY <4>1
      <4> QED
        BY <4>1, <4>2
    <3>3. block_log \subseteq RowsWritten
      BY DEF RowsWritten
    <3> QED
      BY <2>1, <2>2, <2>4, <3>1, <3>2, <3>3, RecordStep
  <2> QED
    BY <2>1, <2>3, <2>4
<1> QED
  BY <1>2, <1>3, <1>4, <1>5, <1>6, <1>7, <1>8 DEF Next, WriteStep

(* The pipeline implements the Ledger: whatever the jobs, the batches, the    *)
(* failures and the restarts do, the blocks are recorded in their order, each *)
(* once, never taken back, and the depths stored with the newest one include  *)
(* the rewards of exactly those recorded blocks that did not lose them.       *)
THEOREM PipelineImplementsLedger == Spec => ImplementsLedger
<1>1. Init => StoredLedger!LedgerInit
  <2> SUFFICES ASSUME Init PROVE StoredLedger!LedgerInit
    OBVIOUS
  <2>1. block_log = {} /\ nodeHeight \in 1..MaxHeight
    BY DEF Init
  <2> QED
    BY <2>1 DEF StoredLedger!LedgerInit, LastHeight, Heights
<1>2. Init => RejectedInv
  BY DEF Init, RejectedInv, RowsWritten, RowSet
<1>3. IInv /\ RejectedInv /\ [Next]_vars => RejectedInv'
  BY StepRejected
<1>4. IInv /\ RejectedInv /\ RejectedInv' /\ [Next]_vars
        => [StoredLedger!LedgerNext]_(StoredLedger!ledgerVars)
  BY LedgerStep
<1> QED
  BY <1>1, <1>2, <1>3, <1>4, Invariance, PTL
  DEF Spec, ImplementsLedger, StoredLedger!LedgerSpec
=============================================================================
