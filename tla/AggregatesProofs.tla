--------------------------- MODULE AggregatesProofs ---------------------------
(***************************************************************************)
(* Proofs of the safety properties of the aggregates from the inductive     *)
(* invariant of AggregatesInv: for any blocks with rising timestamps, any   *)
(* transfers, any size of a step and of the channel, and any number of      *)
(* failed calls, interrupts and kills.                                      *)
(***************************************************************************)
EXTENDS AggregatesInv, SetFacts, TLAPS

(* Groups of variables and of types, expanded everywhere. *)
USE DEF tables, writerVars, localVars, refreshVars, socketVars, processVars,
        TablesOK, RefreshOK, PublishedOK, FlagsOK

(* The constants. *)
LEMMA Constants ==
  /\ MaxHeight \in Nat \ {0}
  /\ Transfers \subseteq 1..MaxHeight
  /\ MaxStep \in Nat \ {0} /\ PingCapacity \in Nat \ {0} /\ MaxFaults \in Nat
BY AggregatesAssumption DEF MaxHeight

USE Constants

(* The timestamps of the blocks rise. *)
LEMMA Times ==
  /\ \A h \in 1..MaxHeight : Timestamps[h] \in Nat \ {0}
  /\ \A h, k \in 1..MaxHeight : h < k => Timestamps[h] < Timestamps[k]
  /\ \A h \in 1..MaxHeight : Timestamps[1] <= Timestamps[h]
<1>1. \A h \in 1..MaxHeight : Timestamps[h] \in Nat \ {0}
  BY AggregatesAssumption DEF MaxHeight
<1>2. \A h, k \in 1..MaxHeight : h < k => Timestamps[h] < Timestamps[k]
  BY AggregatesAssumption DEF MaxHeight
<1>3. \A h \in 1..MaxHeight : Timestamps[1] <= Timestamps[h]
  <2> TAKE h \in 1..MaxHeight
  <2>1. CASE h = 1
    BY <1>1, <2>1
  <2>2. CASE h # 1
    <3>1. 1 \in 1..MaxHeight /\ 1 < h
      BY <2>2
    <3> QED
      BY <1>1, <1>2, <3>1
  <2> QED
    BY <2>1, <2>2
<1> QED
  BY <1>1, <1>2, <1>3

(* So do those of the heights, of which 0 has the zero time. *)
LEMMA TimesOfHeights ==
  /\ \A h \in 0..MaxHeight : TimeOf(h) \in Int /\ TimeOf(h) + 1 \in Nat
  /\ \A h \in 1..MaxHeight : TimeOf(h) = Timestamps[h]
  /\ \A h, k \in 0..MaxHeight : h <= k => TimeOf(h) <= TimeOf(k)
<1>1. \A h \in 1..MaxHeight : TimeOf(h) = Timestamps[h] /\ TimeOf(h) \in Nat \ {0}
  BY Times DEF TimeOf
<1>2. TimeOf(0) = -1
  BY DEF TimeOf
<1>3. \A h \in 0..MaxHeight : TimeOf(h) \in Int /\ TimeOf(h) + 1 \in Nat
  <2> TAKE h \in 0..MaxHeight
  <2>1. CASE h = 0
    BY <1>2, <2>1
  <2>2. CASE h # 0
    BY <1>1, <2>2
  <2> QED
    BY <2>1, <2>2
<1>4. \A h, k \in 0..MaxHeight : h <= k => TimeOf(h) <= TimeOf(k)
  <2> SUFFICES ASSUME NEW h \in 0..MaxHeight, NEW k \in 0..MaxHeight, h <= k
               PROVE  TimeOf(h) <= TimeOf(k)
    OBVIOUS
  <2>1. CASE h = 0
    <3>1. k = 0 \/ TimeOf(k) \in Nat
      BY <1>1
    <3> QED
      BY <1>2, <2>1, <3>1
  <2>2. CASE h # 0 /\ h = k
    BY <1>3, <2>2
  <2>3. CASE h # 0 /\ h # k
    <3>1. h \in 1..MaxHeight /\ k \in 1..MaxHeight /\ h < k
      BY <2>3
    <3>2. Timestamps[h] < Timestamps[k]
      BY <3>1, Times
    <3> QED
      BY <1>1, <3>1, <3>2
  <2> QED
    BY <2>1, <2>2, <2>3
<1> QED
  BY <1>1, <1>3, <1>4

(* A new block lies beyond what the balances include. *)
LEMMA FlushStep ==
  ASSUME IInv, Flush
  PROVE  IInv'
<1>1. PICK h \in 1..MaxHeight : stored' = h /\ stored < h
  BY DEF IInv, TypeOK, Flush
<1>2. /\ UNCHANGED <<watermark, current, running, refreshEnd, rpc, LastCommittedBlock,
                     committedRead, LastAggregatedBlock, lastAggregated>>
      /\ stored \in 0..MaxHeight /\ LastCommittedBlock \in 0..MaxHeight
      /\ watermark \in Nat /\ refreshEnd \in Nat
  BY DEF IInv, TypeOK, Flush
<1>3. watermark <= TimeOf(stored) + 1 /\ refreshEnd <= TimeOf(stored) + 1
  BY DEF IInv, RefreshInv
<1>4. \A k \in 1..MaxHeight : stored < k => Timestamps[k] >= watermark
  <2> SUFFICES ASSUME NEW k \in 1..MaxHeight, stored < k PROVE Timestamps[k] >= watermark
    OBVIOUS
  <2>1. Timestamps[k] \in Nat \ {0} /\ TimeOf(stored) < Timestamps[k]
    <3>1. CASE stored = 0
      BY <3>1, Times DEF TimeOf
    <3>2. CASE stored # 0
      <4>1. stored \in 1..MaxHeight
        BY <1>2, <3>2
      <4> QED
        BY <4>1, Times, TimesOfHeights
    <3> QED
      BY <3>1, <3>2
  <2>2. TimeOf(stored) \in Int
    BY <1>2, TimesOfHeights
  <2> QED
    BY <1>2, <1>3, <2>1, <2>2
<1>5. TypeOK'
  BY DEF IInv, TypeOK, Flush
<1>6. PublishedInv'
  BY <1>1, <1>2 DEF IInv, TypeOK, PublishedInv, Flush
<1>7. RefreshInv'
  <2>1. TimeOf(stored) <= TimeOf(h) /\ TimeOf(stored) \in Int /\ TimeOf(h) \in Int
    BY <1>1, <1>2, TimesOfHeights
  <2>2. watermark <= TimeOf(h) + 1 /\ refreshEnd <= TimeOf(h) + 1
    BY <1>2, <1>3, <2>1
  <2>3. watermark' <= TimeOf(stored') + 1 /\ refreshEnd' <= TimeOf(stored') + 1
    BY <1>1, <1>2, <2>2
  <2> QED
    BY <1>2, <2>3 DEF IInv, RefreshInv, NotBeyondCommitted
<1>8. SumsExact'
  <2>1. \A k \in Transfers : (k <= stored /\ Timestamps[k] < watermark) <=>
          (k <= h /\ Timestamps[k] < watermark)
    <3> TAKE k \in Transfers
    <3>1. k \in 1..MaxHeight /\ Timestamps[k] \in Nat
      BY Times
    <3>2. k <= h /\ Timestamps[k] < watermark => k <= stored
      BY <1>2, <1>4, <3>1
    <3> QED
      BY <1>1, <1>2, <3>1, <3>2
  <2>2. AggregatedTransfers' = AggregatedTransfers
    BY <1>1, <1>2, <2>1 DEF AggregatedTransfers
  <2> QED
    BY <1>2, <2>2 DEF IInv, SumsExact
<1>9. FaultlessInv'
  BY DEF IInv, FaultlessInv, Flush
<1>10. PingInv'
  BY DEF IInv, PingInv, Flush, Answered, PricesUnderway
<1> QED
  BY <1>5, <1>6, <1>7, <1>8, <1>9, <1>10 DEF IInv

(* The published height grows. *)
LEMMA PublishCommittedStep ==
  ASSUME IInv, PublishCommitted
  PROVE  IInv'
<1>1. /\ LastCommittedBlock' = stored /\ LastCommittedBlock <= stored
      /\ stored \in 0..MaxHeight /\ LastCommittedBlock \in 0..MaxHeight
  BY DEF IInv, TypeOK, PublishedInv, PublishCommitted
<1>2. \A b \in [height : 0..MaxHeight, timestamp : Int] : NotBeyondCommitted(b) =>
        NotBeyondCommitted(b)'
  <2> SUFFICES ASSUME NEW b \in [height : 0..MaxHeight, timestamp : Int], NotBeyondCommitted(b)
               PROVE  NotBeyondCommitted(b)'
    OBVIOUS
  <2> DEFINE limit ==
        IF LastCommittedBlock = 0 THEN Timestamps[1] ELSE TimeOf(LastCommittedBlock)
             next == IF stored = 0 THEN Timestamps[1] ELSE TimeOf(stored)
  <2>1. b.timestamp <= limit /\ b.height <= LastCommittedBlock
        /\ (b.height # 0 => b.timestamp = Timestamps[b.height])
    BY DEF NotBeyondCommitted
  <2>2. limit \in Int /\ next \in Int /\ limit <= next
    <3>1. CASE stored = 0
      BY <1>1, <3>1, Times
    <3>2. CASE stored # 0 /\ LastCommittedBlock = 0
      <4>1. TimeOf(stored) = Timestamps[stored] /\ stored \in 1..MaxHeight
        BY <1>1, <3>2, TimesOfHeights
      <4> QED
        BY <3>2, <4>1, Times
    <3>3. CASE stored # 0 /\ LastCommittedBlock # 0
      BY <1>1, <3>3, TimesOfHeights
    <3> QED
      BY <3>1, <3>2, <3>3
  <2>3. b.timestamp \in Int /\ b.height \in 0..MaxHeight
    OBVIOUS
  <2>4. b.timestamp <= next /\ b.height <= stored
    <3> HIDE DEF limit, next
    <3> QED
      BY <1>1, <2>1, <2>2, <2>3
  <2> QED
    BY <1>1, <2>1, <2>4 DEF NotBeyondCommitted
<1>3. NotBeyondCommitted(LastAggregatedBlock)' /\ NotBeyondCommitted(lastAggregated)'
  BY <1>2 DEF IInv, TypeOK, RefreshInv, NotBeyondCommitted, PublishCommitted
<1>4. TypeOK'
  BY DEF IInv, TypeOK, PublishCommitted
<1>5. PublishedInv'
  BY <1>1 DEF PublishedInv, PublishCommitted
<1>6. RefreshInv'
  BY <1>3 DEF IInv, RefreshInv, PublishCommitted
<1>7. SumsExact'
  BY DEF IInv, SumsExact, PublishCommitted, AggregatedTransfers
<1>8. FaultlessInv'
  BY DEF IInv, FaultlessInv, PublishCommitted
<1>9. PingInv'
  BY DEF IInv, PingInv, PublishCommitted, Answered, PricesUnderway
<1> QED
  BY <1>4, <1>5, <1>6, <1>7, <1>8, <1>9 DEF IInv

(* The state published is that of the newest block. *)
LEMMA PublishLatestStep ==
  ASSUME IInv, PublishLatest
  PROVE  IInv'
<1>1. TypeOK'
  BY DEF IInv, TypeOK, PublishLatest
<1>2. PublishedInv'
  BY DEF IInv, PublishedInv, PublishLatest
<1>3. RefreshInv'
  BY DEF IInv, RefreshInv, PublishLatest, NotBeyondCommitted
<1>4. SumsExact'
  BY DEF IInv, SumsExact, PublishLatest, AggregatedTransfers
<1>5. FaultlessInv'
  BY DEF IInv, FaultlessInv, PublishLatest
<1>6. PingInv'
  BY DEF IInv, PingInv, PublishLatest, Answered, PricesUnderway
<1> QED
  BY <1>1, <1>2, <1>3, <1>4, <1>5, <1>6 DEF IInv

(* A request waits for the refresh. *)
LEMMA RequestAggregatesRefreshStep ==
  ASSUME IInv, RequestAggregatesRefresh
  PROVE  IInv'
<1>1. TypeOK'
  BY DEF IInv, TypeOK, RequestAggregatesRefresh
<1>2. PublishedInv'
  BY DEF IInv, PublishedInv, RequestAggregatesRefresh
<1>3. RefreshInv'
  BY DEF IInv, RefreshInv, RequestAggregatesRefresh, NotBeyondCommitted
<1>4. SumsExact'
  BY DEF IInv, SumsExact, RequestAggregatesRefresh, AggregatedTransfers
<1>5. FaultlessInv'
  BY DEF IInv, FaultlessInv, RequestAggregatesRefresh
<1>6. PingInv'
  BY DEF IInv, PingInv, RequestAggregatesRefresh, Answered, PricesUnderway
<1> QED
  BY <1>1, <1>2, <1>3, <1>4, <1>5, <1>6 DEF IInv

(* The refresh has taken the request. *)
LEMMA RefreshWakesStep ==
  ASSUME IInv, RefreshWakes
  PROVE  IInv'
<1>1. TypeOK'
  BY DEF IInv, TypeOK, RefreshWakes
<1>2. PublishedInv'
  BY DEF IInv, PublishedInv, RefreshWakes
<1>3. RefreshInv'
  BY DEF IInv, RefreshInv, RefreshWakes, NotBeyondCommitted
<1>4. SumsExact'
  BY DEF IInv, SumsExact, RefreshWakes, AggregatedTransfers
<1>5. FaultlessInv'
  BY DEF IInv, FaultlessInv, RefreshWakes
<1>6. PingInv'
  BY DEF IInv, PingInv, RefreshWakes, Answered, PricesUnderway
<1> QED
  BY <1>1, <1>2, <1>3, <1>4, <1>5, <1>6 DEF IInv

(* The refresh does not begin before the first block, and does not go *)
(* beyond the newest.                                                 *)
LEMMA ReadHeightsStep ==
  ASSUME IInv, ReadHeights
  PROVE  IInv'
<1>1. /\ LastCommittedBlock \in 0..MaxHeight /\ stored \in 0..MaxHeight
      /\ LastCommittedBlock <= stored
      /\ LastAggregatedBlock \in [height : 0..MaxHeight, timestamp : Int]
      /\ NotBeyondCommitted(LastAggregatedBlock)
  BY DEF IInv, TypeOK, PublishedInv, RefreshInv
<1>2. PICK f \in [height : 0..MaxHeight, timestamp : Nat] :
        /\ f = FromFirstBlock /\ f.height = LastAggregatedBlock.height
        /\ LastAggregatedBlock.timestamp <= f.timestamp /\ Timestamps[1] <= f.timestamp
        /\ f = LastAggregatedBlock \/ f.timestamp = Timestamps[1]
  <2>1. Timestamps[1] \in Nat \ {0}
    BY Times
  <2>2. CASE LastAggregatedBlock.timestamp < Timestamps[1]
    <3>1. FromFirstBlock = [height |-> LastAggregatedBlock.height, timestamp |-> Timestamps[1]]
      BY <2>2 DEF FromFirstBlock
    <3>2. LastAggregatedBlock.height \in 0..MaxHeight /\ LastAggregatedBlock.timestamp \in Int
      BY <1>1
    <3> QED
      BY <2>1, <2>2, <3>1, <3>2
  <2>3. CASE ~(LastAggregatedBlock.timestamp < Timestamps[1])
    <3>1. FromFirstBlock = LastAggregatedBlock
      BY <2>3 DEF FromFirstBlock
    <3>2. LastAggregatedBlock.timestamp \in Nat /\ Timestamps[1] <= LastAggregatedBlock.timestamp
      BY <1>1, <2>1, <2>3
    <3>3. LastAggregatedBlock \in [height : 0..MaxHeight, timestamp : Nat]
      BY <1>1, <3>2
    <3> QED
      BY <3>1, <3>2, <3>3
  <2> QED
    BY <2>2, <2>3
<1> DEFINE time == TimeOf(LastCommittedBlock)
           limit == IF LastCommittedBlock = 0 THEN Timestamps[1] ELSE time
<1>3. /\ time \in Int /\ time + 1 \in Nat /\ time <= TimeOf(stored) /\ TimeOf(stored) \in Int
      /\ LastCommittedBlock # 0 => Timestamps[1] <= time /\ time = Timestamps[LastCommittedBlock]
      /\ LastCommittedBlock = 0 => time = -1
      /\ limit \in Int /\ time <= limit /\ Timestamps[1] <= limit /\ Timestamps[1] \in Nat \ {0}
  <2>1. time \in Int /\ time + 1 \in Nat /\ time <= TimeOf(stored) /\ TimeOf(stored) \in Int
    BY <1>1, TimesOfHeights
  <2>2. LastCommittedBlock # 0 => Timestamps[1] <= time /\ time = Timestamps[LastCommittedBlock]
    BY <1>1, TimesOfHeights, Times
  <2>3. LastCommittedBlock = 0 => time = -1
    BY DEF TimeOf
  <2>4. Timestamps[1] \in Nat \ {0}
    BY Times
  <2> QED
    BY <2>1, <2>2, <2>3, <2>4
<1>4. f.timestamp <= limit
  <2>1. LastAggregatedBlock.timestamp <= limit
    BY <1>1 DEF NotBeyondCommitted
  <2> QED
    BY <1>2, <1>3, <2>1
<1> HIDE DEF limit, time
<1>5. TooFar <=> time + 1 > f.timestamp + MaxStep
  BY <1>2 DEF TooFar, time
<1>6. /\ NextRefreshEnd \in Nat /\ NextRefreshEnd <= TimeOf(stored) + 1
      /\ NextAggregated \in [height : 0..MaxHeight, timestamp : Int]
      /\ NextAggregated.height <= LastCommittedBlock
      /\ NextAggregated.timestamp <= limit
      /\ NextAggregated.height # 0 =>
           /\ NextAggregated.timestamp = Timestamps[NextAggregated.height]
           /\ NextAggregated.timestamp < NextRefreshEnd
      /\ LastCommittedBlock # 0 => f.timestamp <= NextAggregated.timestamp
  <2>1. f.timestamp \in Nat
    BY <1>2
  <2>2. CASE TooFar
    <3>1. /\ NextRefreshEnd = f.timestamp + MaxStep
          /\ NextAggregated = [height |-> 0, timestamp |-> f.timestamp + MaxStep]
      BY <1>2, <2>2 DEF NextRefreshEnd, NextAggregated
    <3>2. PICK e \in Nat : e = f.timestamp + MaxStep
      BY <2>1
    <3>3. e < time + 1
      BY <1>5, <2>2, <3>2
    <3>4. e <= TimeOf(stored) + 1 /\ e <= limit /\ f.timestamp <= e
      BY <1>3, <2>1, <3>2, <3>3
    <3>5. NextRefreshEnd = e /\ NextAggregated = [height |-> 0, timestamp |-> e]
      BY <3>1, <3>2
    <3>6. 0 \in 0..MaxHeight /\ 0 <= LastCommittedBlock
      BY <1>1
    <3> QED
      BY <3>4, <3>5, <3>6
  <2>3. CASE ~TooFar
    <3>1. /\ NextRefreshEnd = time + 1
          /\ NextAggregated = [height |-> LastCommittedBlock, timestamp |-> time]
      BY <2>3 DEF NextRefreshEnd, NextAggregated, CommittedBlock, time
    <3>2. LastCommittedBlock # 0 => f.timestamp <= time
      BY <1>4 DEF limit
    <3>3. time < time + 1 /\ time + 1 <= TimeOf(stored) + 1
      BY <1>3
    <3> QED
      BY <1>1, <1>3, <3>1, <3>2, <3>3
  <2> QED
    BY <2>2, <2>3
<1>7. /\ LastAggregatedBlock' = f /\ refreshEnd' = NextRefreshEnd
      /\ lastAggregated' = NextAggregated /\ caughtUp' = ~TooFar
      /\ committedRead' = LastCommittedBlock /\ viewsLeft' = Views /\ rpc' = "views"
      /\ UNCHANGED <<processVars, faults, tables, writerVars, refreshRequests, bulk,
                     WebsocketNotify, socketVars>>
  BY <1>2 DEF ReadHeights
<1>8. TypeOK'
  <2>1. f \in [height : 0..MaxHeight, timestamp : Int]
    BY <1>2
  <2>2. caughtUp' \in BOOLEAN
    BY <1>7
  <2>3. RefreshOK'
    BY <1>1, <1>6, <1>7, <2>1, <2>2 DEF IInv, TypeOK
  <2> QED
    BY <1>7, <2>3 DEF IInv, TypeOK
<1>9. PublishedInv'
  BY <1>7 DEF IInv, PublishedInv
<1>10. RefreshInv'
  <2>1. f.height # 0 => f.timestamp = Timestamps[f.height]
    <3> SUFFICES ASSUME f.height # 0 PROVE f.timestamp = Timestamps[f.height]
      OBVIOUS
    <3>1. LastAggregatedBlock.timestamp = Timestamps[LastAggregatedBlock.height]
          /\ LastAggregatedBlock.height \in 1..MaxHeight
      BY <1>1, <1>2 DEF NotBeyondCommitted
    <3>2. Timestamps[1] <= LastAggregatedBlock.timestamp /\ LastAggregatedBlock.timestamp \in Nat
      BY <3>1, Times
    <3>3. f.timestamp = LastAggregatedBlock.timestamp
      BY <1>2, <1>3, <3>2
    <3> QED
      BY <1>2, <3>1, <3>3
  <2>2. f.height <= LastCommittedBlock
    BY <1>1, <1>2 DEF NotBeyondCommitted
  <2>3. NotBeyondCommitted(LastAggregatedBlock)'
    BY <1>4, <1>7, <2>1, <2>2 DEF NotBeyondCommitted, limit, time
  <2>4. NotBeyondCommitted(lastAggregated)'
    BY <1>6, <1>7 DEF NotBeyondCommitted, limit, time
  <2>5. watermark' <= TimeOf(stored)' + 1 /\ refreshEnd' <= TimeOf(stored)' + 1
    BY <1>6, <1>7 DEF IInv, RefreshInv
  <2>6. lastAggregated'.height # 0 => lastAggregated'.timestamp < refreshEnd'
    BY <1>6, <1>7
  <2>7. committedRead' # 0 => LastAggregatedBlock'.timestamp <= lastAggregated'.timestamp
    BY <1>6, <1>7
  <2> QED
    BY <2>3, <2>4, <2>5, <2>6, <2>7 DEF RefreshInv
<1>11. SumsExact'
  BY <1>7 DEF IInv, SumsExact, AggregatedTransfers
<1>12. FaultlessInv'
  <2> SUFFICES ASSUME faults = 0
               PROVE  ~cancelled /\ (f.height # 0 => f.timestamp < watermark)
    BY <1>7 DEF FaultlessInv
  <2>1. ~cancelled /\ (LastAggregatedBlock.height # 0 =>
          LastAggregatedBlock.timestamp < watermark)
    BY DEF IInv, FaultlessInv
  <2>2. f.height # 0 => f = LastAggregatedBlock \/ f.timestamp <= LastAggregatedBlock.timestamp
    <3> SUFFICES ASSUME f.height # 0, f.timestamp = Timestamps[1]
                 PROVE  f.timestamp <= LastAggregatedBlock.timestamp
      BY <1>2
    <3>1. LastAggregatedBlock.timestamp = Timestamps[LastAggregatedBlock.height]
          /\ LastAggregatedBlock.height \in 1..MaxHeight
      BY <1>1, <1>2 DEF NotBeyondCommitted
    <3> QED
      BY <3>1, Times
  <2>3. watermark \in Nat /\ LastAggregatedBlock.timestamp \in Int /\ f.timestamp \in Nat
    BY <1>1, <1>2 DEF IInv, TypeOK
  <2> QED
    BY <1>2, <2>1, <2>2, <2>3
<1>13. PingInv'
  BY <1>7 DEF PingInv, Answered
<1> QED
  BY <1>8, <1>9, <1>10, <1>11, <1>12, <1>13 DEF IInv

(* Only a view changes. *)
LEMMA RefreshViewStep ==
  ASSUME IInv, RefreshView
  PROVE  IInv'
<1>1. materialized' \in [Views -> Nat] /\ viewsLeft' \subseteq Views
  <2>1. PICK v \in viewsLeft :
          /\ viewsLeft' = viewsLeft \ {v}
          /\ \/ materialized' = [materialized EXCEPT ![v] = Max({@, refreshEnd})]
             \/ UNCHANGED materialized
    BY DEF RefreshView
  <2>2. materialized \in [Views -> Nat] /\ v \in Views /\ refreshEnd \in Nat
          /\ viewsLeft \subseteq Views
    BY DEF IInv, TypeOK
  <2>3. Max({materialized[v], refreshEnd}) \in Nat
    <3>1. PICK n \in Nat : materialized[v] <= n /\ refreshEnd <= n
      BY <2>2
    <3>2. {materialized[v], refreshEnd} \subseteq Nat
            /\ \A x \in {materialized[v], refreshEnd} : x <= n
      BY <2>2, <3>1
    <3>3. Max({materialized[v], refreshEnd}) \in {materialized[v], refreshEnd}
      BY <3>2, MaxOf
    <3> QED
      BY <3>2, <3>3
  <2> QED
    BY <2>1, <2>2, <2>3
<1>2. faults' = faults \/ faults' \in 1..MaxFaults
  BY DEF IInv, TypeOK, RefreshView, Fault
<1>3. UNCHANGED <<processVars, stored, watermark, current, running, writerVars, refreshRequests,
                  rpc, bulk, refreshEnd, lastAggregated, caughtUp, committedRead,
                  LastAggregatedBlock, WebsocketNotify, socketVars>>
  BY DEF RefreshView
<1>4. TypeOK'
  BY <1>1, <1>2, <1>3 DEF IInv, TypeOK
<1>5. PublishedInv'
  BY <1>3 DEF IInv, PublishedInv
<1>6. RefreshInv'
  BY <1>3 DEF IInv, RefreshInv, NotBeyondCommitted
<1>7. SumsExact'
  BY <1>3 DEF IInv, SumsExact, AggregatedTransfers
<1>8. FaultlessInv'
  BY <1>2, <1>3 DEF IInv, FaultlessInv
<1>9. PingInv'
  BY <1>3 DEF IInv, PingInv, Answered, PricesUnderway
<1> QED
  BY <1>4, <1>5, <1>6, <1>7, <1>8, <1>9 DEF IInv

(* Without an interrupt the balances come next. *)
LEMMA ViewsDoneStep ==
  ASSUME IInv, ViewsDone
  PROVE  IInv'
<1>1. TypeOK'
  BY DEF IInv, TypeOK, ViewsDone
<1>2. PublishedInv'
  BY DEF IInv, PublishedInv, ViewsDone
<1>3. RefreshInv'
  BY DEF IInv, RefreshInv, ViewsDone, NotBeyondCommitted
<1>4. SumsExact'
  BY DEF IInv, SumsExact, ViewsDone, AggregatedTransfers
<1>5. FaultlessInv'
  BY DEF IInv, FaultlessInv, ViewsDone
<1>6. PingInv'
  BY DEF IInv, PingInv, ViewsDone, Answered, PricesUnderway
<1> QED
  BY <1>1, <1>2, <1>3, <1>4, <1>5, <1>6 DEF IInv

(* Each transfer is added once, or none is. *)
LEMMA UpdateBalancesStep ==
  ASSUME IInv, UpdateBalances
  PROVE  IInv'
<1>1. UNCHANGED <<processVars, writerVars, refreshRequests, localVars, LastAggregatedBlock,
                  WebsocketNotify, socketVars, stored, materialized>>
      /\ rpc' = "set" /\ rpc = "balances"
  BY DEF UpdateBalances, BalancesUpdated
<1>2. faults' = faults \/ faults' \in 1..MaxFaults
  BY DEF IInv, TypeOK, UpdateBalances, Fault
<1>3. ~KeyViolated
  <2> SUFFICES ASSUME NEW r \in running, r.height \in Interval PROVE FALSE
    BY DEF KeyViolated
  <2>1. r.height \in current
    BY DEF IInv, SumsExact
  <2>2. Timestamps[r.height] < watermark
    BY <2>1 DEF IInv, SumsExact, AggregatedTransfers
  <2>3. watermark <= Timestamps[r.height] /\ r.height \in 1..MaxHeight
    BY DEF Interval
  <2>4. Timestamps[r.height] \in Nat /\ watermark \in Nat
    BY <2>3, Times DEF IInv, TypeOK
  <2> QED
    BY <2>2, <2>3, <2>4
<1>4. \/ BalancesUpdated /\ watermark < refreshEnd
      \/ UNCHANGED tables
  <2>1. watermark \in Nat /\ refreshEnd \in Nat
    BY DEF IInv, TypeOK
  <2> QED
    BY <2>1 DEF UpdateBalances, IntoThePast
<1>5. faults' = 0 => refreshEnd <= watermark'
  <2> SUFFICES ASSUME faults' = 0 PROVE refreshEnd <= watermark'
    OBVIOUS
  <2>1. faults \in Nat /\ watermark \in Nat /\ refreshEnd \in Nat
    BY DEF IInv, TypeOK
  <2>2. ~Fault /\ faults = 0
    BY <1>2, <2>1 DEF Fault
  <2>3. ~cancelled
    BY <2>2 DEF IInv, FaultlessInv
  <2> QED
    BY <1>3, <2>1, <2>2, <2>3 DEF UpdateBalances, BalancesUpdated, IntoThePast
<1>6. ASSUME BalancesUpdated, watermark < refreshEnd
      PROVE  /\ current' = AggregatedTransfers'
             /\ running' = {[height |-> h, sum |-> {k \in current' : k <= h}] : h \in current'}
  <2>1. /\ current' = current \cup Interval /\ running' = running \cup RowsOf(Interval)
        /\ watermark' = refreshEnd /\ stored' = stored
    BY <1>6 DEF BalancesUpdated
  <2>2. /\ current = {h \in Transfers : h <= stored /\ Timestamps[h] < watermark}
        /\ running = {[height |-> h, sum |-> {k \in current : k <= h}] : h \in current}
    BY DEF IInv, SumsExact, AggregatedTransfers
  <2>3. /\ \A h \in Transfers : Timestamps[h] \in Nat /\ h \in 1..MaxHeight
        /\ \A h, k \in Transfers : h < k => Timestamps[h] < Timestamps[k]
        /\ watermark \in Nat /\ refreshEnd \in Nat
    BY Times DEF IInv, TypeOK
  <2>4. Interval = {h \in Transfers : h <= stored /\ watermark <= Timestamps[h]
          /\ Timestamps[h] < refreshEnd}
    BY DEF Interval
  <2>5. current' = {h \in Transfers : h <= stored /\ Timestamps[h] < refreshEnd}
    <3>1. \A h \in Transfers : (Timestamps[h] < refreshEnd) <=>
            (Timestamps[h] < watermark \/ (watermark <= Timestamps[h]
              /\ Timestamps[h] < refreshEnd))
      BY <1>6, <2>3
    <3> QED
      BY <2>1, <2>2, <2>4, <3>1
  <2>6. current' = AggregatedTransfers'
    BY <2>1, <2>5 DEF AggregatedTransfers
  <2>7. \A h \in current : {k \in current : k <= h} = {k \in current' : k <= h}
    <3> SUFFICES ASSUME NEW h \in current, NEW k \in Interval, k <= h PROVE FALSE
      BY <2>1
    <3>1. /\ h \in Transfers /\ Timestamps[h] < watermark
          /\ k \in Transfers /\ watermark <= Timestamps[k]
      BY <2>2, <2>4
    <3>2. h = k \/ k < h
      BY <2>3, <3>1
    <3> QED
      BY <2>3, <3>1, <3>2
  <2>8. \A h \in Interval : current \cup {k \in Interval : k <= h} = {k \in current' : k <= h}
    <3> SUFFICES ASSUME NEW h \in Interval, NEW k \in current PROVE k <= h
      BY <2>1
    <3>1. /\ k \in Transfers /\ Timestamps[k] < watermark
          /\ h \in Transfers /\ watermark <= Timestamps[h]
      BY <2>2, <2>4
    <3>2. ~(h < k)
      BY <2>3, <3>1
    <3> QED
      BY <2>3, <3>1, <3>2
  <2>9. RowsOf(Interval) = {[height |-> h, sum |-> {k \in current' : k <= h}] : h \in Interval}
    BY <2>8 DEF RowsOf
  <2>10. running = {[height |-> h, sum |-> {k \in current' : k <= h}] : h \in current}
    BY <2>2, <2>7
  <2> QED
    BY <2>1, <2>6, <2>9, <2>10
<1>7. SumsExact'
  <2>1. CASE BalancesUpdated /\ watermark < refreshEnd
    BY <1>6, <2>1 DEF SumsExact
  <2>2. CASE UNCHANGED tables
    BY <2>2 DEF IInv, SumsExact, AggregatedTransfers
  <2> QED
    BY <1>4, <2>1, <2>2
<1>8. watermark' \in {watermark, refreshEnd}
  BY <1>4 DEF BalancesUpdated
<1>9. TypeOK'
  <2>1. current' \subseteq Transfers
    BY <1>7 DEF SumsExact, AggregatedTransfers
  <2>2. running' \subseteq [height : Transfers, sum : SUBSET Transfers]
    <3>1. \A h \in current' : [height |-> h, sum |-> {k \in current' : k <= h}]
                                \in [height : Transfers, sum : SUBSET Transfers]
      BY <2>1
    <3> QED
      BY <1>7, <3>1 DEF SumsExact
  <2>3. watermark' \in Nat
    BY <1>8 DEF IInv, TypeOK
  <2> QED
    BY <1>1, <1>2, <2>1, <2>2, <2>3 DEF IInv, TypeOK
<1>10. PublishedInv'
  BY <1>1 DEF IInv, PublishedInv
<1>11. RefreshInv'
  BY <1>1, <1>8 DEF IInv, RefreshInv, NotBeyondCommitted
<1>12. SumsExact'
  BY <1>7
<1>13. FaultlessInv'
  <2> SUFFICES ASSUME faults' = 0
               PROVE  /\ ~cancelled
                      /\ LastAggregatedBlock.height # 0 =>
                           LastAggregatedBlock.timestamp < watermark'
                      /\ lastAggregated.height # 0 => lastAggregated.timestamp < watermark'
    BY <1>1 DEF FaultlessInv
  <2>1. faults = 0
    BY <1>2
  <2>2. refreshEnd <= watermark'
    BY <1>5
  <2>3. watermark <= watermark' /\ watermark' \in Nat
    <3>1. watermark \in Nat /\ refreshEnd \in Nat
      BY DEF IInv, TypeOK
    <3> QED
      BY <1>4, <3>1 DEF BalancesUpdated
  <2>4. /\ LastAggregatedBlock.timestamp \in Int /\ lastAggregated.timestamp \in Int
        /\ refreshEnd \in Nat /\ watermark \in Nat
    BY DEF IInv, TypeOK
  <2>5. /\ ~cancelled /\ (LastAggregatedBlock.height # 0 =>
             LastAggregatedBlock.timestamp < watermark)
        /\ lastAggregated.height # 0 => lastAggregated.timestamp < refreshEnd
    BY <2>1 DEF IInv, FaultlessInv, RefreshInv
  <2> QED
    BY <2>2, <2>3, <2>4, <2>5
<1>14. PingInv'
  BY <1>1 DEF PingInv, Answered
<1> QED
  BY <1>9, <1>10, <1>11, <1>12, <1>13, <1>14 DEF IInv

(* A refresh that was requested and left nothing has pinged. *)
LEMMA SetAggregatedStep ==
  ASSUME IInv, SetAggregated
  PROVE  IInv'
<1>1. WebsocketsPing \in 1..PingCapacity
  <2>1. PICK n \in Nat : n = WebsocketNotify + 1 /\ n # 0
    BY DEF IInv, TypeOK
  <2>2. {n, PingCapacity} \subseteq Nat
    BY <2>1
  <2>3. PICK m : m = Min({n, PingCapacity}) /\ m \in {n, PingCapacity}
               /\ \A x \in {n, PingCapacity} : m <= x
    BY <2>2, MinOf
  <2>4. m \in Nat /\ m # 0 /\ m <= PingCapacity
    BY <2>1, <2>3
  <2>5. WebsocketsPing = m
    BY <2>1, <2>3 DEF WebsocketsPing
  <2> QED
    BY <2>4, <2>5
<1>2. /\ WebsocketNotify' \in {WebsocketNotify, WebsocketsPing}
      /\ ~bulk /\ caughtUp => WebsocketNotify' = WebsocketsPing
      /\ LastAggregatedBlock' = lastAggregated /\ rpc' = "wait" /\ rpc = "set"
      /\ UNCHANGED <<processVars, faults, tables, writerVars, refreshRequests, localVars,
                     socketVars>>
  BY DEF SetAggregated
<1>3. TypeOK'
  BY <1>1, <1>2 DEF IInv, TypeOK
<1>4. PublishedInv'
  BY <1>2 DEF IInv, PublishedInv
<1>5. RefreshInv'
  BY <1>2 DEF IInv, RefreshInv, NotBeyondCommitted
<1>6. SumsExact'
  BY <1>2 DEF IInv, SumsExact, AggregatedTransfers
<1>7. FaultlessInv'
  BY <1>2 DEF IInv, FaultlessInv
<1>8. PingInv'
  BY <1>1, <1>2 DEF PingInv, Answered, PricesUnderway
<1> QED
  BY <1>3, <1>4, <1>5, <1>6, <1>7, <1>8 DEF IInv

(* The refresh ends. *)
LEMMA RefreshStopsStep ==
  ASSUME IInv, RefreshStops
  PROVE  IInv'
<1>1. TypeOK'
  BY DEF IInv, TypeOK, RefreshStops
<1>2. PublishedInv'
  BY DEF IInv, PublishedInv, RefreshStops
<1>3. RefreshInv'
  BY DEF IInv, RefreshInv, RefreshStops, NotBeyondCommitted
<1>4. SumsExact'
  BY DEF IInv, SumsExact, RefreshStops, AggregatedTransfers
<1>5. FaultlessInv'
  BY DEF IInv, FaultlessInv, RefreshStops
<1>6. PingInv'
  BY DEF IInv, PingInv, RefreshStops, Answered, PricesUnderway
<1> QED
  BY <1>1, <1>2, <1>3, <1>4, <1>5, <1>6 DEF IInv

(* A ping that is taken is answered after the others. *)
LEMMA WaitForBlockStep ==
  ASSUME IInv, WaitForBlock
  PROVE  IInv'
<1>1. TypeOK'
  BY DEF IInv, TypeOK, WaitForBlock
<1>2. PublishedInv'
  BY DEF IInv, PublishedInv, WaitForBlock
<1>3. RefreshInv'
  BY DEF IInv, RefreshInv, WaitForBlock, NotBeyondCommitted
<1>4. SumsExact'
  BY DEF IInv, SumsExact, WaitForBlock, AggregatedTransfers
<1>5. FaultlessInv'
  BY DEF IInv, FaultlessInv, WaitForBlock
<1>6. PingInv'
  BY DEF IInv, PingInv, WaitForBlock, Answered, PricesUnderway
<1> QED
  BY <1>1, <1>2, <1>3, <1>4, <1>5, <1>6 DEF IInv

(* The prices are those of the newest block if its state is published. *)
LEMMA NotifyReadsStep ==
  ASSUME IInv, NotifyReads
  PROVE  IInv'
<1>1. TypeOK'
  BY DEF IInv, TypeOK, NotifyReads
<1>2. PublishedInv'
  BY DEF IInv, PublishedInv, NotifyReads
<1>3. RefreshInv'
  BY DEF IInv, RefreshInv, NotifyReads, NotBeyondCommitted
<1>4. SumsExact'
  BY DEF IInv, SumsExact, NotifyReads, AggregatedTransfers
<1>5. FaultlessInv'
  BY DEF IInv, FaultlessInv, NotifyReads
<1>6. PingInv'
  BY DEF IInv, PublishedInv, PingInv, Answered, PricesUnderway, NotifyReads
<1> QED
  BY <1>1, <1>2, <1>3, <1>4, <1>5, <1>6 DEF IInv

(* The prices that were read are sent. *)
LEMMA NotifyWritesStep ==
  ASSUME IInv, NotifyWrites
  PROVE  IInv'
<1>1. TypeOK'
  BY DEF IInv, TypeOK, NotifyWrites
<1>2. PublishedInv'
  BY DEF IInv, PublishedInv, NotifyWrites
<1>3. RefreshInv'
  BY DEF IInv, RefreshInv, NotifyWrites, NotBeyondCommitted
<1>4. SumsExact'
  BY DEF IInv, SumsExact, NotifyWrites, AggregatedTransfers
<1>5. FaultlessInv'
  BY DEF IInv, FaultlessInv, NotifyWrites
<1>6. PingInv'
  BY DEF IInv, PingInv, NotifyWrites, Answered, PricesUnderway
<1> QED
  BY <1>1, <1>2, <1>3, <1>4, <1>5, <1>6 DEF IInv

(* The loop ends. *)
LEMMA SocketStopsStep ==
  ASSUME IInv, SocketStops
  PROVE  IInv'
<1>1. TypeOK'
  BY DEF IInv, TypeOK, SocketStops
<1>2. PublishedInv'
  BY DEF IInv, PublishedInv, SocketStops
<1>3. RefreshInv'
  BY DEF IInv, RefreshInv, SocketStops, NotBeyondCommitted
<1>4. SumsExact'
  BY DEF IInv, SumsExact, SocketStops, AggregatedTransfers
<1>5. FaultlessInv'
  BY DEF IInv, FaultlessInv, SocketStops
<1>6. PingInv'
  BY DEF IInv, PingInv, SocketStops, Answered, PricesUnderway
<1> QED
  BY <1>1, <1>2, <1>3, <1>4, <1>5, <1>6 DEF IInv

(* The memory begins anew, and the aggregates with it or from their tables. *)
LEMMA StartProcessStep ==
  ASSUME IInv, StartProcess
  PROVE  IInv'
<1>1. /\ wpc' = "idle" /\ synced' = FALSE /\ LastCommittedBlock' = stored /\ Latest' = stored
      /\ refreshRequests' = FALSE /\ rpc' = "wait" /\ bulk' = FALSE /\ refreshEnd' = 0
      /\ caughtUp' = FALSE /\ viewsLeft' = {} /\ committedRead' = 0
      /\ WebsocketNotify' = 0 /\ spc' = "wait" /\ prices' = 0 /\ sent' = 0
      /\ up' = TRUE /\ cancelled' = FALSE
  BY DEF StartProcess, LoadMemory
<1>2. /\ lastAggregated' = [height |-> 0, timestamp |-> 0]
      /\ LastAggregatedBlock' = [height |-> 0, timestamp |-> 0]
  BY DEF StartProcess, LoadMemory, NoBlock
<1>3. /\ stored' = stored /\ stored \in 0..MaxHeight
      /\ \/ UNCHANGED <<faults, watermark, current, running, materialized>>
         \/ /\ faults' \in 1..MaxFaults /\ watermark' = 0 /\ current' = {} /\ running' = {}
            /\ materialized' = [v \in Views |-> 0]
  BY DEF IInv, TypeOK, StartProcess, Fault
<1>4. TimeOf(stored) \in Int /\ TimeOf(stored) + 1 \in Nat /\ watermark' <= TimeOf(stored) + 1
  <2>1. TimeOf(stored) \in Int /\ TimeOf(stored) + 1 \in Nat
    BY <1>3, TimesOfHeights
  <2> QED
    BY <1>3, <2>1 DEF IInv, RefreshInv
<1>5. TypeOK'
  <2>1. TablesOK' /\ faults' \in 0..MaxFaults
    <3>1. CASE UNCHANGED <<faults, watermark, current, running, materialized>>
      BY <1>3, <3>1 DEF IInv, TypeOK
    <3>2. CASE faults' \in 1..MaxFaults /\ watermark' = 0 /\ current' = {} /\ running' = {}
                 /\ materialized' = [v \in Views |-> 0]
      <4>1. materialized' \in [Views -> Nat]
        BY <3>2
      <4> QED
        BY <1>3, <3>2, <4>1
    <3> QED
      BY <1>3, <3>1, <3>2
  <2>2. bulk' \in BOOLEAN /\ caughtUp' \in BOOLEAN
    BY <1>1
  <2>3. RefreshOK'
    BY <1>1, <1>2, <2>2
  <2>4. PublishedOK'
    BY <1>1, <1>3
  <2>5. FlagsOK'
    BY <1>1
  <2> QED
    BY <2>1, <2>3, <2>4, <2>5 DEF TypeOK
<1>6. PublishedInv'
  BY <1>1, <1>3 DEF PublishedInv
<1>7. RefreshInv'
  <2> DEFINE b == [height |-> 0, timestamp |-> 0]
  <2>1. 0 <= IF stored = 0 THEN Timestamps[1] ELSE TimeOf(stored)
    <3>1. stored # 0 => TimeOf(stored) \in Nat
      BY <1>3, Times, TimesOfHeights
    <3> QED
      BY <1>4, <3>1, Times
  <2>2. NotBeyondCommitted(LastAggregatedBlock)' /\ NotBeyondCommitted(lastAggregated)'
    BY <1>1, <1>2, <1>3, <2>1 DEF NotBeyondCommitted, TimeOf
  <2>3. watermark' <= TimeOf(stored)' + 1 /\ refreshEnd' <= TimeOf(stored)' + 1
    BY <1>1, <1>3, <1>4
  <2> QED
    BY <1>1, <1>2, <2>2, <2>3 DEF RefreshInv
<1>8. SumsExact'
  <2>1. CASE UNCHANGED <<watermark, current, running>>
    BY <1>3, <2>1 DEF IInv, SumsExact, AggregatedTransfers
  <2>2. CASE watermark' = 0 /\ current' = {} /\ running' = {}
    <3>1. AggregatedTransfers' = {}
      <4>1. \A h \in Transfers : ~(Timestamps[h] < 0)
        BY Times
      <4> QED
        BY <2>2, <4>1 DEF AggregatedTransfers
    <3> QED
      BY <2>2, <3>1 DEF SumsExact
  <2> QED
    BY <1>3, <2>1, <2>2
<1>9. FaultlessInv'
  BY <1>1, <1>2 DEF FaultlessInv
<1>10. PingInv'
  BY <1>1 DEF PingInv, Answered
<1> QED
  BY <1>5, <1>6, <1>7, <1>8, <1>9, <1>10 DEF IInv

(* Only the tables are left. *)
LEMMA EndProcessStep ==
  ASSUME IInv, EndProcess
  PROVE  IInv'
<1>1. TypeOK'
  BY DEF IInv, TypeOK, EndProcess
<1>2. PublishedInv'
  BY DEF IInv, PublishedInv, EndProcess
<1>3. RefreshInv'
  BY DEF IInv, RefreshInv, EndProcess, NotBeyondCommitted
<1>4. SumsExact'
  BY DEF IInv, SumsExact, EndProcess, AggregatedTransfers
<1>5. FaultlessInv'
  BY DEF IInv, FaultlessInv, EndProcess
<1>6. PingInv'
  BY DEF IInv, PingInv, EndProcess, Answered, PricesUnderway
<1> QED
  BY <1>1, <1>2, <1>3, <1>4, <1>5, <1>6 DEF IInv

(* The context is cancelled. *)
LEMMA InterruptStep ==
  ASSUME IInv, Interrupt
  PROVE  IInv'
<1>1. faults' \in 1..MaxFaults
  BY DEF IInv, TypeOK, Interrupt, Fault
<1>2. TypeOK'
  BY DEF IInv, TypeOK, Interrupt, Fault
<1>3. PublishedInv'
  BY DEF IInv, PublishedInv, Interrupt, Fault
<1>4. RefreshInv'
  BY DEF IInv, RefreshInv, Interrupt, Fault, NotBeyondCommitted
<1>5. SumsExact'
  BY DEF IInv, SumsExact, Interrupt, Fault, AggregatedTransfers
<1>6. FaultlessInv'
  BY <1>1 DEF FaultlessInv
<1>7. PingInv'
  BY DEF IInv, PingInv, Interrupt, Fault, Answered, PricesUnderway
<1> QED
  BY <1>2, <1>3, <1>4, <1>5, <1>6, <1>7 DEF IInv

(* Only the tables are left. *)
LEMMA KillStep ==
  ASSUME IInv, Kill
  PROVE  IInv'
<1>1. faults' \in 1..MaxFaults
  BY DEF IInv, TypeOK, Kill, Fault
<1>2. TypeOK'
  <2>1. /\ up' = FALSE /\ wpc' = "down" /\ rpc' = "done" /\ spc' = "done"
        /\ UNCHANGED <<cancelled, tables, synced, LastCommittedBlock, Latest, refreshRequests,
                       localVars, LastAggregatedBlock, WebsocketNotify, prices, sent>>
    BY DEF Kill
  <2>2. up' \in BOOLEAN
    BY <2>1
  <2> QED
    BY <1>1, <2>1, <2>2 DEF IInv, TypeOK
<1>3. PublishedInv'
  BY DEF IInv, PublishedInv, Kill, Fault
<1>4. RefreshInv'
  BY DEF IInv, RefreshInv, Kill, Fault, NotBeyondCommitted
<1>5. SumsExact'
  BY DEF IInv, SumsExact, Kill, Fault, AggregatedTransfers
<1>6. FaultlessInv'
  BY <1>1 DEF FaultlessInv
<1>7. PingInv'
  BY DEF IInv, PingInv, Kill, Fault, Answered, PricesUnderway
<1> QED
  BY <1>2, <1>3, <1>4, <1>5, <1>6, <1>7 DEF IInv

-----------------------------------------------------------------------------
(* The invariant. *)

(* Nothing is stored and nothing runs. *)
LEMMA InitIInv ==
  ASSUME Init
  PROVE  IInv
<1>1. materialized \in [Views -> Nat]
  BY DEF Init
<1>2. TablesOK /\ faults \in 0..MaxFaults
  BY <1>1 DEF Init
<1>3. bulk \in BOOLEAN /\ caughtUp \in BOOLEAN
  BY DEF Init
<1>4. /\ lastAggregated = [height |-> 0, timestamp |-> 0]
      /\ LastAggregatedBlock = [height |-> 0, timestamp |-> 0]
  BY DEF Init, NoBlock
<1>5. RefreshOK
  BY <1>3, <1>4 DEF Init
<1>6. PublishedOK
  BY DEF Init
<1>7. FlagsOK
  BY DEF Init
<1>8. PublishedInv /\ FaultlessInv /\ PingInv
  BY <1>4 DEF Init, PublishedInv, FaultlessInv, PingInv, Answered
<1>9. RefreshInv
  <2>1. TimeOf(0) + 1 = 0 /\ Timestamps[1] \in Nat
    BY Times DEF TimeOf
  <2>2. NotBeyondCommitted(LastAggregatedBlock) /\ NotBeyondCommitted(lastAggregated)
    BY <1>4, <2>1 DEF Init, NotBeyondCommitted
  <2>3. stored = 0 /\ watermark = 0 /\ refreshEnd = 0 /\ committedRead = 0
    BY DEF Init
  <2> QED
    BY <1>4, <2>1, <2>2, <2>3 DEF RefreshInv
<1>10. SumsExact
  <2>1. AggregatedTransfers = {}
    <3>1. \A h \in Transfers : ~(h <= 0)
      OBVIOUS
    <3> QED
      BY <3>1 DEF Init, AggregatedTransfers
  <2> QED
    BY <2>1 DEF Init, SumsExact
<1> QED
  BY <1>2, <1>5, <1>6, <1>7, <1>8, <1>9, <1>10 DEF IInv, TypeOK

(* Nothing changes when nothing happens. *)
LEMMA StutterStep ==
  ASSUME IInv, UNCHANGED vars
  PROVE  IInv'
<1>1. TypeOK' /\ PublishedInv' /\ FaultlessInv'
  BY DEF vars, IInv, TypeOK, PublishedInv, FaultlessInv
<1>2. RefreshInv' /\ SumsExact'
  BY DEF vars, IInv, RefreshInv, NotBeyondCommitted, SumsExact, AggregatedTransfers
<1>3. PingInv'
  BY DEF vars, IInv, PingInv, Answered, PricesUnderway
<1> QED
  BY <1>1, <1>2, <1>3 DEF IInv

(* No step breaks the invariant. *)
LEMMA StepIInv ==
  ASSUME IInv, [Next]_vars
  PROVE  IInv'
<1>1. CASE Flush \/ WriterStep
  BY <1>1, FlushStep, PublishCommittedStep, PublishLatestStep, RequestAggregatesRefreshStep
     DEF WriterStep
<1>2. CASE RefreshStep
  BY <1>2, RefreshWakesStep, ReadHeightsStep, RefreshViewStep, ViewsDoneStep,
     UpdateBalancesStep, SetAggregatedStep, RefreshStopsStep DEF RefreshStep
<1>3. CASE SocketStep
  BY <1>3, WaitForBlockStep, NotifyReadsStep, NotifyWritesStep, SocketStopsStep DEF SocketStep
<1>4. CASE StartProcess \/ EndProcess \/ Interrupt \/ Kill
  BY <1>4, StartProcessStep, EndProcessStep, InterruptStep, KillStep
<1>5. CASE UNCHANGED vars
  BY <1>5, StutterStep
<1> QED
  BY <1>1, <1>2, <1>3, <1>4, <1>5 DEF Next

(* The inductive invariant holds of every reachable state. *)
THEOREM Invariance == Spec => []IInv
BY InitIInv, StepIInv, PTL DEF Spec

(* The variables have their types; the channel of pings keeps to its        *)
(* capacity.                                                                *)
THEOREM TypeCorrect == Spec => []TypeOK
<1>1. IInv => TypeOK
  BY DEF IInv
<1> QED
  BY Invariance, <1>1, PTL

-----------------------------------------------------------------------------
(* The readers of the balances. *)

(* What is found for an identified block is the sum of the transfers up to  *)
(* it that are aggregated.                                                  *)
LEMMA BalancesFound ==
  ASSUME SumsExact, NEW id, id.timestamp \in Int
  PROVE  GetBalances(id) = UpTo(id) \cap AggregatedTransfers
<1> DEFINE H == {h \in current : Timestamps[h] <= id.timestamp}
           row(h) == [height |-> h, sum |-> {k \in current : k <= h}]
           rows == {r \in running : current # {} /\ Timestamps[r.height] <= id.timestamp}
<1>1. current \subseteq Transfers /\ current \subseteq 1..MaxHeight
        /\ running = {row(h) : h \in current}
  BY DEF SumsExact, AggregatedTransfers
<1>2. H = UpTo(id) \cap AggregatedTransfers
  BY DEF SumsExact, AggregatedTransfers, UpTo
<1>3. rows = {row(h) : h \in H}
  BY <1>1
<1>4. GetBalances(id) = IF rows = {} THEN {}
                        ELSE (CHOOSE r \in rows : \A q \in rows : q.height <= r.height).sum
  BY DEF GetBalances
<1>5. H \subseteq current /\ \A h \in H : row(h).height = h
        /\ row(h).sum = {k \in current : k <= h}
  OBVIOUS
<1>6. CASE H = {}
  BY <1>2, <1>3, <1>4, <1>6
<1>7. CASE H # {}
  <2>1. H \subseteq Nat /\ \A h \in H : h <= MaxHeight
    <3>1. H \subseteq 1..MaxHeight
      BY <1>1
    <3> HIDE DEF H
    <3> QED
      BY <3>1
  <2>2. PICK m \in H : \A h \in H : h <= m
    <3> HIDE DEF H
    <3> QED
      BY <1>7, <2>1, MaxOf
  <2>3. {k \in current : k <= m} = H
    <3>1. \A k \in current : k <= m => Timestamps[k] <= id.timestamp
      <4> TAKE k \in current
      <4>1. k \in 1..MaxHeight /\ m \in 1..MaxHeight /\ Timestamps[m] <= id.timestamp
        BY <1>1
      <4>2. k < m => Timestamps[k] < Timestamps[m]
        BY <4>1, Times
      <4>3. Timestamps[k] \in Int /\ Timestamps[m] \in Int
        BY <4>1, Times
      <4> QED
        BY <4>1, <4>2, <4>3
    <3> QED
      BY <2>2, <3>1
  <2> HIDE DEF H, row
  <2>4. row(m) \in rows /\ \A q \in rows : q.height <= row(m).height
    BY <1>3, <1>5, <2>2
  <2> HIDE DEF rows
  <2>5. PICK r : r \in rows /\ r = (CHOOSE x \in rows : \A q \in rows : q.height <= x.height)
                   /\ \A q \in rows : q.height <= r.height
    BY <2>4
  <2>6. PICK h \in H : r = row(h)
    BY <1>3, <2>5
  <2>7. h = m
    <3>1. row(m).height <= row(h).height
      BY <2>4, <2>5, <2>6
    <3>2. m <= h /\ h <= m /\ h \in Nat /\ m \in Nat
      BY <1>5, <2>1, <2>2, <3>1
    <3> QED
      BY <3>2
  <2>8. GetBalances(id) = r.sum
    BY <1>4, <2>4, <2>5
  <2> QED
    BY <1>2, <1>5, <2>3, <2>6, <2>7, <2>8
<1> QED
  BY <1>6, <1>7

(* A block the API accepts, up to the newest aggregated height, is not      *)
(* later than the newest aggregated one.                                    *)
LEMMA BlocksIdentified ==
  ASSUME IInv, NEW id \in BlockIds
  PROVE  /\ id.timestamp \in Int
         /\ id.height \in 1..LastAggregatedBlock.height =>
              id.timestamp <= LastAggregatedBlock.timestamp
<1>1. /\ LastAggregatedBlock.height \in 0..MaxHeight /\ LastAggregatedBlock.timestamp \in Int
      /\ LastAggregatedBlock.height # 0 =>
           LastAggregatedBlock.timestamp = Timestamps[LastAggregatedBlock.height]
      /\ stored \in 0..MaxHeight
  BY DEF IInv, TypeOK, RefreshInv, NotBeyondCommitted
<1>2. CASE id = LastAggregatedBlock
  BY <1>1, <1>2
<1>3. ASSUME NEW h \in 1..MaxHeight, id = BlockAt(h)
      PROVE  /\ id.timestamp \in Int
             /\ id.height \in 1..LastAggregatedBlock.height =>
                  id.timestamp <= LastAggregatedBlock.timestamp
  <2>1. id.height = h /\ id.timestamp = Timestamps[h] /\ Timestamps[h] \in Nat
    BY <1>3, Times DEF BlockAt
  <2>2. ASSUME h \in 1..LastAggregatedBlock.height
        PROVE  Timestamps[h] <= LastAggregatedBlock.timestamp
    <3>1. PICK k \in 1..MaxHeight : k = LastAggregatedBlock.height
      BY <1>1, <2>2
    <3>2. LastAggregatedBlock.timestamp = Timestamps[k] /\ Timestamps[k] \in Nat
      BY <1>1, <3>1, Times
    <3>3. h = k \/ h < k
      BY <2>2, <3>1
    <3> QED
      BY <2>1, <3>2, <3>3, Times
  <2> QED
    BY <2>1, <2>2
<1>4. CASE id # LastAggregatedBlock
  <2>1. \E h \in 1..MaxHeight : id = BlockAt(h)
    <3>1. CASE \E h \in 1..LastAggregatedBlock.height : id = BlockAt(h)
      BY <1>1, <3>1
    <3>2. CASE \E t \in Timestamps[1]..LastAggregatedBlock.timestamp : id \in BlocksAtTime(t)
      <4>1. PICK t \in Timestamps[1]..LastAggregatedBlock.timestamp : id \in BlocksAtTime(t)
        BY <3>2
      <4> DEFINE blocks == {h \in 1..stored : Timestamps[h] <= t}
      <4>2. blocks # {} /\ id = BlockAt(Max(blocks))
        BY <4>1 DEF BlocksAtTime
      <4>3. blocks \subseteq Nat /\ (\A h \in blocks : h <= MaxHeight)
              /\ blocks \subseteq 1..MaxHeight
        BY <1>1
      <4> HIDE DEF blocks
      <4>4. Max(blocks) \in blocks
        BY <4>2, <4>3, MaxOf
      <4> QED
        BY <4>2, <4>3, <4>4
    <3> QED
      BY <1>4, <3>1, <3>2 DEF BlockIds
  <2> QED
    BY <1>3, <2>1
<1> QED
  BY <1>2, <1>4

(* For every block the API accepts the balances found are the sums of the   *)
(* aggregated transfers up to it, and of all of them if nothing has failed. *)
LEMMA BalancesOfBlocks == IInv => BalancesExact
<1> SUFFICES ASSUME IInv, NEW id \in BlockIds
             PROVE  /\ GetBalances(id) = UpTo(id) \cap AggregatedTransfers
                    /\ faults = 0 /\ id.height \in 1..LastAggregatedBlock.height =>
                         GetBalances(id) = UpTo(id)
  BY DEF BalancesExact, IInv
<1>1. GetBalances(id) = UpTo(id) \cap AggregatedTransfers
  BY BlocksIdentified, BalancesFound DEF IInv
<1>2. ASSUME faults = 0, id.height \in 1..LastAggregatedBlock.height
      PROVE  UpTo(id) \subseteq AggregatedTransfers
  <2>1. id.timestamp \in Int /\ id.timestamp <= LastAggregatedBlock.timestamp
    BY <1>2, BlocksIdentified
  <2>2. LastAggregatedBlock.height # 0 /\ LastAggregatedBlock.timestamp \in Int
          /\ watermark \in Nat
    BY <1>2 DEF IInv, TypeOK
  <2>3. LastAggregatedBlock.timestamp < watermark
    BY <1>2, <2>2 DEF IInv, FaultlessInv
  <2>4. \A h \in Transfers : Timestamps[h] <= id.timestamp => Timestamps[h] < watermark
    <3> TAKE h \in Transfers
    <3>1. Timestamps[h] \in Nat
      BY Times
    <3> QED
      BY <2>1, <2>2, <2>3, <3>1
  <2> QED
    BY <2>4 DEF UpTo, AggregatedTransfers
<1> QED
  BY <1>1, <1>2

(* Whatever calls fail and however often the refresh begins anew, the API   *)
(* answers with the sum of the transfers up to the block, each counted once. *)
THEOREM BalancesAlwaysExact == Spec => []BalancesExact
BY Invariance, BalancesOfBlocks, PTL

(* With everything at rest in sync, the clients have the newest prices.     *)
THEOREM PricesNeverStale == Spec => []NoStalePrice
<1>1. IInv => NoStalePrice
  BY DEF IInv, PingInv, Answered, PricesUnderway, NoStalePrice, AtRest
<1> QED
  BY Invariance, <1>1, PTL

(* What the refresh publishes does not go back. *)
LEMMA StepMonotone ==
  ASSUME IInv, [Next]_vars, up, committedRead' # 0
  PROVE  LastAggregatedBlock.timestamp <= LastAggregatedBlock'.timestamp
<1>1. LastAggregatedBlock.timestamp \in Int
  BY DEF IInv, TypeOK
<1>2. CASE ReadHeights
  <2>1. Timestamps[1] \in Nat
    BY Times
  <2> QED
    BY <1>1, <1>2, <2>1 DEF ReadHeights, FromFirstBlock
<1>3. CASE SetAggregated
  BY <1>3 DEF SetAggregated, IInv, RefreshInv
<1>4. CASE ~ReadHeights /\ ~SetAggregated
  <2>1. UNCHANGED LastAggregatedBlock
    <3>1. CASE Flush \/ WriterStep
      BY <3>1 DEF WriterStep, Flush, PublishCommitted, PublishLatest, RequestAggregatesRefresh
    <3>2. CASE RefreshStep
      BY <1>4, <3>2
         DEF RefreshStep, RefreshWakes, RefreshView, ViewsDone, UpdateBalances, RefreshStops
    <3>3. CASE SocketStep
      BY <3>3 DEF SocketStep, WaitForBlock, NotifyReads, NotifyWrites, SocketStops
    <3>4. CASE EndProcess \/ Interrupt \/ Kill
      BY <3>4 DEF EndProcess, Interrupt, Kill
    <3>5. CASE StartProcess
      BY <3>5 DEF StartProcess
    <3>6. CASE UNCHANGED vars
      BY <3>6 DEF vars
    <3> QED
      BY <3>1, <3>2, <3>3, <3>4, <3>5, <3>6 DEF Next
  <2> QED
    BY <1>1, <2>1
<1> QED
  BY <1>2, <1>3, <1>4

(* Once there is a committed block, what LastAggregatedBlock tells the      *)
(* readers never goes back while the process runs.                          *)
THEOREM AggregatedNeverGoesBack == Spec => AggregatedMonotone
<1>1. IInv /\ [Next]_vars =>
        [up /\ up' /\ committedRead' # 0 =>
           LastAggregatedBlock.timestamp <= LastAggregatedBlock'.timestamp]_vars
  BY StepMonotone
<1> QED
  BY <1>1, Invariance, PTL DEF Spec, AggregatedMonotone
=============================================================================
