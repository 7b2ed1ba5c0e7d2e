--------------------------- MODULE RecorderProofs ---------------------------
(***************************************************************************)
(* Proofs of the safety properties of Recorder, for every chain, whatever   *)
(* batch size, genesis file and number of kills.                            *)
(***************************************************************************)
EXTENDS RecorderInv, SetFacts, TLAPS

Blocks == [FinalizeBlockEvents : Seq(Events), TxsResults : Seq(Seq(Events)), Txs : Seq(STRING)]

-----------------------------------------------------------------------------
(* Tables and logs. *)

(* The rows of two sets of tables together. *)
LEMMA TogetherIs ==
  ASSUME NEW a, NEW b, IsTables(a), IsTables(b)
  PROVE  /\ Together(a, b) = [events |-> a.events \cup b.events,
                              depths |-> a.depths \cup b.depths,
                              log |-> a.log \cup b.log, blocks |-> a.blocks \cup b.blocks]
         /\ IsTables(Together(a, b))
<1>1. Together(a, b) = [events |-> a.events \cup b.events, depths |-> a.depths \cup b.depths,
                        log |-> a.log \cup b.log, blocks |-> a.blocks \cup b.blocks]
  <2>1. DOMAIN a = {"events", "depths", "log", "blocks"}
    BY DEF IsTables
  <2>2. Together(a, b) = [t \in {"events", "depths", "log", "blocks"} |-> a[t] \cup b[t]]
    BY <2>1 DEF Together
  <2> QED
    BY <2>2
<1>2. IsFiniteSet(a.events \cup b.events)
  BY FS_Union DEF IsTables
<1> QED
  BY <1>1, <1>2 DEF IsTables

LEMMA WrittenIs ==
  ASSUME RowsType
  PROVE  /\ Written.events = db.events \cup pending.events
         /\ Written.depths = db.depths \cup pending.depths
         /\ Written.log = db.log \cup pending.log
         /\ IsTables(Written)
BY TogetherIs DEF RowsType, Written

LEMMA WrittenNext ==
  ASSUME RowsType'
  PROVE  /\ Written'.events = db'.events \cup pending'.events
         /\ Written'.depths = db'.depths \cup pending'.depths
         /\ Written'.log = db'.log \cup pending'.log
BY TogetherIs DEF RowsType, Written

(* The row that is higher than all others is the last one. *)
LEMMA LastIs ==
  ASSUME NEW log, \A s \in log : IsLogRow(s),
         NEW r \in log, \A s \in log : s # r => s.height < r.height
  PROVE  LastRow(log) = r
<1>1. \A s \in log : s.height \in Nat
  BY DEF IsLogRow
<1>2. \A s \in log : s.height <= r.height
  BY <1>1
<1>3. \A s \in log : (\A q \in log : q.height <= s.height) => s = r
  <2> SUFFICES ASSUME NEW s \in log, \A q \in log : q.height <= s.height, s # r
               PROVE  FALSE
    OBVIOUS
  <2>1. s.height < r.height /\ r.height <= s.height
    OBVIOUS
  <2>2. s.height \in Nat /\ r.height \in Nat
    BY <1>1
  <2> QED
    BY <2>1, <2>2
<1> QED
  BY <1>2, <1>3 DEF LastRow

LEMMA LastOf ==
  ASSUME NEW log, \A s \in log : IsLogRow(s), EndsSaved(log), log # {}
  PROVE  /\ LastRow(log) \in log /\ LastRow(log).saved
         /\ \A s \in log : s # LastRow(log) => s.height < LastRow(log).height
<1>1. PICK r \in log : r.saved /\ \A s \in log : s # r => s.height < r.height
  BY DEF EndsSaved
<1>2. LastRow(log) = r
  BY <1>1, LastIs
<1> QED
  BY <1>1, <1>2

LEMMA TopOf ==
  ASSUME RowsType, LogInv
  PROVE  /\ Top \in Nat /\ \A s \in db.log : s.height <= Top
         /\ db.log # {} => /\ LastRow(db.log) \in db.log /\ LastRow(db.log).saved
                           /\ Top = LastRow(db.log).height
<1>1. \A s \in db.log : IsLogRow(s)
  BY DEF RowsType, IsTables
<1>2. EndsSaved(db.log)
  BY DEF LogInv
<1>3. CASE db.log = {}
  BY <1>3 DEF Top
<1>4. CASE db.log # {}
  <2>1. /\ LastRow(db.log) \in db.log /\ LastRow(db.log).saved
        /\ \A s \in db.log : s # LastRow(db.log) => s.height < LastRow(db.log).height
    BY <1>1, <1>2, <1>4, LastOf
  <2>2. Top = LastRow(db.log).height
    BY <1>4 DEF Top
  <2>3. \A s \in db.log : s.height \in Nat
    BY <1>1 DEF IsLogRow
  <2> QED
    BY <2>1, <2>2, <2>3
<1> QED
  BY <1>3, <1>4

-----------------------------------------------------------------------------
(* The events of a chain. *)

LEMMA ChainIs ==
  ASSUME NEW c \in Chains
  PROVE  c \in Seq(Blocks)
BY RecorderAssumption DEF Blocks

(* The events of a block or of one of its transactions are a sequence. *)
LEMMA EventsOfIs ==
  ASSUME NEW c \in Chains, NEW h \in 1..Len(c), NEW t \in 0..Len(c[h].TxsResults)
  PROVE  EventsOf(c[h], t) \in Seq(Events)
<1>1. c[h] \in Blocks
  BY ChainIs
<1>2. c[h].FinalizeBlockEvents \in Seq(Events) /\ c[h].TxsResults \in Seq(Seq(Events))
  BY <1>1 DEF Blocks
<1>3. t # 0 => c[h].TxsResults[t] \in Seq(Events)
  BY <1>2
<1> QED
  BY <1>2, <1>3 DEF EventsOf

(* What an event of the chain is like. *)
LEMMA EventIs ==
  ASSUME NEW c \in Chains, NEW h \in 1..Len(c), NEW t \in 0..Len(c[h].TxsResults),
         NEW k \in 1..Len(EventsOf(c[h], t)), NEW ev, ev = EventsOf(c[h], t)[k]
  PROVE  /\ ev.attrs \in Seq(Attributes)
         /\ ev.accepted \in BOOLEAN
         /\ IsFiniteSet(PerPool(ev)) /\ PerPool(ev) \subseteq DOMAIN ev.attrs
         /\ \A i \in PerPool(ev) : ev.attrs[i].e8 \in Int
         /\ ev.type = "rewards" => \A i \in PerPool(ev) : ev.attrs[i].key \in Pools
         /\ DOMAIN RowsOf(ev) \subseteq 0..Len(ev.attrs)
<1>1. ev \in Events
  BY EventsOfIs
<1>2. ev.attrs \in Seq(Attributes) /\ ev.accepted \in BOOLEAN
  BY <1>1 DEF Events
<1>3. PerPool(ev) \subseteq 1..Len(ev.attrs) /\ DOMAIN ev.attrs = 1..Len(ev.attrs)
  BY <1>2 DEF PerPool, Considered
<1>4. IsFiniteSet(PerPool(ev))
  <2>1. Len(ev.attrs) \in Int
    BY <1>2
  <2>2. IsFiniteSet(1..Len(ev.attrs))
    <3>1. 1 \in Int
      OBVIOUS
    <3> QED
      BY ONLY <2>1, <3>1, FS_Interval, Zenon
  <2> QED
    BY <1>3, <2>2, FS_Subset
<1>5. \A i \in PerPool(ev) : ev.attrs[i].e8 \in Int
  <2>1. \A i \in 1..Len(ev.attrs) : ev.attrs[i] \in Attributes
    BY <1>2
  <2>2. \A a \in Attributes : a.e8 \in Int
    BY DEF Attributes
  <2> QED
    BY <1>3, <2>1, <2>2
<1>6. ev.type = "rewards" => \A i \in PerPool(ev) : ev.attrs[i].key \in Pools
  <2>1. h \in DOMAIN c
    BY ChainIs
  <2>2. ASSUME EventsOf(c[h], t)[k].type = "rewards"
        PROVE  \A i \in PerPool(EventsOf(c[h], t)[k]) :
                 EventsOf(c[h], t)[k].attrs[i].key \in Pools
    BY <2>1, <2>2, PoolsAssumption, Zenon
  <2> QED
    BY <2>2
<1>7. DOMAIN RowsOf(ev) \subseteq 0..Len(ev.attrs)
  <2>1. DOMAIN RowsOf(ev) \subseteq {0} \cup PerPool(ev)
    <3>1. DOMAIN RowsOf(ev) = IF Loads(ev)
            THEN {0} \cup (IF ev.type = "rewards" THEN PerPool(ev) ELSE {}) ELSE {}
      BY DEF RowsOf
    <3> QED
      BY <3>1
  <2> QED
    BY <1>2, <1>3, <2>1
<1> QED
  BY <1>2, <1>3, <1>4, <1>5, <1>6, <1>7

(* What a rewards event adds to the depths. *)
LEMMA AmountIs ==
  ASSUME NEW ev, NEW entries, IsFiniteSet(entries),
         \A i \in entries : ev.attrs[i].e8 \in Int, NEW p
  PROVE  /\ Amount(ev, entries, p) \in Int
         /\ (\A i \in entries : ev.attrs[i].key # p) => Amount(ev, entries, p) = 0
<1> DEFINE f == [i \in entries |-> ev.attrs[i].e8]
           S == {i \in entries : ev.attrs[i].key = p}
<1>1. Amount(ev, entries, p) = SumFunctionOnSet(f, S)
  BY DEF Amount
<1>2. IsFiniteSet(S)
  BY FS_Subset
<1>3. \A i \in S : f[i] \in Int
  OBVIOUS
<1>4. (\A i \in entries : ev.attrs[i].key # p) => S = {}
  OBVIOUS
<1> HIDE DEF f, S
<1>5. SumFunctionOnSet(f, S) \in Int
  BY <1>2, <1>3, SumIsInt
<1>6. S = {} => SumFunctionOnSet(f, S) = 0
  BY SumOfNone
<1> QED
  BY <1>1, <1>4, <1>5, <1>6

LEMMA AddedUp ==
  ASSUME NEW map, IsMap(map), NEW ev, NEW entries, IsFiniteSet(entries),
         \A i \in entries : ev.attrs[i].e8 \in Int /\ ev.attrs[i].key \in Pools
  PROVE  /\ IsMap(AddAll(map, ev, entries))
         /\ DOMAIN map \subseteq DOMAIN AddAll(map, ev, entries)
         /\ \A p : At(AddAll(map, ev, entries), p) = At(map, p) + Amount(ev, entries, p)
<1> DEFINE D == DOMAIN map \cup {ev.attrs[i].key : i \in entries}
<1>1. \A p : Amount(ev, entries, p) \in Int
  BY AmountIs
<1>2. \A p : At(map, p) \in Int
  BY DEF At, IsMap
<1>3. AddAll(map, ev, entries) = [p \in D |-> At(map, p) + Amount(ev, entries, p)]
  BY DEF AddAll
<1>4. D \subseteq Pools
  BY DEF IsMap
<1>5. ASSUME NEW p, p \notin D
      PROVE  At(map, p) = 0 /\ Amount(ev, entries, p) = 0
  BY <1>5, AmountIs DEF At
<1>6. \A p : At(AddAll(map, ev, entries), p) = At(map, p) + Amount(ev, entries, p)
  <2> TAKE p
  <2>1. CASE p \in D
    BY <1>3, <2>1 DEF At
  <2>2. CASE p \notin D
    BY <1>3, <1>5, <2>2 DEF At
  <2> QED
    BY <2>1, <2>2
<1>7. DOMAIN map \subseteq D
  OBVIOUS
<1> HIDE DEF D
<1>8. AddAll(map, ev, entries) \in [D -> Int]
  BY <1>1, <1>2, <1>3
<1> QED
  BY <1>3, <1>4, <1>6, <1>7, <1>8 DEF IsMap

(* A sum over the pools is an integer, and nothing without rows. *)
LEMMA RecordedIs ==
  ASSUME NEW rows, NEW h, NEW p \in Pools
  PROVE  Recorded(rows, h)[p] =
           SumFunctionOnSet([e \in WholeRewards(rows, h) |->
                               Amount(EventAt(e), PerPool(EventAt(e)), p)],
                            WholeRewards(rows, h))
BY DEF Recorded

(* The rows up to a height determine the sums. *)
UpTo(rows, h) == {r \in rows : r.event[1] \in 1..h}

LEMMA SameRecorded ==
  ASSUME NEW rows, NEW all, NEW g, NEW h, UpTo(all, g) = UpTo(rows, h)
  PROVE  Recorded(all, g) = Recorded(rows, h)
<1> DEFINE parts(rs, e) == {r.part : r \in {q \in rs : q.event = e}}
           whole(rs) == {e \in {r.event : r \in rs} :
                           /\ EventAt(e).type = "rewards"
                           /\ parts(rs, e) = DOMAIN RowsOf(EventAt(e))}
<1>1. ASSUME NEW rs, NEW k
      PROVE  WholeRewards(rs, k) = whole(UpTo(rs, k))
  <2>1. ASSUME NEW e, e[1] \in 1..k
        PROVE  parts(rs, e) = parts(UpTo(rs, k), e)
    <3>1. {q \in rs : q.event = e} = {q \in UpTo(rs, k) : q.event = e}
      BY <2>1 DEF UpTo
    <3> QED
      BY <3>1
  <2>2. \A e : e \in {r.event : r \in rs} /\ e[1] \in 1..k <=>
               e \in {r.event : r \in UpTo(rs, k)}
    BY DEF UpTo
  <2>3. WholeRewards(rs, k) = {e \in {r.event : r \in rs} :
          e[1] \in 1..k /\ EventAt(e).type = "rewards"
            /\ parts(rs, e) = DOMAIN RowsOf(EventAt(e))}
    BY DEF WholeRewards
  <2>4. \A e : e \in {r.event : r \in UpTo(rs, k)} => e[1] \in 1..k
    BY <2>2
  <2> HIDE DEF parts
  <2> QED
    BY <2>1, <2>2, <2>3, <2>4
<1> HIDE DEF whole
<1>2. WholeRewards(all, g) = WholeRewards(rows, h)
  BY <1>1
<1> QED
  BY <1>2 DEF Recorded

-----------------------------------------------------------------------------
(* The inductive invariant. *)

LEMMA NothingIs ==
  /\ IsTotals(NoTotals) /\ TotalsType(NoTotals) /\ Known(NoTotals) = {}
  /\ \A p : At(NoTotals.qbtc, p) = 0 /\ At(NoTotals.synth, p) = 0
  /\ IsTables(NoRows)
<1>1. IsMap(NoMap) /\ DOMAIN NoMap = {}
  BY DEF IsMap, NoMap
<1>2. NoTotals = [qbtc |-> NoMap, synth |-> NoMap] /\ DOMAIN NoTotals = {"qbtc", "synth"}
  BY DEF NoTotals
<1>3. IsFiniteSet({})
  BY FS_EmptySet
<1> QED
  BY <1>1, <1>2, <1>3 DEF IsTotals, TotalsType, Known, At, IsTables, NoRows

LEMMA TotalsAre ==
  ASSUME NEW t, IsTotals(t)
  PROVE  TotalsType(t)
<1>1. DOMAIN t = {"qbtc", "synth"}
  BY DEF IsTotals
<1>2. IsMap(t["qbtc"]) /\ IsMap(t["synth"])
  BY DEF IsTotals
<1> QED
  BY <1>1, <1>2 DEF TotalsType, IsMap

(* Nothing has been written: the sums are empty. *)
LEMMA NoneWhole ==
  ASSUME NEW rows, NEW h \in Nat, \A r \in rows : r.event[1] \notin 1..h
  PROVE  \A p \in Pools : Recorded(rows, h)[p] = 0
<1>1. WholeRewards(rows, h) = {}
  BY DEF WholeRewards
<1> TAKE p \in Pools
<1>2. PICK f : Recorded(rows, h)[p] = SumFunctionOnSet(f, WholeRewards(rows, h))
  BY RecordedIs, Zenon
<1>3. SumFunctionOnSet(f, {}) = 0
  BY SumOfNone, Zenon
<1> QED
  BY <1>1, <1>2, <1>3

LEMMA Initially ==
  Init => IInv
<1> SUFFICES ASSUME Init PROVE IInv
  OBVIOUS
<1> USE DEF Init
<1>1. RowsType
  BY NothingIs DEF RowsType
<1>2. Written.events = {} /\ Written.depths = {} /\ Written.log = {}
  BY <1>1, WrittenIs DEF NoRows
<1>3. TypeOK
  <2>1. Len(chain) \in Nat
    BY ChainIs
  <2>2. FirstId \in [Location : {"finalized", "txs"}, TxIndex : Nat, EventIndex : Nat \ {0}]
    BY DEF FirstId
  <2>3. 0 \in 0..MaxFaults
    BY RecorderAssumption
  <2>4. {missed, marked, genesis} \subseteq BOOLEAN
    OBVIOUS
  <2>5. chain \in Chains /\ height \in 0..Len(chain) /\ faults \in 0..MaxFaults
    BY <2>1, <2>3
  <2>6. TotalsType(totals) /\ TotalsType(snapshot)
    BY NothingIs
  <2>7. EventId \in [Location : {"finalized", "txs"}, TxIndex : Nat, EventIndex : Nat \ {0}]
    BY <2>2
  <2>8. (\A r \in db.events : Accepted(r)) /\ db.log = {}
    BY DEF NoRows
  <2>9. pc = "down" /\ inserter = "batch" /\ pending = NoRows
    OBVIOUS
  <2> QED
    BY ONLY <2>4, <2>5, <2>6, <2>7, <2>8, <2>9 DEF TypeOK
<1>4. PositionInv
  <2>1. Len(chain) \in Nat
    BY ChainIs
  <2> QED
    BY <2>1 DEF PositionInv, Top, NoRows
<1>5. EventsInv
  BY <1>2 DEF EventsInv, NoRows
<1>6. LogInv
  BY <1>2 DEF LogInv, EndsSaved, NoRows
<1>7. DepthsInv
  BY <1>2 DEF DepthsInv, NoRows
<1>8. DepthsAreRewards
  BY DEF DepthsAreRewards, NoRows
<1> QED
  BY <1>1, <1>3, <1>4, <1>5, <1>6, <1>7, <1>8 DEF IInv

(* The event in hand, its place in the chain and its id. *)
LEMMA EventInHand ==
  ASSUME IInv, pc = "event"
  PROVE  /\ chain \in Chains /\ height \in 1..Len(chain) /\ Top \in Nat /\ Top < height
         /\ tx \in 0..Len(chain[height].TxsResults)
         /\ event \in 0..Len(EventsOfLoop)
         /\ Len(EventsOfLoop) \in Nat /\ Len(chain[height].TxsResults) \in Nat
         /\ event < Len(EventsOfLoop) =>
              LET e == <<height, tx, event + 1>>
              IN  /\ InChain(e) /\ e \in Places
                  /\ EventAt(e) = EventsOfLoop[event + 1]
                  /\ AsBigint(height, EventId) = IdOf(e)
<1>1. chain \in Chains /\ height \in 0..Len(chain)
      /\ tx \in 0..Len(chain[height].TxsResults) /\ event \in 0..Len(EventsOfLoop)
  BY DEF IInv, TypeOK
<1>2. Top \in Nat /\ Top < height
  BY TopOf DEF IInv, PositionInv
<1>3. Len(chain) \in Nat
  BY <1>1, ChainIs
<1>4. height \in 1..Len(chain)
  BY <1>1, <1>2, <1>3
<1>5. Len(EventsOfLoop) \in Nat
  BY <1>1, <1>4, EventsOfIs DEF EventsOfLoop
<1>6. Len(chain[height].TxsResults) \in Nat
  <2>1. chain[height] \in Blocks
    BY <1>1, <1>4, ChainIs
  <2> QED
    BY <2>1 DEF Blocks
<1>7. ASSUME event < Len(EventsOfLoop)
      PROVE  LET e == <<height, tx, event + 1>>
             IN  /\ InChain(e) /\ e \in Places
                 /\ EventAt(e) = EventsOfLoop[event + 1]
                 /\ AsBigint(height, EventId) = IdOf(e)
  <2> DEFINE e == <<height, tx, event + 1>>
  <2>1. e[1] = height /\ e[2] = tx /\ e[3] = event + 1
    OBVIOUS
  <2>2. event + 1 \in 1..Len(EventsOfLoop) /\ event \in Nat /\ tx \in Nat /\ height \in Nat
    BY <1>1, <1>3, <1>4, <1>5, <1>6, <1>7
  <2>3. InChain(e) /\ EventAt(e) = EventsOfLoop[event + 1] /\ e \in Places
    BY <1>1, <1>4, <2>1, <2>2 DEF InChain, EventAt, EventsOfLoop, Places
  <2>4. EventId = [Location |-> IF tx = 0 THEN "finalized" ELSE "txs", TxIndex |-> tx,
                   EventIndex |-> event + 1]
    BY DEF IInv, PositionInv
  <2>5. EventId.EventIndex = event + 1 /\ EventId.TxIndex = tx
        /\ (EventId.Location = "txs" <=> tx # 0)
    BY <2>4
  <2>6. /\ blockHeightScale \in Nat /\ typeDigit \in Nat /\ txIndexScale \in Nat
    BY RecorderAssumption
  <2>7. AsBigint(height, EventId) = IdOf(e)
    <3>1. PICK a, b : a = height * blockHeightScale /\ b = typeDigit + tx * txIndexScale
      OBVIOUS
    <3>2. a \in Nat /\ b \in Nat
      BY <2>2, <2>6, <3>1
    <3>3. AsBigint(height, EventId) = a + (event + 1) + (IF tx # 0 THEN b ELSE 0)
      BY <2>5, <3>1 DEF AsBigint
    <3>4. IdOf(e) = a + (event + 1) + (IF tx = 0 THEN 0 ELSE b)
      BY <2>1, <3>1 DEF IdOf
    <3> QED
      BY <3>3, <3>4
  <2> QED
    BY <2>3, <2>7
<1> QED
  BY <1>1, <1>2, <1>4, <1>5, <1>6, <1>7

-----------------------------------------------------------------------------
(* What the actions do to the rows and the totals. *)

Here == <<height, tx, event + 1>>
RowsHere(parts) == {Row(Here, part, IdOf(Here)) : part \in parts}
Counts(parts) ==
  /\ EventAt(Here).type = "rewards"
  /\ parts # {} /\ parts = DOMAIN RowsOf(EventAt(Here))

LEMMA EventIsHere ==
  ASSUME IInv, pc = "event", event < Len(EventsOfLoop)
  PROVE  LET ev == EventAt(Here)
         IN  /\ InChain(Here) /\ Here \in Places
             /\ Here[1] = height /\ Here[2] = tx /\ Here[3] = event + 1
             /\ height \in 1..Len(chain)
             /\ IsFiniteSet(PerPool(ev))
             /\ \A i \in PerPool(ev) : ev.attrs[i].e8 \in Int
             /\ ev.type = "rewards" => \A i \in PerPool(ev) : ev.attrs[i].key \in Pools
             /\ DOMAIN RowsOf(ev) \subseteq Nat /\ IsFiniteSet(DOMAIN RowsOf(ev))
<1>1. /\ chain \in Chains /\ height \in 1..Len(chain)
      /\ tx \in 0..Len(chain[height].TxsResults)
      /\ InChain(Here) /\ Here \in Places
  BY EventInHand DEF Here
<1>2. Here[1] = height /\ Here[2] = tx /\ Here[3] = event + 1
  BY DEF Here
<1>3. event + 1 \in 1..Len(EventsOf(chain[height], tx))
  BY EventInHand DEF EventsOfLoop
<1>4. EventAt(Here) = EventsOf(chain[height], tx)[event + 1]
  BY EventInHand DEF Here, EventsOfLoop
<1>5. PICK ev : ev = EventAt(Here)
  OBVIOUS
<1>6. /\ IsFiniteSet(PerPool(ev))
      /\ \A i \in PerPool(ev) : ev.attrs[i].e8 \in Int
      /\ ev.type = "rewards" => \A i \in PerPool(ev) : ev.attrs[i].key \in Pools
      /\ DOMAIN RowsOf(ev) \subseteq 0..Len(ev.attrs) /\ ev.attrs \in Seq(Attributes)
  BY <1>1, <1>3, <1>4, <1>5, EventIs
<1>7. DOMAIN RowsOf(ev) \subseteq Nat
  BY <1>6
<1>8. IsFiniteSet(DOMAIN RowsOf(ev))
  <2>1. \A n \in DOMAIN RowsOf(ev) : n <= Len(ev.attrs)
    BY <1>6
  <2>2. Len(ev.attrs) \in Nat
    BY <1>6
  <2> QED
    BY <1>7, <2>1, <2>2, FS_BoundedSetOfNaturals
<1> QED
  BY <1>1, <1>2, <1>5, <1>6, <1>7, <1>8

LEMMA EventStep ==
  ASSUME IInv, ProcessEvent
  PROVE  \E parts \in SUBSET DOMAIN RowsOf(EventAt(Here)) :
           /\ pending' = [pending EXCEPT !.events = @ \cup RowsHere(parts)]
           /\ totals' = IF Counts(parts)
                        THEN [totals EXCEPT !.qbtc = AddAll(@, EventAt(Here),
                                                           PerPool(EventAt(Here)))]
                        ELSE totals
<1>1. pc = "event" /\ event < Len(EventsOfLoop)
  BY DEF ProcessEvent
<1>2. EventAt(Here) = EventsOfLoop[event + 1] /\ AsBigint(height, EventId) = IdOf(Here)
  BY <1>1, EventInHand DEF Here
<1>3. PICK ev, id : ev = EventAt(Here) /\ id = IdOf(Here)
  OBVIOUS
<1>4. \E refused \in 0..Len(ev.attrs) + 1 :
        LET taken == {part \in Taken(ev) : part < refused}
        IN  /\ IF taken = Taken(ev) THEN UNCHANGED faults ELSE inserter = "immediate" /\ Fault
            /\ pending' = [pending EXCEPT !.events =
                             @ \cup {Row(<<height, tx, event + 1>>, part, id) : part \in taken}]
            /\ totals' = AddPoolDepths(ev, taken)
  <2>1. ev = EventsOfLoop[event + 1] /\ id = AsBigint(height, EventId)
    BY <1>2, <1>3
  <2> QED
    BY <2>1, Zenon DEF ProcessEvent
<1>5. PICK refused \in 0..Len(ev.attrs) + 1 :
        LET taken == {part \in Taken(ev) : part < refused}
        IN  /\ pending' = [pending EXCEPT !.events =
                             @ \cup {Row(<<height, tx, event + 1>>, part, id) : part \in taken}]
            /\ totals' = AddPoolDepths(ev, taken)
  BY <1>4, Zenon
<1> DEFINE taken == {part \in Taken(ev) : part < refused}
<1>6. taken \subseteq DOMAIN RowsOf(EventAt(Here))
  BY <1>3 DEF Taken
<1>7. pending' = [pending EXCEPT !.events = @ \cup RowsHere(taken)]
  BY <1>3, <1>5 DEF RowsHere, Here
<1>8. totals' = IF Counts(taken)
                THEN [totals EXCEPT !.qbtc = AddAll(@, EventAt(Here), PerPool(EventAt(Here)))]
                ELSE totals
  BY <1>3, <1>5 DEF AddPoolDepths, Counts
<1> HIDE DEF taken
<1> QED
  BY <1>6, <1>7, <1>8

(* The new rows have their type, and the totals change by what is counted. *)
LEMMA EventStepIs ==
  ASSUME IInv, ProcessEvent, NEW parts \in SUBSET DOMAIN RowsOf(EventAt(Here)),
         pending' = [pending EXCEPT !.events = @ \cup RowsHere(parts)],
         totals' = IF Counts(parts)
                   THEN [totals EXCEPT !.qbtc = AddAll(@, EventAt(Here), PerPool(EventAt(Here)))]
                   ELSE totals
  PROVE  /\ IsTables(pending')
         /\ pending'.events = pending.events \cup RowsHere(parts)
         /\ pending'.depths = pending.depths /\ pending'.log = pending.log
         /\ IsTotals(totals')
         /\ DOMAIN totals.qbtc \subseteq DOMAIN totals'.qbtc /\ totals'.synth = totals.synth
         /\ \A p : At(totals'.qbtc, p) =
                     At(totals.qbtc, p) + IF Counts(parts)
                       THEN Amount(EventAt(Here), PerPool(EventAt(Here)), p) ELSE 0
<1>1. pc = "event" /\ event < Len(EventsOfLoop)
  BY DEF ProcessEvent
<1> DEFINE ev == EventAt(Here)
<1>2. /\ Here \in Places /\ InChain(Here)
      /\ IsFiniteSet(PerPool(ev))
      /\ \A i \in PerPool(ev) : ev.attrs[i].e8 \in Int
      /\ ev.type = "rewards" => \A i \in PerPool(ev) : ev.attrs[i].key \in Pools
      /\ DOMAIN RowsOf(ev) \subseteq Nat /\ IsFiniteSet(DOMAIN RowsOf(ev))
  BY <1>1, EventIsHere
<1>3. IdOf(Here) \in Int
  <2>1. Here[1] \in Nat /\ Here[2] \in Nat /\ Here[3] \in Nat
    BY <1>2 DEF Places
  <2>2. blockHeightScale \in Nat /\ typeDigit \in Nat /\ txIndexScale \in Nat
    BY RecorderAssumption
  <2> QED
    BY <2>1, <2>2 DEF IdOf
<1>4. RowsHere(parts) \subseteq EventRows
  BY <1>2, <1>3 DEF RowsHere, Row, EventRows
<1>5. IsFiniteSet(RowsHere(parts))
  <2>1. IsFiniteSet(parts)
    BY <1>2, FS_Subset
  <2> QED
    <3> DEFINE f == [part \in parts |-> Row(Here, part, IdOf(Here))]
    <3>1. RowsHere(parts) = {f[part] : part \in parts}
      BY DEF RowsHere
    <3> HIDE DEF f
    <3> QED
      BY <2>1, <3>1, ImageIsFinite
<1>6. IsTables(pending) /\ IsTotals(totals)
  BY DEF IInv, RowsType
<1>7. /\ pending' = [events |-> pending.events \cup RowsHere(parts), depths |-> pending.depths,
                     log |-> pending.log, blocks |-> pending.blocks]
  BY <1>6 DEF IsTables
<1>8. IsFiniteSet(pending.events \cup RowsHere(parts))
  BY <1>5, <1>6, FS_Union DEF IsTables
<1>9. IsTables(pending')
  BY <1>4, <1>6, <1>7, <1>8 DEF IsTables
<1>10. CASE Counts(parts)
  <2>1. \A i \in PerPool(ev) : ev.attrs[i].e8 \in Int /\ ev.attrs[i].key \in Pools
    BY <1>2, <1>10 DEF Counts
  <2>2. totals' = [qbtc |-> AddAll(totals.qbtc, ev, PerPool(ev)), synth |-> totals.synth]
    BY <1>6, <1>10 DEF IsTotals
  <2>3. IsMap(totals.qbtc) /\ IsMap(totals.synth)
    BY <1>6 DEF IsTotals
  <2>4. /\ IsMap(AddAll(totals.qbtc, ev, PerPool(ev)))
        /\ DOMAIN totals.qbtc \subseteq DOMAIN AddAll(totals.qbtc, ev, PerPool(ev))
        /\ \A p : At(AddAll(totals.qbtc, ev, PerPool(ev)), p)
                    = At(totals.qbtc, p) + Amount(ev, PerPool(ev), p)
    BY <1>2, <2>1, <2>3, AddedUp
  <2> HIDE DEF ev
  <2>5. IsTotals(totals') /\ totals'.qbtc = AddAll(totals.qbtc, ev, PerPool(ev))
        /\ totals'.synth = totals.synth
    BY <2>2, <2>3, <2>4 DEF IsTotals
  <2> QED
    BY <1>7, <1>9, <1>10, <2>4, <2>5 DEF ev
<1>11. CASE ~Counts(parts)
  <2>1. totals' = totals
    BY <1>11
  <2>2. \A p : At(totals.qbtc, p) \in Int
    BY <1>6 DEF At, IsTotals, IsMap
  <2> QED
    BY <1>6, <1>7, <1>9, <1>11, <2>1, <2>2
<1> QED
  BY <1>10, <1>11

LEMMA GenesisStepIs ==
  ASSUME IInv, LoadGenesis
  PROVE  /\ IsTables(db') /\ db'.depths = db.depths /\ db'.log = db.log
         /\ \A r \in db'.events : r \in db.events \/
              /\ r.event[1] = 0 /\ r.event[2] = 0 /\ r.event[3] \in 1..Balances
              /\ r.id = IdOf(r.event)
         /\ db.events \subseteq db'.events
         /\ IsTotals(totals') /\ totals'.qbtc = totals.qbtc
         /\ DOMAIN totals.synth \subseteq DOMAIN totals'.synth
<1>1. IsTables(db) /\ IsTotals(totals)
  BY DEF IInv, RowsType
<1>2. Balances \in Nat /\ blockHeightScale \in Nat
  BY RecorderAssumption
<1> DEFINE gen == [i \in 1..Balances |->
                     Row(<<0, 0, i>>, 0, AsBigint(0, [FirstId EXCEPT !.EventIndex = i]))]
           more == IF OnTransferEnabled THEN {gen[i] : i \in 1..Balances} ELSE {}
<1>3. ASSUME NEW i \in 1..Balances
      PROVE  /\ gen[i].event[1] = 0 /\ gen[i].event[2] = 0 /\ gen[i].event[3] = i
             /\ gen[i].id = IdOf(gen[i].event) /\ gen[i] \in EventRows
  <2>1. AsBigint(0, [FirstId EXCEPT !.EventIndex = i]) = i
    <3>1. [FirstId EXCEPT !.EventIndex = i]
            = [Location |-> "finalized", TxIndex |-> 0, EventIndex |-> i]
      BY DEF FirstId
    <3>2. 0 * blockHeightScale = 0 /\ i \in Nat
      BY <1>2
    <3> QED
      BY <3>1, <3>2 DEF AsBigint
  <2>2. IdOf(<<0, 0, i>>) = i
    <3>1. 0 * blockHeightScale = 0 /\ i \in Nat
      BY <1>2
    <3> QED
      BY <3>1 DEF IdOf
  <2>3. gen[i] = [event |-> <<0, 0, i>>, part |-> 0, id |-> i]
    BY <2>1 DEF Row
  <2> QED
    BY <1>2, <2>2, <2>3 DEF EventRows, Places
<1>4. IsFiniteSet(more)
  <2>1. IsFiniteSet(1..Balances)
    <3>1. 1 \in Int /\ Balances \in Int
      BY <1>2
    <3> QED
      BY <3>1, FS_Interval, Zenon
  <2> HIDE DEF gen
  <2>2. IsFiniteSet({gen[i] : i \in 1..Balances})
    BY <2>1, ImageIsFinite
  <2> QED
    BY <2>2, FS_EmptySet
<1>5. db' = [db EXCEPT !.events = @ \cup more]
  BY DEF LoadGenesis
<1>6. \A r \in more : /\ r.event[1] = 0 /\ r.event[2] = 0 /\ r.event[3] \in 1..Balances
                      /\ r.id = IdOf(r.event) /\ r \in EventRows
  <2> HIDE DEF gen
  <2> SUFFICES ASSUME NEW r \in more
               PROVE  /\ r.event[1] = 0 /\ r.event[2] = 0 /\ r.event[3] \in 1..Balances
                      /\ r.id = IdOf(r.event) /\ r \in EventRows
    OBVIOUS
  <2>1. PICK i \in 1..Balances : r = gen[i]
    OBVIOUS
  <2> QED
    BY <1>3, <2>1
<1>7. IsFiniteSet(db.events \cup more)
  BY <1>1, <1>4, FS_Union DEF IsTables
<1> HIDE DEF more
<1>8. db' = [events |-> db.events \cup more, depths |-> db.depths, log |-> db.log,
             blocks |-> db.blocks]
  BY <1>1, <1>5 DEF IsTables
<1>9. IsTables(db')
  BY <1>1, <1>6, <1>7, <1>8 DEF IsTables
<1> DEFINE now == [p \in DOMAIN totals.synth \cup DOMAIN Supplies |->
                     At(totals.synth, p) + At(Supplies, p)]
<1>10. IsMap(now) /\ DOMAIN totals.synth \subseteq DOMAIN now
  <2>1. DOMAIN totals.synth \cup DOMAIN Supplies \subseteq Pools
    BY <1>1, RecorderAssumption DEF IsTotals, IsMap
  <2>2. \A p : At(totals.synth, p) \in Int
    BY <1>1 DEF IsTotals, IsMap, At
  <2>3. \A p : At(Supplies, p) \in Int
    BY RecorderAssumption DEF At
  <2>4. \A p : At(totals.synth, p) + At(Supplies, p) \in Int
    BY <2>2, <2>3
  <2> QED
    BY <2>1, <2>4 DEF IsMap
<1>11. totals' = [totals EXCEPT !.synth = now]
  BY DEF LoadGenesis
<1> HIDE DEF now
<1>12. totals' = [qbtc |-> totals.qbtc, synth |-> now]
  BY <1>1, <1>11 DEF IsTotals
<1>13. IsTotals(totals') /\ totals'.qbtc = totals.qbtc /\ totals'.synth = now
  BY <1>1, <1>10, <1>12 DEF IsTotals
<1> QED
  BY <1>6, <1>8, <1>9, <1>10, <1>13

LEMMA DepthRowIs ==
  ASSUME IInv, NEW p \in Pools
  PROVE  /\ DepthRow(p) \in DepthRows
         /\ DepthRow(p).height = height /\ DepthRow(p).pool = p
         /\ DepthRow(p).qbtc = At(totals.qbtc, p) /\ DepthRow(p).synth = At(totals.synth, p)
<1>1. At(totals.qbtc, p) \in Int /\ At(totals.synth, p) \in Int
  BY DEF IInv, RowsType, IsTotals, IsMap, At
<1>2. height \in Nat
  <2>1. Len(chain) \in Nat
    BY ChainIs DEF IInv, TypeOK
  <2> QED
    BY <2>1 DEF IInv, TypeOK
<1> QED
  BY <1>1, <1>2 DEF DepthRow, DepthRows

LEMMA LogRowIs ==
  ASSUME IInv, NEW saved \in BOOLEAN
  PROVE  /\ IsLogRow(LogRow(saved))
         /\ LogRow(saved).height = height /\ LogRow(saved).saved = saved
         /\ saved => LogRow(saved).agg = totals
<1>1. height \in Nat
  <2>1. Len(chain) \in Nat
    BY ChainIs DEF IInv, TypeOK
  <2> QED
    BY <2>1 DEF IInv, TypeOK
<1>2. IsTotals(totals) /\ IsTotals(NoTotals)
  BY NothingIs DEF IInv, RowsType
<1> QED
  BY <1>1, <1>2 DEF LogRow, IsLogRow

LEMMA EndStepIs ==
  ASSUME IInv, EndEvents
  PROVE  \E commit \in BOOLEAN, written \in SUBSET ChangedPools :
           /\ missed' \in BOOLEAN
           /\ ~missed' => written = ChangedPools /\ ~missed
           /\ pc' = IF commit THEN "flush" ELSE "select"
           /\ IsTables(pending') /\ pending'.events = pending.events
           /\ pending'.log = pending.log \cup {LogRow(commit)}
           /\ pending'.depths = pending.depths \cup {DepthRow(p) : p \in written}
<1>1. PICK synced \in BOOLEAN, written \in SUBSET ChangedPools :
        LET commit == inserter = "immediate" \/ synced \/ height % CommitBatchSize = 0
                        \/ height = 1
        IN  /\ IF written = ChangedPools THEN UNCHANGED <<faults, missed>>
               ELSE inserter = "immediate" /\ Fault /\ missed' = TRUE
            /\ pending' = [pending EXCEPT !.log = @ \cup {LogRow(commit)},
                                          !.blocks = @ \cup {BlocksPayload(height)},
                                          !.depths = @ \cup {DepthRow(p) : p \in written}]
            /\ pc' = IF commit THEN "flush" ELSE "select"
  BY DEF EndEvents
<1>2. PICK commit \in BOOLEAN :
        /\ pending' = [pending EXCEPT !.log = @ \cup {LogRow(commit)},
                                      !.blocks = @ \cup {BlocksPayload(height)},
                                      !.depths = @ \cup {DepthRow(p) : p \in written}]
        /\ pc' = IF commit THEN "flush" ELSE "select"
  BY <1>1, Zenon
<1>3. missed' \in BOOLEAN /\ (~missed' => written = ChangedPools /\ ~missed)
  <2>1. missed \in BOOLEAN
    BY DEF IInv, TypeOK
  <2>2. CASE written = ChangedPools
    <3>1. missed' = missed
      BY <1>1, <2>2
    <3> QED
      BY <2>1, <2>2, <3>1
  <2>3. CASE written # ChangedPools
    <3>1. missed' = TRUE
      BY <1>1, <2>3
    <3> QED
      BY <3>1
  <2> QED
    BY <2>2, <2>3
<1>4. IsTables(pending)
  BY DEF IInv, RowsType
<1>5. PICK ds : ds = {DepthRow(p) : p \in written}
  OBVIOUS
<1>6. pending' = [events |-> pending.events, depths |-> pending.depths \cup ds,
                  log |-> pending.log \cup {LogRow(commit)},
                  blocks |-> pending.blocks \cup {BlocksPayload(height)}]
  BY <1>2, <1>4, <1>5 DEF IsTables
<1>7. ds \subseteq DepthRows
  <2>1. \A p \in written : DepthRow(p) \in DepthRows
    BY DepthRowIs DEF ChangedPools
  <2> QED
    BY <1>5, <2>1
<1>8. IsLogRow(LogRow(commit))
  BY LogRowIs
<1>9. IsTables(pending')
  BY <1>4, <1>6, <1>7, <1>8 DEF IsTables
<1> QED
  BY <1>2, <1>3, <1>5, <1>6, <1>9

LEMMA RowsTypeStep ==
  ASSUME IInv, [Next]_vars
  PROVE  RowsType'
<1>1. /\ IsTables(db) /\ IsTables(pending) /\ IsTotals(totals) /\ IsTotals(snapshot)
      /\ tx \in Nat /\ event \in Nat
  BY DEF IInv, RowsType
<1>2. IsTables(NoRows) /\ IsTotals(NoTotals)
  BY NothingIs
<1>3. IsTables(Together(db, pending))
  BY <1>1, TogetherIs
<1>4. ASSUME LoseMemory
      PROVE  /\ IsTables(pending') /\ IsTotals(totals') /\ IsTotals(snapshot')
             /\ tx' \in Nat /\ event' \in Nat
  BY <1>2, <1>4 DEF LoseMemory
<1>5. CASE StartProcess
  <2>1. db.log # {} => IsTotals(LastRow(db.log).agg)
    BY <1>1, TopOf DEF IInv, IsTables, IsLogRow
  <2>2. IsTotals(totals')
    BY <1>2, <1>5, <2>1 DEF StartProcess
  <2> QED
    BY <1>1, <1>5, <2>2 DEF StartProcess, idVars, RowsType
<1>6. CASE LoadGenesis
  BY <1>1, <1>6, GenesisStepIs DEF LoadGenesis, idVars, RowsType
<1>7. CASE GenesisExists
  BY <1>1, <1>7 DEF GenesisExists, idVars, depthVars, RowsType
<1>8. CASE StartBlock
  BY <1>1, <1>8 DEF StartBlock, depthVars, RowsType
<1>9. CASE ProcessEvent
  <2>1. IsTables(pending') /\ IsTotals(totals')
    BY <1>9, EventStep, EventStepIs
  <2> QED
    BY <1>1, <1>9, <2>1 DEF ProcessEvent, RowsType
<1>10. CASE NextTx
  BY <1>1, <1>10 DEF NextTx, depthVars, RowsType
<1>11. CASE EndEvents
  <2>1. IsTables(pending')
    BY <1>11, EndStepIs
  <2> QED
    BY <1>1, <1>11, <2>1 DEF EndEvents, idVars, RowsType
<1>12. CASE Commit
  BY <1>1, <1>2, <1>3, <1>12 DEF Commit, idVars, depthVars, RowsType
<1>13. CASE FlushRejected
  BY <1>1, <1>4, <1>13 DEF FlushRejected, RowsType
<1>14. CASE Kill
  BY <1>1, <1>3, <1>4, <1>14 DEF Kill, RowsType
<1>15. CASE UNCHANGED vars
  BY <1>1, <1>15 DEF vars, idVars, depthVars, RowsType
<1> QED
  BY <1>5, <1>6, <1>7, <1>8, <1>9, <1>10, <1>11, <1>12, <1>13, <1>14, <1>15 DEF Next

(* After a commit the newest row of the log is that of the block in hand. *)
LEMMA CommittedTop ==
  ASSUME IInv, pc = "flush", NEW all, all = Together(db, pending)
  PROVE  /\ all = Written /\ IsTables(all)
         /\ all.events = db.events \cup pending.events
         /\ all.depths = db.depths \cup pending.depths /\ all.log = db.log \cup pending.log
         /\ LastRow(all.log) = LogRow(TRUE) /\ LogRow(TRUE) \in all.log
         /\ LogRow(TRUE).height = height /\ LogRow(TRUE).saved /\ LogRow(TRUE).agg = totals
         /\ EndsSaved(all.log)
<1>1. /\ all = Written /\ IsTables(all)
      /\ all.events = db.events \cup pending.events
      /\ all.depths = db.depths \cup pending.depths /\ all.log = db.log \cup pending.log
  BY WrittenIs DEF IInv, Written
<1>2. LogRow(TRUE) \in all.log /\ \A s \in all.log : s # LogRow(TRUE) => s.height < height
  BY <1>1 DEF IInv, LogInv
<1>3. LogRow(TRUE).height = height /\ LogRow(TRUE).saved /\ LogRow(TRUE).agg = totals
  BY LogRowIs
<1>4. \A s \in all.log : IsLogRow(s)
  BY <1>1 DEF IsTables
<1>5. LastRow(all.log) = LogRow(TRUE)
  BY <1>2, <1>3, <1>4, LastIs
<1> QED
  BY <1>1, <1>2, <1>3, <1>5 DEF EndsSaved

LEMMA HeightIs ==
  ASSUME IInv
  PROVE  height \in Nat /\ Len(chain) \in Nat
<1>1. Len(chain) \in Nat
  BY ChainIs DEF IInv, TypeOK
<1> QED
  BY <1>1 DEF IInv, TypeOK

LEMMA SameChain ==
  ASSUME [Next]_vars
  PROVE  /\ chain' = chain
         /\ \A e : InChain(e)' <=> InChain(e)
         /\ \A e : EventAt(e)' = EventAt(e)
<1>1. chain' = chain
  BY DEF Next, vars, StartProcess, LoadGenesis, GenesisExists, StartBlock, ProcessEvent, NextTx,
         EndEvents, Commit, FlushRejected, Kill
<1> QED
  BY <1>1 DEF InChain, EventAt

LEMMA PositionStep ==
  ASSUME IInv, [Next]_vars
  PROVE  PositionInv'
<1> USE DEF PositionInv
<1>1. PositionInv /\ height \in Nat /\ Top \in Nat /\ height <= Len(chain)
      /\ chain' = chain
  BY HeightIs, TopOf, SameChain DEF IInv, TypeOK
<1>2. db'.log = db.log => Top' = Top
  BY DEF Top
<1>3. CASE StartProcess
  <2>1. height' = Top'
    BY <1>3 DEF StartProcess, Top
  <2>2. height' \in Nat
    BY <1>1, <1>2, <1>3, <2>1 DEF StartProcess
  <2> QED
    BY <1>1, <1>2, <1>3, <2>1, <2>2 DEF StartProcess
<1>4. CASE LoadGenesis
  BY <1>1, <1>2, <1>4, GenesisStepIs DEF LoadGenesis
<1>5. CASE GenesisExists
  BY <1>1, <1>2, <1>5 DEF GenesisExists, depthVars
<1>6. CASE StartBlock
  BY <1>1, <1>2, <1>6 DEF StartBlock, FirstId
<1>7. CASE ProcessEvent
  <2>1. EventId.EventIndex + 1 = event' + 1
    BY <1>1, <1>7 DEF ProcessEvent
  <2>2. EventId = [Location |-> IF tx = 0 THEN "finalized" ELSE "txs", TxIndex |-> tx,
                   EventIndex |-> event + 1]
    BY <1>1, <1>7 DEF ProcessEvent
  <2>3. EventId' = [Location |-> IF tx = 0 THEN "finalized" ELSE "txs", TxIndex |-> tx,
                    EventIndex |-> event' + 1]
    BY <1>7, <2>2 DEF ProcessEvent
  <2> QED
    BY <1>1, <1>2, <1>7, <2>3 DEF ProcessEvent
<1>8. CASE NextTx
  <2>1. EventId = [Location |-> IF tx = 0 THEN "finalized" ELSE "txs", TxIndex |-> tx,
                   EventIndex |-> event + 1]
    BY <1>1, <1>8 DEF NextTx
  <2>2. tx \in Nat
    BY DEF IInv, RowsType
  <2>3. EventId' = [Location |-> "txs", TxIndex |-> tx + 1, EventIndex |-> 1]
    BY <1>8, <2>1, <2>2 DEF NextTx, NextTxId
  <2> QED
    BY <1>1, <1>2, <1>8, <2>2, <2>3 DEF NextTx, depthVars
<1>9. CASE EndEvents
  <2>1. pc' \in {"flush", "select"}
    BY <1>9 DEF EndEvents
  <2> QED
    BY <1>1, <1>2, <1>9, <2>1 DEF EndEvents
<1>10. CASE Commit
  <2>1. Top' = height
    BY <1>10, CommittedTop DEF Commit, Top
  <2> QED
    BY <1>1, <1>10, <2>1 DEF Commit
<1>11. CASE FlushRejected
  BY <1>1, <1>2, <1>11 DEF FlushRejected, LoseMemory
<1>12. CASE Kill
  <2>1. Top' <= Len(chain)
    BY <1>1, <1>2, <1>12, CommittedTop DEF Kill, Top
  <2> QED
    BY <1>1, <1>12, <2>1 DEF Kill, LoseMemory
<1>13. CASE UNCHANGED vars
  BY <1>1, <1>2, <1>13 DEF vars, idVars, depthVars
<1> QED
  BY <1>3, <1>4, <1>5, <1>6, <1>7, <1>8, <1>9, <1>10, <1>11, <1>12, <1>13 DEF Next

(* Rows of both kinds together. *)
WellPlaced(r) ==
  /\ InChain(r.event)
  /\ r.id = IdOf(r.event)
  /\ r.event[1] > 0 => r.part \in DOMAIN RowsOf(EventAt(r.event))

LEMMA EventsStep ==
  ASSUME IInv, [Next]_vars
  PROVE  EventsInv'
<1>1. /\ \A r \in db.events \cup pending.events : WellPlaced(r)
      /\ \A r \in db.events : r.event[1] <= Top
      /\ \A r \in pending.events : Top < r.event[1] /\ Passed(r.event)
  BY WrittenIs DEF IInv, EventsInv, WellPlaced
<1>2. /\ \A r \in db.events \cup pending.events :
           r.event[1] \in Nat /\ r.event[2] \in Nat /\ r.event[3] \in Nat
      /\ height \in Nat /\ Top \in Nat /\ tx \in Nat /\ event \in Nat
  <2>1. \A r \in EventRows : r.event[1] \in Nat /\ r.event[2] \in Nat /\ r.event[3] \in Nat
    BY DEF EventRows, Places
  <2>2. db.events \cup pending.events \subseteq EventRows
    BY DEF IInv, RowsType, IsTables
  <2>3. height \in Nat /\ Top \in Nat
    BY HeightIs, TopOf DEF IInv
  <2> QED
    BY <2>1, <2>2, <2>3 DEF IInv, RowsType
<1>3. RowsType'
  BY RowsTypeStep
<1>4. Written'.events = db'.events \cup pending'.events
  BY <1>3, WrittenNext
<1>5. \A r : WellPlaced(r)' <=> WellPlaced(r)
  BY SameChain DEF WellPlaced
<1>6. SUFFICES /\ \A r \in db'.events \cup pending'.events : WellPlaced(r)
               /\ \A r \in db'.events : r.event[1] <= Top'
               /\ \A r \in pending'.events : Top' < r.event[1] /\ Passed(r.event)'
  <2>1. \A r \in Written'.events : WellPlaced(r)'
    BY <1>4, <1>5, <1>6
  <2> QED
    BY <1>6, <2>1 DEF EventsInv, WellPlaced
<1>7. db' = db => Top' = Top
  BY DEF Top
<1>8. ASSUME pending' = NoRows, db' = db \/ (pc = "flush" /\ db' = Together(db, pending))
      PROVE  /\ \A r \in db'.events \cup pending'.events : WellPlaced(r)
             /\ \A r \in db'.events : r.event[1] <= Top'
             /\ \A r \in pending'.events : Top' < r.event[1] /\ Passed(r.event)'
  <2>1. CASE db' = db
    BY <1>1, <1>7, <1>8, <2>1 DEF NoRows
  <2>2. CASE pc = "flush" /\ db' = Together(db, pending)
    <3>1. db'.events = db.events \cup pending.events /\ Top' = height
      BY <2>2, CommittedTop DEF Top
    <3>2. \A r \in pending.events : r.event[1] <= height
      BY <1>1, <1>2, <2>2 DEF Passed
    <3>3. Top <= height
      BY <2>2 DEF IInv, PositionInv
    <3> QED
      BY <1>1, <1>2, <1>8, <3>1, <3>2, <3>3 DEF NoRows
  <2> QED
    BY <1>8, <2>1, <2>2
<1>9. CASE StartProcess
  <2>1. pending = NoRows
    BY <1>9 DEF StartProcess, IInv, PositionInv
  <2> QED
    BY <1>1, <1>7, <1>9, <2>1 DEF StartProcess, NoRows
<1>10. CASE LoadGenesis
  <2>1. pending = NoRows /\ pending' = pending
    BY <1>10 DEF LoadGenesis, IInv, PositionInv
  <2>2. Top' = Top
    BY <1>10, GenesisStepIs DEF Top
  <2>3. ASSUME NEW r \in db'.events
        PROVE  WellPlaced(r) /\ r.event[1] <= Top
    <3>1. CASE r \in db.events
      BY <1>1, <3>1
    <3>2. CASE r \notin db.events
      <4>1. /\ r.event[1] = 0 /\ r.event[2] = 0 /\ r.event[3] \in 1..Balances
            /\ r.id = IdOf(r.event)
        BY <1>10, <3>2, GenesisStepIs
      <4> QED
        BY <1>2, <4>1 DEF WellPlaced, InChain
    <3> QED
      BY <3>1, <3>2
  <2> QED
    BY <2>1, <2>2, <2>3 DEF NoRows
<1>11. CASE GenesisExists
  <2>1. pending = NoRows
    BY <1>11 DEF GenesisExists, IInv, PositionInv
  <2> QED
    BY <1>1, <1>7, <1>11, <2>1 DEF GenesisExists, NoRows
<1>12. CASE StartBlock
  <2>1. \A r \in pending.events : Passed(r.event)'
    BY <1>1, <1>2, <1>12 DEF StartBlock, Passed
  <2> QED
    BY <1>1, <1>7, <1>12, <2>1 DEF StartBlock
<1>13. CASE ProcessEvent
  <2>1. PICK parts \in SUBSET DOMAIN RowsOf(EventAt(Here)) :
          /\ pending' = [pending EXCEPT !.events = @ \cup RowsHere(parts)]
          /\ totals' = IF Counts(parts)
                       THEN [totals EXCEPT !.qbtc = AddAll(@, EventAt(Here),
                                                          PerPool(EventAt(Here)))]
                       ELSE totals
    BY <1>13, EventStep
  <2>2. pending'.events = pending.events \cup RowsHere(parts)
    BY <1>13, <2>1, EventStepIs
  <2>3. /\ InChain(Here) /\ Here[1] = height /\ Here[2] = tx /\ Here[3] = event + 1
        /\ Top < height
    BY <1>13, EventIsHere, EventInHand DEF ProcessEvent
  <2>4. \A r \in RowsHere(parts) : r.event = Here /\ r.id = IdOf(Here) /\ r.part \in parts
    BY DEF RowsHere, Row
  <2>5. height' = height /\ tx' = tx /\ event' = event + 1 /\ pc = "event" /\ pc' = "event"
        /\ db' = db
    BY <1>13 DEF ProcessEvent
  <2>6. \A r \in pending.events : Passed(r.event)'
    BY <1>1, <1>2, <2>5 DEF Passed
  <2>7. \A r \in RowsHere(parts) : WellPlaced(r) /\ Top < r.event[1] /\ Passed(r.event)'
    BY <1>2, <2>3, <2>4, <2>5 DEF WellPlaced, Passed
  <2> QED
    BY <1>1, <1>7, <2>2, <2>5, <2>6, <2>7
<1>14. CASE NextTx
  <2>1. \A r \in pending.events : Passed(r.event)'
    BY <1>1, <1>2, <1>14 DEF NextTx, Passed
  <2> QED
    BY <1>1, <1>7, <1>14, <2>1 DEF NextTx
<1>15. CASE EndEvents
  <2>1. pending'.events = pending.events /\ pc' # "event" /\ height' = height /\ db' = db
    BY <1>15, EndStepIs DEF EndEvents
  <2>2. \A r \in pending.events : Passed(r.event)'
    BY <1>1, <1>2, <2>1 DEF Passed
  <2> QED
    BY <1>1, <1>7, <2>1, <2>2
<1>16. CASE Commit
  BY <1>8, <1>16 DEF Commit
<1>17. CASE FlushRejected
  BY <1>8, <1>17 DEF FlushRejected, LoseMemory
<1>18. CASE Kill
  BY <1>8, <1>18 DEF Kill, LoseMemory
<1>19. CASE UNCHANGED vars
  BY <1>1, <1>7, <1>19 DEF vars, idVars, Passed
<1> QED
  BY <1>9, <1>10, <1>11, <1>12, <1>13, <1>14, <1>15, <1>16, <1>17, <1>18, <1>19 DEF Next

LEMMA LogStep ==
  ASSUME IInv, [Next]_vars
  PROVE  LogInv'
<1>1. /\ EndsSaved(db.log)
      /\ \A r \in pending.log : r.saved => pc = "flush" /\ r = LogRow(TRUE)
      /\ pc # "down" =>
           \A r \in db.log \cup pending.log :
             r.height <= height /\ (pc = "event" => r.height < height)
      /\ pc = "flush" =>
           /\ LogRow(TRUE) \in pending.log
           /\ \A s \in db.log \cup pending.log : s # LogRow(TRUE) => s.height < height
  BY WrittenIs DEF IInv, LogInv
<1>2. /\ height \in Nat /\ \A s \in db.log : s.height <= Top /\ s.height \in Nat
      /\ \A s \in pending.log : s.height \in Nat
  BY HeightIs, TopOf DEF IInv, RowsType, IsTables, IsLogRow
<1>3. RowsType'
  BY RowsTypeStep
<1>4. Written'.log = db'.log \cup pending'.log
  BY <1>3, WrittenNext
<1>5. SUFFICES
        /\ EndsSaved(db'.log)
        /\ \A r \in pending'.log : r.saved => pc' = "flush" /\ r = LogRow(TRUE)'
        /\ pc' # "down" =>
             \A r \in db'.log \cup pending'.log :
               r.height <= height' /\ (pc' = "event" => r.height < height')
        /\ pc' = "flush" =>
             /\ LogRow(TRUE)' \in pending'.log
             /\ \A s \in db'.log \cup pending'.log : s # LogRow(TRUE)' => s.height < height'
  BY <1>4 DEF LogInv, EndsSaved
<1>6. CASE pc' = "down" /\ pending' = NoRows
            /\ (db' = db \/ (pc = "flush" /\ db' = Together(db, pending)))
  <2>1. EndsSaved(db'.log)
    BY <1>1, <1>6, CommittedTop
  <2> QED
    BY <1>6, <2>1 DEF NoRows
<1>7. CASE StartProcess
  <2>1. height' = Top /\ pending' = NoRows /\ db' = db /\ pc' = "genesis"
    BY <1>7 DEF StartProcess, Top, IInv, PositionInv
  <2> QED
    BY <1>1, <1>2, <2>1 DEF NoRows
<1>8. CASE LoadGenesis
  <2>1. pending' = NoRows /\ db'.log = db.log /\ pc' = "select" /\ height' = height
        /\ pc = "genesis"
    BY <1>8, GenesisStepIs DEF LoadGenesis, IInv, PositionInv
  <2> QED
    BY <1>1, <2>1 DEF NoRows
<1>9. CASE GenesisExists
  BY <1>1, <1>9 DEF GenesisExists, depthVars, LogRow
<1>10. CASE StartBlock
  BY <1>1, <1>2, <1>10 DEF StartBlock
<1>11. CASE ProcessEvent
  <2>1. pending'.log = pending.log
    BY <1>11, EventStep, EventStepIs
  <2> QED
    BY <1>1, <1>11, <2>1 DEF ProcessEvent
<1>12. CASE NextTx
  BY <1>1, <1>12 DEF NextTx, depthVars
<1>13. CASE EndEvents
  <2>1. PICK commit \in BOOLEAN :
          /\ pc' = IF commit THEN "flush" ELSE "select"
          /\ pending'.log = pending.log \cup {LogRow(commit)}
    BY <1>13, EndStepIs
  <2>2. height' = height /\ totals' = totals /\ db' = db /\ pc = "event"
    BY <1>13 DEF EndEvents
  <2>3. LogRow(TRUE)' = LogRow(TRUE)
    BY <2>2 DEF LogRow
  <2>4. LogRow(commit).height = height /\ LogRow(commit).saved = commit
    BY LogRowIs
  <2>5. \A r \in pending.log : ~r.saved
    BY <1>1, <2>2
  <2>6. \A r \in db.log \cup pending.log : r.height < height
    BY <1>1, <2>2
  <2>7. \A r \in db'.log \cup pending'.log :
          r.height <= height /\ (r # LogRow(commit) => r.height < height)
    BY <1>2, <2>1, <2>2, <2>4, <2>6
  <2>8. \A r \in pending'.log : r.saved => commit = TRUE /\ r = LogRow(TRUE)
    BY <2>1, <2>4, <2>5
  <2>9. LogRow(commit) \in pending'.log
    BY <2>1
  <2>10. CASE commit = TRUE
    BY <1>1, <2>1, <2>2, <2>3, <2>7, <2>8, <2>9, <2>10
  <2>11. CASE commit = FALSE
    BY <1>1, <2>1, <2>2, <2>7, <2>8, <2>11
  <2> QED
    BY <2>10, <2>11
<1>14. CASE Commit
  <2>1. /\ db'.log = db.log \cup pending.log /\ EndsSaved(db'.log)
        /\ pending' = NoRows /\ pc' = "select" /\ height' = height
    BY <1>14, CommittedTop DEF Commit
  <2> QED
    BY <1>1, <1>14, <2>1 DEF Commit, NoRows
<1>15. CASE FlushRejected
  BY <1>6, <1>15 DEF FlushRejected, LoseMemory
<1>16. CASE Kill
  BY <1>6, <1>16 DEF Kill, LoseMemory
<1>17. CASE UNCHANGED vars
  BY <1>1, <1>17 DEF vars, depthVars, LogRow
<1> QED
  BY <1>7, <1>8, <1>9, <1>10, <1>11, <1>12, <1>13, <1>14, <1>15, <1>16, <1>17 DEF Next

(* The newest row of a pool depends on the rows of that pool. *)
LatestOf(rows) ==
  IF rows = {} THEN <<0, 0>>
  ELSE LET r == CHOOSE r \in rows : \A s \in rows : s.height <= r.height
       IN  <<r.qbtc, r.synth>>

Newest(rows, p) == LatestOf({r \in rows : r.pool = p})

LEMMA LatestIs ==
  ASSUME NEW rows, \A s \in rows : s.height \in Nat,
         NEW r \in rows, \A s \in rows : s.pool = r.pool /\ s # r => s.height < r.height
  PROVE  Newest(rows, r.pool) = <<r.qbtc, r.synth>>
<1> DEFINE of == {s \in rows : s.pool = r.pool}
<1>1. r \in of /\ \A s \in of : s.height <= r.height
  OBVIOUS
<1>2. \A s \in of : (\A q \in of : q.height <= s.height) => s = r
  <2> SUFFICES ASSUME NEW s \in of, \A q \in of : q.height <= s.height, s # r
               PROVE  FALSE
    OBVIOUS
  <2>1. s.height < r.height /\ r.height <= s.height
    BY <1>1
  <2>2. s.height \in Nat /\ r.height \in Nat
    OBVIOUS
  <2> QED
    BY <2>1, <2>2
<1>3. (CHOOSE q \in of : \A s \in of : s.height <= q.height) = r
  BY <1>1, <1>2
<1> QED
  BY <1>1, <1>3 DEF Newest, LatestOf

LEMMA LatestOfSame ==
  ASSUME NEW rows, NEW more, NEW p, \A r \in more : r.pool # p
  PROVE  Newest(rows \cup more, p) = Newest(rows, p)
<1>1. {r \in rows \cup more : r.pool = p} = {r \in rows : r.pool = p}
  OBVIOUS
<1> QED
  BY <1>1 DEF Newest

(* A pool with no change has its depth already. *)
LEMMA UnchangedPool ==
  ASSUME NEW p \in Pools \ ChangedPools
  PROVE  /\ At(snapshot.qbtc, p) = At(totals.qbtc, p)
         /\ At(snapshot.synth, p) = At(totals.synth, p)
         /\ p \in Known(totals) => p \in Known(snapshot)
<1>1. /\ ~DiffAtKey(snapshot.qbtc, totals.qbtc, p)
      /\ ~DiffAtKey(snapshot.synth, totals.synth, p)
  BY DEF ChangedPools
<1> QED
  BY <1>1 DEF DiffAtKey, At, Known

LEMMA DepthsStep ==
  ASSUME IInv, [Next]_vars
  PROVE  DepthsInv'
<1> DEFINE rows == db.depths \cup pending.depths
<1>1. /\ \A r, s \in rows : r.pool = s.pool /\ r.height = s.height => r = s
      /\ \A r \in db.depths :
           db.log # {} /\ r.height <= Top /\ r.pool \in Known(LastRow(db.log).agg)
      /\ pc # "down" =>
           \A r \in rows : /\ r.height <= height /\ (pc = "event" => r.height < height)
                           /\ r.pool \in Known(totals)
      /\ Known(snapshot) \subseteq Known(totals)
      /\ pc # "down" /\ snapshot # NoTotals /\ ~missed =>
           \A p \in Pools : Newest(rows, p) = <<At(snapshot.qbtc, p), At(snapshot.synth, p)>>
      /\ pc \in {"select", "flush"} /\ snapshot # NoTotals => snapshot = totals
  BY WrittenIs DEF IInv, DepthsInv, NewestDepth, Newest, LatestOf
<1>2. /\ \A r \in rows : r.height \in Nat /\ r.pool \in Pools
      /\ height \in Nat /\ Top \in Nat
  BY HeightIs, TopOf DEF IInv, RowsType, IsTables, DepthRows
<1>3. RowsType'
  BY RowsTypeStep
<1>4. Written'.depths = db'.depths \cup pending'.depths
  BY <1>3, WrittenNext
<1>5. SUFFICES
        /\ \A r, s \in db'.depths \cup pending'.depths :
             r.pool = s.pool /\ r.height = s.height => r = s
        /\ \A r \in db'.depths :
             db'.log # {} /\ r.height <= Top' /\ r.pool \in Known(LastRow(db'.log).agg)
        /\ pc' # "down" =>
             \A r \in db'.depths \cup pending'.depths :
               /\ r.height <= height' /\ (pc' = "event" => r.height < height')
               /\ r.pool \in Known(totals')
        /\ Known(snapshot') \subseteq Known(totals')
        /\ pc' # "down" /\ snapshot' # NoTotals /\ ~missed' =>
             \A p \in Pools : Newest(db'.depths \cup pending'.depths, p)
                                = <<At(snapshot'.qbtc, p), At(snapshot'.synth, p)>>
        /\ pc' \in {"select", "flush"} /\ snapshot' # NoTotals => snapshot' = totals'
  BY <1>4 DEF DepthsInv, NewestDepth, Newest, LatestOf
<1>6. db' = db => Top' = Top
  BY DEF Top
<1>7. NoRows.depths = {} /\ NoRows.log = {} /\ Known(NoTotals) = {}
  BY NothingIs DEF NoRows
<1>8. CASE LoseMemory /\ (db' = db \/ (pc = "flush" /\ db' = Together(db, pending)))
  <2>1. pc' = "down" /\ pending' = NoRows /\ totals' = NoTotals /\ snapshot' = NoTotals
    BY <1>8 DEF LoseMemory
  <2>2. CASE db' = db
    BY <1>1, <1>6, <1>7, <2>1, <2>2
  <2>3. CASE pc = "flush" /\ db' = Together(db, pending)
    <3>1. /\ db'.depths = rows /\ db'.log # {} /\ Top' = height
          /\ LastRow(db'.log).agg = totals
      BY <2>3, CommittedTop DEF Top
    <3> HIDE DEF rows
    <3> QED
      BY <1>1, <1>7, <2>1, <2>3, <3>1
  <2> QED
    BY <1>8, <2>2, <2>3
<1>9. CASE StartProcess
  <2>1. /\ pending = NoRows /\ pending' = NoRows /\ db' = db /\ pc' = "genesis"
        /\ snapshot = NoTotals /\ snapshot' = NoTotals
        /\ height' = IF db.log = {} THEN 0 ELSE LastRow(db.log).height
        /\ totals' = IF db.log = {} THEN NoTotals ELSE LastRow(db.log).agg
    BY <1>9 DEF StartProcess, IInv, PositionInv
  <2>2. height' = Top
    BY <2>1 DEF Top
  <2>3. rows = db.depths /\ db'.depths \cup pending'.depths = db.depths
    BY <1>7, <2>1
  <2> HIDE DEF rows
  <2> QED
    BY <1>1, <1>6, <1>7, <2>1, <2>2, <2>3
<1>10. CASE LoadGenesis
  <2>1. /\ pc = "genesis" /\ pc' = "select" /\ pending' = pending /\ height' = height
        /\ snapshot = NoTotals /\ snapshot' = NoTotals
    BY <1>10 DEF LoadGenesis, IInv, PositionInv
  <2>2. /\ db'.depths = db.depths /\ db'.log = db.log /\ Top' = Top
        /\ Known(totals) \subseteq Known(totals')
    BY <1>10, GenesisStepIs DEF Top, Known
  <2>3. db'.depths \cup pending'.depths = rows
    BY <2>1, <2>2
  <2> HIDE DEF rows
  <2> QED
    BY <1>1, <1>7, <2>1, <2>2, <2>3
<1>11. CASE GenesisExists
  <2>1. snapshot = NoTotals
    BY <1>11 DEF GenesisExists, IInv, PositionInv
  <2> QED
    BY <1>1, <1>6, <1>11, <2>1 DEF GenesisExists, depthVars
<1>12. CASE StartBlock
  <2>1. /\ pc = "select" /\ pc' = "event" /\ height' = height + 1
        /\ UNCHANGED <<db, pending, totals, snapshot, missed>>
    BY <1>12 DEF StartBlock, depthVars
  <2>2. \A r \in rows : r.height < height + 1 /\ r.height <= height + 1
    BY <1>1, <1>2, <2>1
  <2>3. db'.depths \cup pending'.depths = rows
    BY <2>1
  <2> HIDE DEF rows
  <2>4. \A r \in db'.depths \cup pending'.depths :
          r.height <= height' /\ r.height < height' /\ r.pool \in Known(totals')
    BY <1>1, <2>1, <2>2, <2>3
  <2>5. /\ Known(snapshot') \subseteq Known(totals')
        /\ \A r \in db'.depths :
             db'.log # {} /\ r.height <= Top' /\ r.pool \in Known(LastRow(db'.log).agg)
    BY <1>1, <1>6, <2>1
  <2>6. /\ snapshot' # NoTotals /\ ~missed' =>
             \A p \in Pools : Newest(db'.depths \cup pending'.depths, p)
                                = <<At(snapshot'.qbtc, p), At(snapshot'.synth, p)>>
        /\ \A r, s \in db'.depths \cup pending'.depths :
             r.pool = s.pool /\ r.height = s.height => r = s
    BY <1>1, <2>1, <2>3
  <2> QED
    BY <2>1, <2>4, <2>5, <2>6
<1>13. CASE ProcessEvent
  <2>1. /\ pending'.depths = pending.depths
        /\ DOMAIN totals.qbtc \subseteq DOMAIN totals'.qbtc /\ totals'.synth = totals.synth
    BY <1>13, EventStep, EventStepIs
  <2>2. Known(totals) \subseteq Known(totals')
    BY <2>1 DEF Known
  <2>3. /\ pc = "event" /\ pc' = "event" /\ UNCHANGED <<db, height, snapshot, missed>>
    BY <1>13 DEF ProcessEvent
  <2>4. db'.depths \cup pending'.depths = rows
    BY <2>1, <2>3
  <2> HIDE DEF rows
  <2> QED
    BY <1>1, <1>6, <2>2, <2>3, <2>4
<1>14. CASE NextTx
  <2>1. /\ pc = "event" /\ pc' = "event"
        /\ UNCHANGED <<db, pending, height, totals, snapshot, missed>>
    BY <1>14 DEF NextTx, depthVars
  <2> QED
    BY <1>1, <1>6, <2>1
<1>15. CASE EndEvents
  <2>1. PICK commit \in BOOLEAN, written \in SUBSET ChangedPools :
          /\ ~missed' => written = ChangedPools /\ ~missed
          /\ pc' = IF commit THEN "flush" ELSE "select"
          /\ pending'.depths = pending.depths \cup {DepthRow(p) : p \in written}
    BY <1>15, EndStepIs
  <2>2. /\ pc = "event" /\ snapshot' = totals /\ UNCHANGED <<db, height, totals>>
        /\ pc' \in {"flush", "select"}
    BY <1>15 DEF EndEvents
  <2> DEFINE more == {DepthRow(p) : p \in written}
  <2>3. \A p \in written : /\ DepthRow(p).height = height /\ DepthRow(p).pool = p
                           /\ DepthRow(p).qbtc = At(totals.qbtc, p)
                           /\ DepthRow(p).synth = At(totals.synth, p)
    BY DepthRowIs DEF ChangedPools
  <2>4. \A r \in more : r.height = height /\ r.pool \in written /\ r = DepthRow(r.pool)
    BY <2>3
  <2>5. written \subseteq Known(totals)
    <3>1. ChangedPools \subseteq Known(snapshot) \cup Known(totals)
      BY DEF ChangedPools, DiffAtKey, Known
    <3> QED
      BY <1>1, <3>1
  <2>6. db'.depths \cup pending'.depths = rows \cup more
    BY <2>1, <2>2
  <2>7. \A r \in rows : r.height < height /\ r.pool \in Known(totals)
    BY <1>1, <2>2
  <2> HIDE DEF more, rows
  <2>8. ASSUME NEW r \in rows \cup more, NEW s \in rows \cup more,
               r.pool = s.pool, r.height = s.height
        PROVE  r = s
    <3>1. CASE r \in rows /\ s \in rows
      BY <1>1, <2>8, <3>1
    <3>2. CASE r \in more /\ s \in more
      BY <2>4, <2>8, <3>2
    <3>3. ASSUME NEW q \in rows, NEW w \in more PROVE q.height # w.height
      BY <1>2, <2>4, <2>7
    <3> QED
      BY <2>8, <3>1, <3>2, <3>3
  <2>9. ASSUME NEW p \in Pools, ~missed'
        PROVE  Newest(rows \cup more, p) = <<At(totals.qbtc, p), At(totals.synth, p)>>
    <3>1. CASE p \in written
      <4>1. DepthRow(p) \in more
        BY <3>1 DEF more
      <4>2. \A s \in rows \cup more : s.height \in Nat
        BY <1>2, <2>4
      <4>3. \A s \in rows \cup more : s.pool = p /\ s # DepthRow(p) => s.height < height
        BY <2>4, <2>7
      <4>4. PICK r : r = DepthRow(p)
        OBVIOUS
      <4>5. r \in rows \cup more /\ r.pool = p /\ r.height = height
            /\ r.qbtc = At(totals.qbtc, p) /\ r.synth = At(totals.synth, p)
        BY <2>3, <3>1, <4>1, <4>4
      <4>6. \A s \in rows \cup more : s.pool = r.pool /\ s # r => s.height < r.height
        BY <4>3, <4>4, <4>5
      <4>7. Newest(rows \cup more, r.pool) = <<r.qbtc, r.synth>>
        BY <4>2, <4>5, <4>6, LatestIs
      <4> QED
        BY <4>5, <4>7
    <3>2. CASE p \notin written
      <4>1. p \in Pools \ ChangedPools /\ ~missed
        BY <2>1, <2>9, <3>2
      <4>2. /\ At(snapshot.qbtc, p) = At(totals.qbtc, p)
            /\ At(snapshot.synth, p) = At(totals.synth, p)
            /\ p \in Known(totals) => p \in Known(snapshot)
        BY <4>1, UnchangedPool
      <4>3. Newest(rows \cup more, p) = Newest(rows, p)
        <5>1. \A r \in more : r.pool # p
          BY <2>4, <3>2
        <5> QED
          BY <5>1, LatestOfSame
      <4>4. CASE snapshot # NoTotals
        BY <1>1, <2>2, <4>1, <4>2, <4>3, <4>4
      <4>5. CASE snapshot = NoTotals
        <5>1. \A r \in rows : r.pool # p
          BY <1>7, <2>7, <4>2, <4>5
        <5>2. Newest(rows, p) = <<0, 0>>
          BY <5>1 DEF Newest, LatestOf
        <5>3. At(snapshot.qbtc, p) = 0 /\ At(snapshot.synth, p) = 0
          BY <4>5, NothingIs
        <5> QED
          BY <4>2, <4>3, <5>2, <5>3
      <4> QED
        BY <4>4, <4>5
    <3> QED
      BY <3>1, <3>2
  <2>10. \A r \in rows \cup more : r.height <= height /\ r.pool \in Known(totals)
    BY <1>2, <2>4, <2>5, <2>7
  <2> QED
    BY <1>1, <1>6, <2>2, <2>6, <2>8, <2>9, <2>10
<1>16. CASE Commit
  <2>1. /\ pc = "flush" /\ pc' = "select" /\ db' = Together(db, pending)
        /\ pending' = NoRows /\ UNCHANGED <<height, totals, snapshot, missed>>
    BY <1>16 DEF Commit, depthVars
  <2>2. /\ db'.depths = rows /\ db'.log # {} /\ Top' = height
        /\ LastRow(db'.log).agg = totals
    BY <2>1, CommittedTop DEF Top
  <2>3. db'.depths \cup pending'.depths = rows
    BY <1>7, <2>1, <2>2
  <2> HIDE DEF rows
  <2>4. \A r \in rows : r.height <= height /\ r.pool \in Known(totals)
    BY <1>1, <2>1
  <2>5. \A r \in db'.depths :
          db'.log # {} /\ r.height <= Top' /\ r.pool \in Known(LastRow(db'.log).agg)
    BY <2>2, <2>4
  <2>6. \A r \in db'.depths \cup pending'.depths :
          r.height <= height' /\ r.pool \in Known(totals')
    BY <2>1, <2>3, <2>4
  <2>7. snapshot' # NoTotals /\ ~missed' =>
          \A p \in Pools : Newest(db'.depths \cup pending'.depths, p)
                             = <<At(snapshot'.qbtc, p), At(snapshot'.synth, p)>>
    BY <1>1, <2>1, <2>3
  <2>8. \A r, s \in db'.depths \cup pending'.depths :
          r.pool = s.pool /\ r.height = s.height => r = s
    BY <1>1, <2>3
  <2>9. /\ Known(snapshot') \subseteq Known(totals')
        /\ snapshot' # NoTotals => snapshot' = totals'
    BY <1>1, <2>1
  <2> QED
    BY <2>1, <2>5, <2>6, <2>7, <2>8, <2>9
<1>17. CASE FlushRejected
  BY <1>8, <1>17 DEF FlushRejected
<1>18. CASE Kill
  BY <1>8, <1>18 DEF Kill
<1>19. CASE UNCHANGED vars
  BY <1>1, <1>6, <1>19 DEF vars, depthVars
<1> QED
  BY <1>9, <1>10, <1>11, <1>12, <1>13, <1>14, <1>15, <1>16, <1>17, <1>18, <1>19 DEF Next

(* The events that count are finitely many, each with a number for a pool. *)
LEMMA WholeIs ==
  ASSUME IInv, NEW h \in Nat, NEW rows, rows = Written.events
  PROVE  /\ IsFiniteSet(WholeRewards(rows, h))
         /\ \A e \in WholeRewards(rows, h) : \A p : Amount(EventAt(e), PerPool(EventAt(e)),
              p) \in Int
<1>1. IsFiniteSet({r.event : r \in rows})
  <2> DEFINE f == [r \in rows |-> r.event]
  <2>1. IsFiniteSet(rows)
    BY WrittenIs DEF IInv, IsTables
  <2>2. {r.event : r \in rows} = {f[r] : r \in rows}
    OBVIOUS
  <2> HIDE DEF f
  <2> QED
    <3>1. IsFiniteSet({f[r] : r \in rows})
      BY ONLY <2>1, ImageIsFinite
    <3> QED
      BY <2>2, <3>1
<1>2. IsFiniteSet(WholeRewards(rows, h))
  <2>1. WholeRewards(rows, h) \subseteq {r.event : r \in rows}
    BY DEF WholeRewards
  <2> QED
    BY <1>1, <2>1, FS_Subset
<1>3. ASSUME NEW e \in WholeRewards(rows, h), NEW p
      PROVE  Amount(EventAt(e), PerPool(EventAt(e)), p) \in Int
  <2>1. InChain(e) /\ e[1] # 0
    BY DEF WholeRewards, IInv, EventsInv
  <2>2. /\ e[1] \in 1..Len(chain) /\ e[2] \in 0..Len(chain[e[1]].TxsResults)
        /\ e[3] \in 1..Len(EventsOf(chain[e[1]], e[2]))
    BY <2>1 DEF InChain
  <2>3. PICK ev : ev = EventAt(e)
    OBVIOUS
  <2>4. IsFiniteSet(PerPool(ev)) /\ \A i \in PerPool(ev) : ev.attrs[i].e8 \in Int
    BY <2>2, <2>3, EventIs DEF EventAt, IInv, TypeOK
  <2>5. Amount(ev, PerPool(ev), p) \in Int
    BY <2>4, AmountIs
  <2> QED
    BY <2>3, <2>5
<1> QED
  BY <1>2, <1>3

(* The rows of the event in hand count for it, once it has all of them. *)
LEMMA WholeWithHere ==
  ASSUME NEW rows, \A r \in rows : r.event # Here,
         NEW parts, Here[1] \in 1..height
  PROVE  /\ WholeRewards(rows \cup RowsHere(parts), height) =
              WholeRewards(rows, height) \cup (IF Counts(parts) THEN {Here} ELSE {})
         /\ Here \notin WholeRewards(rows, height)
<1> DEFINE of(rs, e) == {r.part : r \in {q \in rs : q.event = e}}
           all == rows \cup RowsHere(parts)
           is(rs, e) == /\ e \in {r.event : r \in rs} /\ e[1] \in 1..height
                        /\ EventAt(e).type = "rewards" /\ of(rs, e) = DOMAIN RowsOf(EventAt(e))
<1>1. \A r \in RowsHere(parts) : r.event = Here
  BY DEF RowsHere, Row
<1>2. /\ \A e : e \in WholeRewards(all, height) <=> is(all, e)
      /\ \A e : e \in WholeRewards(rows, height) <=> is(rows, e)
  BY DEF WholeRewards
<1>3. ASSUME NEW e, e # Here PROVE is(all, e) <=> is(rows, e)
  <2>1. \A q \in all : q.event = e => q \in rows
    BY <1>1, <1>3
  <2>2. of(all, e) = of(rows, e)
    BY <2>1
  <2>3. e \in {r.event : r \in all} <=> e \in {r.event : r \in rows}
    BY <2>1
  <2> HIDE DEF of, all
  <2> QED
    BY <2>2, <2>3
<1>4. is(all, Here) <=> Counts(parts)
  <2>1. {q \in all : q.event = Here} = RowsHere(parts)
    BY <1>1
  <2>2. {r.part : r \in RowsHere(parts)} = parts
    <3>1. \A part \in parts : Row(Here, part, IdOf(Here)) \in RowsHere(parts)
                               /\ Row(Here, part, IdOf(Here)).part = part
      BY DEF RowsHere, Row
    <3>2. \A r \in RowsHere(parts) : r.part \in parts
      BY DEF RowsHere, Row
    <3> QED
      BY <3>1, <3>2
  <2>3. Here \in {r.event : r \in all} <=> parts # {}
    <3>1. Here \in {r.event : r \in all} <=> RowsHere(parts) # {}
      BY <1>1
    <3>2. RowsHere(parts) # {} <=> parts # {}
      BY DEF RowsHere
    <3> QED
      BY <3>1, <3>2
  <2>4. of(all, Here) = parts
    BY <2>1, <2>2
  <2> HIDE DEF of, all
  <2> QED
    BY <2>3, <2>4 DEF Counts
<1>5. ~is(rows, Here)
  OBVIOUS
<1> HIDE DEF is, all
<1>6. \A e : e \in WholeRewards(all, height) <=>
               e \in WholeRewards(rows, height) \/ (Counts(parts) /\ e = Here)
  BY <1>2, <1>3, <1>4, <1>5
<1>7. WholeRewards(all, height) =
        WholeRewards(rows, height) \cup (IF Counts(parts) THEN {Here} ELSE {})
  BY <1>6
<1> QED
  BY <1>2, <1>5, <1>7 DEF all

LEMMA RecordedWithHere ==
  ASSUME IInv, pc = "event", event < Len(EventsOfLoop), NEW parts,
         NEW rows, rows = Written.events, NEW p \in Pools
  PROVE  Recorded(rows \cup RowsHere(parts), height)[p] =
           Recorded(rows, height)[p]
             + IF Counts(parts) THEN Amount(EventAt(Here), PerPool(EventAt(Here)), p) ELSE 0
<1>1. /\ Here[1] = height /\ Here[2] = tx /\ Here[3] = event + 1
      /\ height \in 1..Len(chain) /\ Top < height
      /\ IsFiniteSet(PerPool(EventAt(Here)))
      /\ \A i \in PerPool(EventAt(Here)) : EventAt(Here).attrs[i].e8 \in Int
  BY EventIsHere, EventInHand
<1>2. height \in Nat /\ event \in Nat /\ tx \in Nat /\ Top \in Nat
  BY HeightIs, TopOf DEF IInv, RowsType
<1>3. \A r \in rows : r.event # Here
  <2>1. rows = db.events \cup pending.events
    BY WrittenIs DEF IInv
  <2>2. \A r \in db.events : r.event[1] <= Top
    BY DEF IInv, EventsInv
  <2>3. \A r \in db.events : r.event # Here
    BY <1>1, <1>2, <2>2
  <2>4. \A r \in pending.events : Passed(r.event)
    BY DEF IInv, EventsInv
  <2>5. ~Passed(Here)
    BY <1>1, <1>2 DEF Passed
  <2> QED
    BY <2>1, <2>3, <2>4, <2>5
<1> DEFINE W == WholeRewards(rows, height)
           all == rows \cup RowsHere(parts)
           X == WholeRewards(all, height)
           amount(e) == Amount(EventAt(e), PerPool(EventAt(e)), p)
           f == [e \in W |-> amount(e)]
           g == [e \in X |-> amount(e)]
<1>4. X = W \cup (IF Counts(parts) THEN {Here} ELSE {}) /\ Here \notin W
  <2>1. Here[1] \in 1..height
    BY <1>1, <1>2
  <2> QED
    BY <1>3, <2>1, WholeWithHere
<1>5. IsFiniteSet(W) /\ \A e \in W : amount(e) \in Int
  BY <1>2, WholeIs
<1>6. amount(Here) \in Int
  BY <1>1, AmountIs
<1>7. Recorded(rows, height)[p] = SumFunctionOnSet(f, W)
  BY RecordedIs
<1>8. Recorded(all, height)[p] = SumFunctionOnSet(g, X)
  BY RecordedIs
<1> HIDE DEF W, X, all, amount
<1>9. SumFunctionOnSet(f, W) \in Int
  <2>1. \A e \in W : f[e] \in Int
    BY <1>5
  <2> HIDE DEF f
  <2> QED
    BY <1>5, <2>1, SumIsInt
<1>10. CASE Counts(parts)
  <2>1. X = W \cup {Here} /\ Here \notin W
    BY <1>4, <1>10
  <2>2. \A e \in W : f[e] \in Int /\ g[e] = f[e]
    BY <1>5, <2>1
  <2>3. g[Here] = amount(Here) /\ g[Here] \in Int
    BY <1>6, <2>1
  <2> HIDE DEF f, g
  <2>4. SumFunctionOnSet(g, W \cup {Here}) = SumFunctionOnSet(f, W) + g[Here]
    <3>1. PICK s, x, d, e : s = W /\ x = Here /\ d = f /\ e = g
      OBVIOUS
    <3>2. /\ IsFiniteSet(s) /\ x \notin s
          /\ \A y \in s : d[y] \in Int /\ e[y] = d[y]
          /\ e[x] \in Int
      BY <1>5, <2>1, <2>2, <2>3, <3>1
    <3>3. SumFunctionOnSet(e, s \cup {x}) = SumFunctionOnSet(d, s) + e[x]
      BY ONLY <3>2, SumWithOneMore
    <3> QED
      BY <3>1, <3>3
  <2> QED
    BY <1>7, <1>8, <1>10, <2>1, <2>3, <2>4 DEF amount, all
<1>11. CASE ~Counts(parts)
  <2>1. X = W
    BY <1>4, <1>11
  <2>2. SumFunctionOnSet(g, X) = SumFunctionOnSet(f, W)
    BY <2>1
  <2>3. /\ Recorded(all, height)[p] = Recorded(rows, height)[p]
        /\ Recorded(rows, height)[p] \in Int
    BY <1>7, <1>8, <1>9, <2>2
  <2> HIDE DEF f, g
  <2> QED
    BY <1>11, <2>3 DEF all
<1> QED
  BY <1>10, <1>11

LEMMA RewardsStep ==
  ASSUME IInv, [Next]_vars
  PROVE  DepthsAreRewards'
<1>1. PICK d, q, h, d1, q1, h1 :
        /\ d = db.events /\ q = pending.events /\ h = height
        /\ d1 = db'.events /\ q1 = pending'.events /\ h1 = height'
  OBVIOUS
<1>2. Written.events = d \cup q /\ Written'.events = d1 \cup q1
  BY <1>1, RowsTypeStep, WrittenIs, WrittenNext DEF IInv
<1>3. /\ pc # "down" => SameDepths(totals.qbtc, Recorded(d \cup q, h))
      /\ \A r \in db.log : r.saved => SameDepths(r.agg.qbtc, Recorded(d, r.height))
  BY <1>1, <1>2 DEF IInv, DepthsAreRewards
<1>4. SUFFICES
        /\ pc' # "down" => SameDepths(totals'.qbtc, Recorded(d1 \cup q1, h1))
        /\ \A r \in db'.log : r.saved => SameDepths(r.agg.qbtc, Recorded(d1, r.height))
  <2>1. chain' = chain
    BY SameChain
  <2> QED
    BY <1>1, <1>2, <1>4, <2>1 DEF DepthsAreRewards, Recorded, WholeRewards, EventAt
<1>5. /\ h \in Nat /\ Top \in Nat /\ \A r \in db.log : r.height \in Nat /\ r.height <= Top
      /\ \A r \in d \cup q : r.event[1] \in Nat
      /\ \A r \in d : r.event[1] <= Top
      /\ \A r \in q : Top < r.event[1] /\ r.event[1] <= h
  <2>1. h \in Nat /\ Top \in Nat
    BY <1>1, HeightIs, TopOf DEF IInv
  <2>2. \A r \in db.log : r.height \in Nat /\ r.height <= Top
    BY TopOf DEF IInv, RowsType, IsTables, IsLogRow
  <2>3. \A r \in d \cup q : r.event[1] \in Nat
    BY <1>1 DEF IInv, RowsType, IsTables, EventRows, Places
  <2>4. \A r \in d : r.event[1] <= Top
    BY <1>1 DEF IInv, EventsInv
  <2>5. \A r \in q : Top < r.event[1] /\ r.event[1] <= h
    BY <1>1, <2>1, <2>3 DEF IInv, EventsInv, Passed
  <2> QED
    BY <2>1, <2>2, <2>3, <2>4, <2>5
<1>6. ASSUME pc = "flush", db' = Together(db, pending)
      PROVE  \A r \in db'.log : r.saved => SameDepths(r.agg.qbtc, Recorded(d1, r.height))
  <2>1. /\ d1 = d \cup q /\ db'.log = db.log \cup pending.log
        /\ LogRow(TRUE).height = h /\ LogRow(TRUE).agg = totals
    BY <1>1, <1>6, CommittedTop
  <2>2. ASSUME NEW r \in db.log, r.saved
        PROVE  SameDepths(r.agg.qbtc, Recorded(d1, r.height))
    <3>1. PICK k : k = r.height
      OBVIOUS
    <3>2. k \in Nat /\ k <= Top
      BY <1>5, <3>1
    <3>3. UpTo(d \cup q, k) = UpTo(d, k)
      BY <1>5, <3>1, <3>2 DEF UpTo
    <3>4. Recorded(d \cup q, k) = Recorded(d, k)
      BY <3>3, SameRecorded
    <3> QED
      BY <1>3, <2>1, <2>2, <3>1, <3>4
  <2>3. ASSUME NEW r \in pending.log, r.saved
        PROVE  SameDepths(r.agg.qbtc, Recorded(d1, r.height))
    <3>1. r = LogRow(TRUE)
      BY <2>3 DEF IInv, LogInv
    <3> QED
      BY <1>3, <1>6, <2>1, <3>1
  <2> QED
    BY <2>1, <2>2, <2>3
<1>7. CASE StartProcess
  <2>1. /\ q = {} /\ q1 = {} /\ d1 = d /\ db' = db
        /\ h1 = IF db.log = {} THEN 0 ELSE LastRow(db.log).height
        /\ totals' = IF db.log = {} THEN NoTotals ELSE LastRow(db.log).agg
    BY <1>1, <1>7 DEF StartProcess, IInv, PositionInv, NoRows
  <2>2. CASE db.log = {}
    <3>1. \A r \in d : r.event[1] \notin 1..0
      BY <1>5
    <3>2. \A p \in Pools : Recorded(d, 0)[p] = 0
      BY <3>1, NoneWhole
    <3>3. d \cup q1 = d
      BY <2>1
    <3> QED
      BY <1>3, <2>1, <2>2, <3>2, <3>3, NothingIs DEF SameDepths
  <2>3. CASE db.log # {}
    <3>1. LastRow(db.log) \in db.log /\ LastRow(db.log).saved
      BY <2>3, TopOf DEF IInv
    <3>2. d1 \cup q1 = d
      BY <2>1
    <3> QED
      BY <1>3, <2>1, <2>3, <3>1, <3>2
  <2> QED
    BY <2>2, <2>3
<1>8. CASE LoadGenesis
  <2>1. /\ q = {} /\ q1 = {} /\ h1 = h /\ pc = "genesis"
    BY <1>1, <1>8 DEF LoadGenesis, IInv, PositionInv, NoRows
  <2>2. /\ d \subseteq d1 /\ \A r \in d1 : r \in d \/ r.event[1] = 0
        /\ totals'.qbtc = totals.qbtc /\ db'.log = db.log
    BY <1>1, <1>8, GenesisStepIs
  <2>3. ASSUME NEW k \in Nat PROVE Recorded(d1, k) = Recorded(d, k)
    <3>1. UpTo(d1, k) = UpTo(d, k)
      BY <2>2 DEF UpTo
    <3> QED
      BY <3>1, SameRecorded
  <2>4. d \cup q = d /\ d1 \cup q1 = d1
    BY <2>1
  <2> QED
    BY <1>3, <1>5, <2>1, <2>2, <2>3, <2>4
<1>9. CASE GenesisExists
  <2>1. UNCHANGED <<db, pending, height, totals>> /\ pc = "genesis"
    BY <1>9 DEF GenesisExists, depthVars
  <2> QED
    BY <1>1, <1>3, <2>1
<1>10. CASE StartBlock
  <2>1. UNCHANGED <<db, pending, totals>> /\ height' = height + 1 /\ pc = "select"
    BY <1>10 DEF StartBlock, depthVars
  <2>2. Top <= h
    BY <1>1, <2>1 DEF IInv, PositionInv
  <2>3. Recorded(d \cup q, h + 1) = Recorded(d \cup q, h)
    <3>1. \A r \in d \cup q : r.event[1] <= h
      BY <1>5, <2>2
    <3>2. UpTo(d \cup q, h + 1) = UpTo(d \cup q, h)
      BY <1>5, <3>1 DEF UpTo
    <3> QED
      BY <3>2, SameRecorded
  <2> QED
    BY <1>1, <1>3, <2>1, <2>3
<1>11. CASE ProcessEvent
  <2>1. PICK parts \in SUBSET DOMAIN RowsOf(EventAt(Here)) :
          /\ pending' = [pending EXCEPT !.events = @ \cup RowsHere(parts)]
          /\ totals' = IF Counts(parts)
                       THEN [totals EXCEPT !.qbtc = AddAll(@, EventAt(Here),
                                                          PerPool(EventAt(Here)))]
                       ELSE totals
    BY <1>11, EventStep
  <2>2. /\ q1 = q \cup RowsHere(parts)
        /\ \A p : At(totals'.qbtc, p) =
                    At(totals.qbtc, p) + IF Counts(parts)
                      THEN Amount(EventAt(Here), PerPool(EventAt(Here)), p) ELSE 0
    BY <1>1, <1>11, <2>1, EventStepIs
  <2>3. pc = "event" /\ event < Len(EventsOfLoop) /\ db' = db /\ d1 = d /\ h1 = h
    BY <1>1, <1>11 DEF ProcessEvent
  <2>4. PICK rows : rows = d \cup q
    OBVIOUS
  <2>5. \A p \in Pools :
          Recorded(rows \cup RowsHere(parts), h)[p] =
            Recorded(rows, h)[p]
              + IF Counts(parts) THEN Amount(EventAt(Here), PerPool(EventAt(Here)), p) ELSE 0
    BY <1>1, <1>2, <2>3, <2>4, RecordedWithHere
  <2>6. d1 \cup q1 = rows \cup RowsHere(parts)
    BY <2>2, <2>3, <2>4
  <2>7. SameDepths(totals'.qbtc, Recorded(d1 \cup q1, h1))
    BY <1>3, <2>2, <2>3, <2>4, <2>5, <2>6 DEF SameDepths
  <2> QED
    BY <1>3, <2>3, <2>7
<1>12. CASE NextTx
  <2>1. UNCHANGED <<db, pending, height, totals>> /\ pc = "event"
    BY <1>12 DEF NextTx, depthVars
  <2> QED
    BY <1>1, <1>3, <2>1
<1>13. CASE EndEvents
  <2>1. /\ UNCHANGED <<db, height, totals>> /\ pc = "event"
        /\ pending'.events = pending.events
    BY <1>13, EndStepIs DEF EndEvents
  <2> QED
    BY <1>1, <1>3, <2>1
<1>14. CASE Commit
  <2>1. /\ pc = "flush" /\ db' = Together(db, pending) /\ q1 = {} /\ h1 = h
        /\ totals' = totals
    BY <1>1, <1>14 DEF Commit, NoRows, depthVars
  <2>2. d1 = d \cup q
    BY <1>1, <2>1, CommittedTop
  <2>3. d1 \cup q1 = d \cup q
    BY <2>1, <2>2
  <2> QED
    BY <1>3, <1>6, <2>1, <2>3
<1>15. CASE FlushRejected
  BY <1>1, <1>3, <1>15 DEF FlushRejected, LoseMemory
<1>16. CASE Kill
  <2>1. pc' = "down" /\ (db' = db \/ (pc = "flush" /\ db' = Together(db, pending)))
    BY <1>16 DEF Kill, LoseMemory
  <2> QED
    BY <1>1, <1>3, <1>6, <2>1
<1>17. CASE UNCHANGED vars
  <2>1. UNCHANGED <<pc, db, pending, height, totals>>
    BY <1>17 DEF vars, depthVars
  <2> QED
    BY <1>1, <1>3, <2>1
<1> QED
  BY <1>7, <1>8, <1>9, <1>10, <1>11, <1>12, <1>13, <1>14, <1>15, <1>16, <1>17 DEF Next

LEMMA TypeStep ==
  ASSUME IInv, [Next]_vars
  PROVE  TypeOK'
<1>1. RowsType' /\ PositionInv' /\ LogInv'
  BY RowsTypeStep, PositionStep, LogStep
<1>2. chain' = chain /\ (\A r : Accepted(r)' <=> Accepted(r))
  BY SameChain DEF Accepted
<1>3. /\ chain \in Chains /\ height \in Nat /\ Len(chain) \in Nat /\ height <= Len(chain)
      /\ Top \in Nat /\ Top <= Len(chain)
  BY HeightIs, TopOf DEF IInv, TypeOK, PositionInv
<1>4. TotalsType(totals') /\ TotalsType(snapshot')
  BY <1>1, TotalsAre DEF RowsType
<1>5. db'.log # {} => LastRow(db'.log).saved
  BY <1>1, LastOf DEF RowsType, IsTables, LogInv
<1>6. ASSUME db'.events = db.events \/ (FlushAccepted /\ db' = Together(db, pending))
      PROVE  \A r \in db'.events : Accepted(r)
  <2>1. \A r \in db.events : Accepted(r)
    BY DEF IInv, TypeOK
  <2>2. CASE FlushAccepted /\ db' = Together(db, pending)
    <3>1. db'.events = db.events \cup pending.events
      BY <2>2, TogetherIs DEF IInv, RowsType
    <3> QED
      BY <2>1, <2>2, <3>1 DEF FlushAccepted
  <2> QED
    BY <1>6, <2>1, <2>2
<1>7. \A r \in db'.events : Accepted(r)
  <2>1. CASE LoadGenesis
    <3>1. \A r \in db'.events : r \in db.events \/ r.event[1] = 0
      BY <2>1, GenesisStepIs
    <3> QED
      BY <3>1 DEF IInv, TypeOK, Accepted
  <2>2. CASE ~LoadGenesis
    BY <1>6, <2>2 DEF Next, vars, StartProcess, GenesisExists, StartBlock, ProcessEvent, NextTx,
                      EndEvents, Commit, FlushRejected, Kill
  <2> QED
    BY <2>1, <2>2
<1>8. pc' \in {"down", "genesis", "select", "event", "flush"}
        /\ inserter' \in {"batch", "immediate"}
  <2>1. pc \in {"down", "genesis", "select", "event", "flush"}
          /\ inserter \in {"batch", "immediate"}
    BY DEF IInv, TypeOK
  <2> QED
    BY <2>1 DEF Next, vars, StartProcess, LoadGenesis, GenesisExists, StartBlock, ProcessEvent,
                NextTx, EndEvents, Commit, FlushRejected, Kill, LoseMemory, ChosenInserter
<1>9. EventId' \in [Location : {"finalized", "txs"}, TxIndex : Nat, EventIndex : Nat \ {0}]
  <2>1. EventId \in [Location : {"finalized", "txs"}, TxIndex : Nat, EventIndex : Nat \ {0}]
    BY DEF IInv, TypeOK
  <2>2. FirstId \in [Location : {"finalized", "txs"}, TxIndex : Nat, EventIndex : Nat \ {0}]
    BY DEF FirstId
  <2>3. NextTxId \in [Location : {"finalized", "txs"}, TxIndex : Nat, EventIndex : Nat \ {0}]
    BY <2>1 DEF NextTxId
  <2>4. [EventId EXCEPT !.EventIndex = @ + 1]
          \in [Location : {"finalized", "txs"}, TxIndex : Nat, EventIndex : Nat \ {0}]
    BY <2>1
  <2>5. EventId' \in {EventId, FirstId, NextTxId, [EventId EXCEPT !.EventIndex = @ + 1]}
    BY DEF Next, vars, idVars, StartProcess, LoadGenesis, GenesisExists, StartBlock,
       ProcessEvent,
           NextTx, EndEvents, Commit, FlushRejected, Kill, LoseMemory
  <2> QED
    BY <2>1, <2>2, <2>3, <2>4, <2>5
<1>10. missed' \in BOOLEAN /\ marked' \in BOOLEAN /\ genesis' \in BOOLEAN
  <2>1. missed \in BOOLEAN /\ marked \in BOOLEAN /\ genesis \in BOOLEAN
    BY DEF IInv, TypeOK
  <2>2. TRUE \in BOOLEAN /\ FALSE \in BOOLEAN
    OBVIOUS
  <2>3. missed' \in {missed, FALSE, TRUE}
    BY DEF Next, vars, depthVars, StartProcess, LoadGenesis, GenesisExists, StartBlock,
           ProcessEvent, NextTx, EndEvents, Commit, FlushRejected, Kill, LoseMemory
  <2>4. marked' \in {marked, TRUE} /\ genesis' \in {genesis, TRUE}
    BY DEF Next, vars, constantRows, StartProcess, LoadGenesis, GenesisExists, StartBlock,
           ProcessEvent, NextTx, EndEvents, Commit, FlushRejected, Kill, LoseMemory
  <2> QED
    BY ONLY <2>1, <2>2, <2>3, <2>4
<1>11. faults' \in 0..MaxFaults
  <2>1. faults \in 0..MaxFaults /\ MaxFaults \in Nat
    BY RecorderAssumption DEF IInv, TypeOK
  <2>2. faults' = faults \/ Fault
    BY DEF Next, vars, StartProcess, LoadGenesis, GenesisExists, StartBlock, ProcessEvent,
           NextTx, EndEvents, Commit, FlushRejected, Kill
  <2> QED
    BY <2>1, <2>2 DEF Fault
<1>12. height' \in 0..Len(chain)
  <2>1. height' \in {height, 0} \/ StartProcess \/ StartBlock
    BY DEF Next, vars, LoadGenesis, GenesisExists, ProcessEvent, NextTx, EndEvents, Commit,
           FlushRejected, Kill, LoseMemory
  <2>2. StartProcess => height' = Top
    BY DEF StartProcess, Top
  <2>3. StartBlock => height' = height + 1 /\ height < Len(chain)
    BY DEF StartBlock
  <2> QED
    BY <1>3, <2>1, <2>2, <2>3
<1>13. pc' = "event" => tx' \in 0..Len(chain[height'].TxsResults)
                        /\ event' \in 0..Len(EventsOf(chain[height'], tx'))
  <2>1. CASE StartBlock
    <3>1. tx' = 0 /\ event' = 0 /\ height' \in 1..Len(chain)
      BY <1>3, <2>1 DEF StartBlock
    <3>2. Len(chain[height'].TxsResults) \in Nat
      <4>1. chain[height'] \in Blocks
        BY <1>3, <3>1, ChainIs
      <4> QED
        BY <4>1 DEF Blocks
    <3>3. 0 \in 0..Len(chain[height'].TxsResults)
      BY <3>2
    <3>4. Len(EventsOf(chain[height'], 0)) \in Nat
      BY <1>3, <3>1, <3>3, EventsOfIs
    <3> QED
      BY <3>1, <3>3, <3>4
  <2>2. CASE ProcessEvent
    <3>1. pc = "event" /\ event < Len(EventsOfLoop) /\ event' = event + 1
          /\ UNCHANGED <<height, tx>>
      BY <2>2 DEF ProcessEvent
    <3>2. /\ tx \in 0..Len(chain[height].TxsResults)
          /\ event \in 0..Len(EventsOfLoop) /\ Len(EventsOfLoop) \in Nat
      BY <3>1, EventInHand
    <3>3. event + 1 \in 0..Len(EventsOfLoop)
      BY <3>1, <3>2
    <3> QED
      BY <3>1, <3>2, <3>3 DEF EventsOfLoop
  <2>3. CASE NextTx
    <3>1. pc = "event" /\ tx < Len(chain[height].TxsResults) /\ tx' = tx + 1 /\ event' = 0
          /\ height' = height
      BY <2>3 DEF NextTx
    <3>2. /\ height \in 1..Len(chain) /\ tx \in 0..Len(chain[height].TxsResults)
          /\ Len(chain[height].TxsResults) \in Nat
      BY <3>1, EventInHand
    <3>3. tx + 1 \in 0..Len(chain[height].TxsResults)
      BY <3>1, <3>2
    <3>4. Len(EventsOf(chain[height], tx + 1)) \in Nat
      BY <1>3, <3>2, <3>3, EventsOfIs
    <3> QED
      BY <3>1, <3>3, <3>4
  <2>4. CASE UNCHANGED vars
    BY <2>4 DEF vars, idVars, IInv, TypeOK, EventsOfLoop
  <2>5. CASE Next /\ ~StartBlock /\ ~ProcessEvent /\ ~NextTx
    <3>1. pc' # "event"
      BY <2>5 DEF Next, StartProcess, LoadGenesis, GenesisExists, EndEvents, Commit,
                  FlushRejected, Kill, LoseMemory
    <3> QED
      BY <3>1
  <2> QED
    BY <2>1, <2>2, <2>3, <2>4, <2>5
<1>14. pc' = "down" => pending' = NoRows
  BY <1>1 DEF PositionInv
<1> QED
  BY <1>2, <1>3, <1>4, <1>5, <1>7, <1>8, <1>9, <1>10, <1>11, <1>12, <1>13, <1>14
  DEF TypeOK, EventsOfLoop

(* The inductive invariant holds, whatever the chain is and whatever is     *)
(* refused, lost or replayed.                                               *)
THEOREM Invariance ==
  Spec => []IInv
<1>1. Init => IInv
  BY Initially
<1>2. IInv /\ [Next]_vars => IInv'
  BY TypeStep, RowsTypeStep, PositionStep, EventsStep, LogStep, DepthsStep, RewardsStep DEF IInv
<1> QED
  BY <1>1, <1>2, PTL DEF Spec

(* Every variable has its type, nothing is pending while the process is     *)
(* down, and only whole batches of accepted rows are in the database.       *)
THEOREM TypeCorrect ==
  Spec => []TypeOK
<1>1. IInv => TypeOK
  BY DEF IInv
<1> QED
  BY <1>1, Invariance, PTL

(* The totals in memory, and those of every saved block, are the sums of    *)
(* the rewards events whose rows have all been taken: no refused row, lost  *)
(* batch, restart or replay makes the depths drift from the tables.         *)
THEOREM DepthsAlwaysRewards ==
  Spec => []DepthsAreRewards
<1>1. IInv => DepthsAreRewards
  BY DEF IInv
<1> QED
  BY <1>1, Invariance, PTL

(* Once a run of the process has recorded a block with all depth rows in,   *)
(* the newest row of every pool is its depth, though only changes are       *)
(* stored and a restart forgets what they are compared with.                *)
THEOREM DepthRowsAlwaysCurrent ==
  Spec => []DepthRowsCurrent
<1>1. IInv => DepthRowsCurrent
  BY DEF IInv, DepthsInv, DepthRowsCurrent
<1> QED
  BY <1>1, Invariance, PTL

-----------------------------------------------------------------------------
(* The ids of the events. *)

(* One more unit of a radix outweighs all that fits below it. *)
LEMMA OneMoreUnit ==
  ASSUME NEW a \in Nat, NEW b \in Nat, a < b, NEW k \in Nat
  PROVE  a * k + k <= b * k
<1>1. PICK d \in Nat : b = (a + 1) + d
  <2>1. b - (a + 1) \in Nat /\ b = (a + 1) + (b - (a + 1))
    OBVIOUS
  <2> QED
    BY <2>1
<1>2. b * k = (a * k + k) + d * k
  BY <1>1
<1>3. d * k \in Nat /\ a * k \in Nat
  OBVIOUS
<1> QED
  BY <1>2, <1>3

(* The id within a block. *)
Offset(e) == e[3] + (IF e[2] = 0 THEN 0 ELSE typeDigit + e[2] * txIndexScale)

LEMMA OffsetFits ==
  ASSUME TypeOK, NEW e \in Places, InChain(e)
  PROVE  /\ Offset(e) \in Nat /\ Offset(e) < blockHeightScale
         /\ IdOf(e) = e[1] * blockHeightScale + Offset(e)
<1>1. e[1] \in Nat /\ e[2] \in Nat /\ e[3] \in Nat
  BY DEF Places
<1>2. /\ blockHeightScale \in Nat /\ typeDigit \in Nat /\ txIndexScale \in Nat
      /\ blockHeightScale # 0 /\ typeDigit # 0 /\ txIndexScale # 0
  BY RecorderAssumption
<1>3. PICK m : m = e[2] * txIndexScale
  OBVIOUS
<1>4. m \in Nat
  BY <1>1, <1>2, <1>3
<1>5. Offset(e) = e[3] + (IF e[2] = 0 THEN 0 ELSE typeDigit + m)
  BY <1>3 DEF Offset
<1>6. Offset(e) \in Nat
  BY <1>1, <1>2, <1>4, <1>5
<1>7. IdOf(e) = e[1] * blockHeightScale + Offset(e)
  <2>1. PICK n : n = e[1] * blockHeightScale
    OBVIOUS
  <2>2. n \in Nat
    BY <1>1, <1>2, <2>1
  <2>3. IdOf(e) = n + e[3] + (IF e[2] = 0 THEN 0 ELSE typeDigit + m)
    BY <1>3, <2>1 DEF IdOf
  <2> QED
    BY <1>1, <1>2, <1>4, <1>5, <2>1, <2>2, <2>3
<1>8. CASE e[1] = 0
  <2>1. e[2] = 0 /\ e[3] <= Balances /\ Balances \in Nat
    <3>1. chain \in Seq(Blocks)
      BY ChainIs DEF TypeOK
    <3> QED
      BY <1>8, <3>1, RecorderAssumption DEF InChain
  <2> QED
    BY <1>1, <1>2, <1>5, <1>6, <1>7, <2>1, IdsFit
<1>9. CASE e[1] # 0
  <2>1. /\ chain \in Chains /\ e[1] \in 1..Len(chain)
        /\ e[2] \in 0..Len(chain[e[1]].TxsResults)
        /\ e[3] \in 1..Len(EventsOf(chain[e[1]], e[2]))
    BY <1>9 DEF InChain, TypeOK
  <2>2. e[1] \in DOMAIN chain /\ chain[e[1]] \in Blocks
    BY <2>1, ChainIs
  <2>3. PICK block : block = chain[e[1]]
    OBVIOUS
  <2>4. /\ Len(block.FinalizeBlockEvents) <= typeDigit
        /\ \A t \in DOMAIN block.TxsResults : Len(block.TxsResults[t]) <= txIndexScale
        /\ typeDigit + (Len(block.TxsResults) + 1) * txIndexScale < blockHeightScale
    BY <2>1, <2>2, <2>3, IdsFit
  <2>5. /\ Len(block.FinalizeBlockEvents) \in Nat /\ Len(block.TxsResults) \in Nat
        /\ DOMAIN block.TxsResults = 1..Len(block.TxsResults)
        /\ \A t \in DOMAIN block.TxsResults : Len(block.TxsResults[t]) \in Nat
    BY <2>2, <2>3 DEF Blocks
  <2>6. PICK k : k = (Len(block.TxsResults) + 1) * txIndexScale
    OBVIOUS
  <2>7. k \in Nat /\ txIndexScale <= k /\ m + txIndexScale <= k
          /\ typeDigit + k < blockHeightScale
    <3>1. e[2] < Len(block.TxsResults) + 1 /\ Len(block.TxsResults) + 1 \in Nat
      BY <1>1, <2>1, <2>3, <2>5
    <3>2. m + txIndexScale <= k
      BY <1>1, <1>2, <1>3, <2>6, <3>1, OneMoreUnit
    <3>3. k \in Nat
      BY <1>2, <2>6, <3>1
    <3> QED
      BY <1>2, <1>4, <2>4, <2>6, <3>2, <3>3
  <2>8. CASE e[2] = 0
    <3>1. e[3] <= typeDigit
      BY <1>1, <1>2, <2>1, <2>3, <2>4, <2>5, <2>8 DEF EventsOf
    <3>2. Offset(e) = e[3]
      BY <1>1, <1>5, <2>8
    <3>3. Offset(e) < blockHeightScale
      BY <1>1, <1>2, <2>7, <3>1, <3>2
    <3> QED
      BY <1>6, <1>7, <3>3
  <2>9. CASE e[2] # 0
    <3>1. e[3] <= txIndexScale
      <4>1. e[2] \in DOMAIN block.TxsResults /\ e[3] \in 1..Len(block.TxsResults[e[2]])
        BY <1>1, <2>1, <2>3, <2>5, <2>9 DEF EventsOf
      <4>2. Len(block.TxsResults[e[2]]) <= txIndexScale /\ Len(block.TxsResults[e[2]]) \in Nat
        BY <2>4, <2>5, <4>1
      <4> QED
        BY <1>1, <1>2, <4>1, <4>2
    <3> QED
      BY <1>1, <1>2, <1>4, <1>5, <1>6, <1>7, <2>7, <2>9, <3>1
  <2> QED
    BY <2>8, <2>9
<1> QED
  BY <1>8, <1>9

(* Within a block the ids rise, too. *)
LEMMA OffsetsRise ==
  ASSUME TypeOK, NEW e \in Places, InChain(e), NEW f \in Places, InChain(f),
         e[1] = f[1], e[2] < f[2] \/ (e[2] = f[2] /\ e[3] < f[3])
  PROVE  Offset(e) < Offset(f)
<1>1. /\ e[1] \in Nat /\ e[2] \in Nat /\ e[3] \in Nat
      /\ f[1] \in Nat /\ f[2] \in Nat /\ f[3] \in Nat
  BY DEF Places
<1>2. /\ typeDigit \in Nat /\ txIndexScale \in Nat /\ txIndexScale # 0
  BY RecorderAssumption
<1>3. PICK m, n : m = e[2] * txIndexScale /\ n = f[2] * txIndexScale
  OBVIOUS
<1>4. m \in Nat /\ n \in Nat
  BY <1>1, <1>2, <1>3
<1>5. /\ Offset(e) = e[3] + (IF e[2] = 0 THEN 0 ELSE typeDigit + m)
      /\ Offset(f) = f[3] + (IF f[2] = 0 THEN 0 ELSE typeDigit + n)
  BY <1>3 DEF Offset
<1>6. CASE e[2] = f[2] /\ e[3] < f[3]
  BY <1>1, <1>2, <1>3, <1>4, <1>5, <1>6
<1>7. CASE e[2] < f[2]
  <2>1. chain \in Chains /\ f[1] # 0
    BY <1>1, <1>7, ChainIs DEF InChain, TypeOK
  <2>2. /\ e[1] \in 1..Len(chain) /\ e[2] \in 0..Len(chain[e[1]].TxsResults)
        /\ e[3] \in 1..Len(EventsOf(chain[e[1]], e[2]))
        /\ f[3] \in 1..Len(EventsOf(chain[f[1]], f[2]))
    BY <2>1 DEF InChain
  <2>3. PICK block : block = chain[e[1]]
    OBVIOUS
  <2>4. /\ e[1] \in DOMAIN chain /\ block \in Blocks
    BY <2>1, <2>2, <2>3, ChainIs
  <2>5. /\ Len(block.FinalizeBlockEvents) <= typeDigit
        /\ \A t \in DOMAIN block.TxsResults : Len(block.TxsResults[t]) <= txIndexScale
    BY <2>1, <2>3, <2>4, IdsFit
  <2>6. /\ Len(block.FinalizeBlockEvents) \in Nat /\ Len(block.TxsResults) \in Nat
        /\ DOMAIN block.TxsResults = 1..Len(block.TxsResults)
        /\ \A t \in DOMAIN block.TxsResults : Len(block.TxsResults[t]) \in Nat
    BY <2>4 DEF Blocks
  <2>7. f[3] > 0
    BY <1>1, <2>2
  <2>8. m + txIndexScale <= n
    BY <1>1, <1>2, <1>3, <1>7, OneMoreUnit
  <2>9. CASE e[2] = 0
    <3>1. e[3] <= typeDigit
      BY <1>1, <1>2, <2>2, <2>3, <2>5, <2>6, <2>9 DEF EventsOf
    <3>2. Offset(e) = e[3] /\ f[2] # 0
      BY <1>1, <1>5, <1>7, <2>9
    <3>3. Offset(f) = f[3] + (typeDigit + n)
      BY <1>5, <3>2
    <3> QED
      BY <1>1, <1>2, <1>4, <2>7, <3>1, <3>2, <3>3
  <2>10. CASE e[2] # 0
    <3>1. e[3] <= txIndexScale
      <4>1. e[2] \in DOMAIN block.TxsResults /\ e[3] \in 1..Len(block.TxsResults[e[2]])
        BY <1>1, <2>2, <2>3, <2>6, <2>10 DEF EventsOf
      <4>2. Len(block.TxsResults[e[2]]) <= txIndexScale /\ Len(block.TxsResults[e[2]]) \in Nat
        BY <2>5, <2>6, <4>1
      <4> QED
        BY <1>1, <1>2, <4>1, <4>2
    <3> QED
      BY <1>1, <1>2, <1>4, <1>5, <1>7, <2>7, <2>8, <2>10, <3>1
  <2> QED
    BY <2>9, <2>10
<1> QED
  BY <1>6, <1>7

(* The place of an event and its id determine each other. *)
LEMMA IdsInOrder ==
  ASSUME TypeOK, NEW e \in Places, InChain(e), NEW f \in Places, InChain(f), Before(e, f)
  PROVE  IdOf(e) < IdOf(f)
<1>1. e[1] \in Nat /\ f[1] \in Nat /\ blockHeightScale \in Nat
  BY RecorderAssumption DEF Places
<1>2. /\ Offset(e) \in Nat /\ Offset(e) < blockHeightScale
      /\ IdOf(e) = e[1] * blockHeightScale + Offset(e)
      /\ Offset(f) \in Nat /\ Offset(f) < blockHeightScale
      /\ IdOf(f) = f[1] * blockHeightScale + Offset(f)
  BY OffsetFits
<1>3. PICK a, b : a = e[1] * blockHeightScale /\ b = f[1] * blockHeightScale
  OBVIOUS
<1>4. a \in Nat /\ b \in Nat
  BY <1>1, <1>3
<1>5. CASE e[1] < f[1]
  <2>1. a + blockHeightScale <= b
    BY <1>1, <1>3, <1>5, OneMoreUnit
  <2> QED
    BY <1>1, <1>2, <1>3, <1>4, <2>1
<1>6. CASE e[1] = f[1]
  <2>1. e[2] < f[2] \/ (e[2] = f[2] /\ e[3] < f[3])
    BY <1>1, <1>6 DEF Before
  <2>2. Offset(e) < Offset(f)
    BY <1>6, <2>1, OffsetsRise
  <2> QED
    BY <1>2, <1>3, <1>4, <1>6, <2>2
<1> QED
  BY <1>5, <1>6 DEF Before

(* Every event has its id, ids rise with the order of the events in the     *)
(* chain, and give the height back: through skipped and refused events,     *)
(* restarts and replays, for all blocks the radices have room for.          *)
THEOREM EventIdsAlwaysInOrder ==
  Spec => []EventIdsInOrder
<1>1. IInv => EventIdsInOrder
  <2> SUFFICES ASSUME IInv, NEW r \in Written.events, NEW s \in Written.events
               PROVE  /\ r.event = s.event <=> r.id = s.id
                      /\ Before(r.event, s.event) => r.id < s.id
                      /\ HeightFromEventId(r.id) = r.event[1]
    BY DEF EventIdsInOrder
  <2>1. TypeOK /\ Written.events \subseteq EventRows
    BY WrittenIs DEF IInv, IsTables
  <2>2. PICK e, f : e = r.event /\ f = s.event
    OBVIOUS
  <2>3. e \in Places /\ f \in Places /\ r.id \in Int /\ s.id \in Int
    BY <2>1, <2>2 DEF EventRows
  <2>4. InChain(e) /\ InChain(f) /\ r.id = IdOf(e) /\ s.id = IdOf(f)
    BY <2>2 DEF IInv, EventsInv
  <2>5. Before(e, f) => IdOf(e) < IdOf(f)
    BY <2>1, <2>3, <2>4, IdsInOrder
  <2>6. Before(f, e) => IdOf(f) < IdOf(e)
    BY <2>1, <2>3, <2>4, IdsInOrder
  <2>7. e = f \/ Before(e, f) \/ Before(f, e)
    <3>1. /\ e[1] \in Nat /\ e[2] \in Nat /\ e[3] \in Nat
          /\ f[1] \in Nat /\ f[2] \in Nat /\ f[3] \in Nat
          /\ e = <<e[1], e[2], e[3]>> /\ f = <<f[1], f[2], f[3]>>
      BY <2>3 DEF Places
    <3>2. e[1] = f[1] /\ e[2] = f[2] /\ e[3] = f[3] => e = f
      BY <3>1
    <3> QED
      BY <3>1, <3>2 DEF Before
  <2>8. e = f <=> r.id = s.id
    BY <2>3, <2>4, <2>5, <2>6, <2>7
  <2>9. HeightFromEventId(r.id) = e[1]
    <3>1. /\ Offset(e) \in Nat /\ Offset(e) < blockHeightScale
          /\ IdOf(e) = e[1] * blockHeightScale + Offset(e)
      BY <2>1, <2>3, <2>4, OffsetFits
    <3>2. e[1] \in Nat /\ blockHeightScale \in Nat /\ blockHeightScale # 0
      BY <2>3, RecorderAssumption DEF Places
    <3>3. PICK h, o, k : h = e[1] /\ o = Offset(e) /\ k = blockHeightScale
      OBVIOUS
    <3>4. (h * k + o) \div k = h
      BY <3>1, <3>2, <3>3
    <3> QED
      BY <2>4, <3>1, <3>3, <3>4 DEF HeightFromEventId
  <2> QED
    BY <2>2, <2>4, <2>5, <2>8, <2>9
<1> QED
  BY <1>1, Invariance, PTL
=============================================================================
