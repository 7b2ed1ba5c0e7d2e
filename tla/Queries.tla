-------------------------------- MODULE Queries --------------------------------
(***************************************************************************)
(* What the API reads while the recorder writes: the list of blocks, page   *)
(* by page, and one block whole; the earnings of a period; the history of   *)
(* the depths in buckets of time, which takes two queries with commits      *)
(* between them.  The tables are those of the module Recorder, which goes   *)
(* on underneath.                                                          *)
(*                                                                         *)
(* Abstractions.  Time is counted in one unit instead of seconds and        *)
(* nanoseconds; aggregated views show all rows committed (the module        *)
(* Aggregates has their refresh); prices and asset depths are left out.     *)
(* Readers do not disturb each other, so there is one at a time.            *)
(***************************************************************************)
EXTENDS Recorder

CONSTANTS
  Times,             \* height -> timestamp of the block
  Intervals,         \* name -> interval, see Trunc
  aggregatedIntervalPeriod,  \* the length of a day
  Periods,           \* the lengths parsePeriodParam knows
  maxIntervalCount,
  maxBlocksLimit,
  Limits,            \* the limits a client may ask for
  HistoryRequests    \* requests for a history, see BucketsFromQuery

(* An interval of the table.  Its calendar repeats after a cycle, in which   *)
(* the buckets start at the offsets, none shorter than minDuration or longer *)
(* than maxDuration.  An exact one has buckets of one length from the epoch  *)
(* on; those of the others begin with a day.                                 *)
IsInterval(i) ==
  /\ {i.minDuration, i.maxDuration, i.cycle} \subseteq Nat \ {0} /\ i.origin \in Int
  /\ i.offsets \subseteq 0..i.cycle - 1 /\ 0 \in i.offsets
  /\ \A o \in i.offsets : \E next \in i.offsets \cup {i.cycle} :
       /\ i.minDuration <= next - o /\ next - o <= i.maxDuration
       /\ \A x \in i.offsets : x <= o \/ next <= x
  /\ i.exact \in BOOLEAN
  /\ IF i.exact THEN i.origin = 0 /\ i.offsets = {0} /\ i.cycle = i.minDuration
     ELSE \A t \in i.offsets \cup {i.cycle, i.origin} : t % aggregatedIntervalPeriod = 0

(* An optional parameter is a set with at most one member. *)
IsOption(option, S) == option \subseteq S /\ \A v, w \in option : v = w

IsRequest(q) ==
  /\ IsOption(q.interval, DOMAIN Intervals)
  /\ IsOption(q.from, Int) /\ IsOption(q.to, Int) /\ IsOption(q.count, Int)
  /\ q.named \in BOOLEAN

ASSUME QueriesAssumption ==
  /\ Times \in Seq(Nat \ {0})
  /\ \A h, k \in DOMAIN Times : h < k => Times[h] < Times[k]
  /\ \A c \in Chains : Len(c) <= Len(Times)
  /\ {aggregatedIntervalPeriod, maxIntervalCount, maxBlocksLimit} \subseteq Nat \ {0}
  /\ Periods \cup Limits \subseteq Nat \ {0}
  /\ \A name \in DOMAIN Intervals : IsInterval(Intervals[name])
  /\ \A q \in HistoryRequests : IsRequest(q)

VARIABLE reader      \* the request being answered

queryVars == <<vars, reader>>

Idle == [kind |-> "idle"]

-----------------------------------------------------------------------------
(* The clock of the API: FirstBlock and NowSecond. *)
FirstSecond == Times[1]
NowSecond == Times[LastRow(db.log).height] + 1

Answering == pc \notin {"down", "genesis"} /\ db.log # {}

-----------------------------------------------------------------------------
(* The list of blocks.  A client asks for page after page until one is empty, *)
(* moving the offset on by the limit of the answer; it outlives the process.  *)
PageLimit(asked) == Min({asked, maxBlocksLimit})

(* Mutant: the answer repeats the limit that was asked for. *)
AnsweredLimitAsAsked(asked) == asked
AnsweredLimit(asked) == PageLimit(asked)

Heights == {r.height : r \in db.log}

(* block_log JOIN blocks *)
StoredBlocks == {b \in db.blocks : b.height \in Heights}

Summary(b) ==
  [height |-> b.height, tx_count |-> Len(b.txs),
   finalized_events_count |-> Len(b.finalized_events)]

(* GetBlocksList: newest first. *)
BlocksList(limit, offset) ==
  {Summary(b) : b \in {c \in StoredBlocks :
     Cardinality({d \in StoredBlocks : d.height > c.height}) \in offset..offset + limit - 1}}

(* GetBlockByHeight and, a block having one hash, GetBlockByHash: the block, *)
(* or nothing.                                                               *)
BlockDetail(h) == {b \in StoredBlocks : b.height = h}

(* A client asks for one block, perhaps before it is there. *)
AskBlock ==
  /\ Answering /\ reader = Idle
  /\ \E h \in DOMAIN chain :
       reader' = [kind |-> "block", height |-> h, there |-> h \in Heights,
                  answer |-> BlockDetail(h)]
  /\ UNCHANGED vars

OpenBlocks ==
  /\ Answering /\ reader = Idle
  /\ \E asked \in Limits :
       reader' = [kind |-> "blocks", asked |-> asked, offset |-> 0, there |-> Heights,
                  seen |-> {}, more |-> TRUE]
  /\ UNCHANGED vars

NextPage ==
  /\ Answering /\ reader.kind = "blocks" /\ reader.more
  /\ LET page == BlocksList(PageLimit(reader.asked), reader.offset)
     IN  reader' = [reader EXCEPT !.seen = @ \cup page, !.more = page # {},
                                  !.offset = @ + AnsweredLimit(reader.asked)]
  /\ UNCHANGED vars

-----------------------------------------------------------------------------
(* Aggregates over an interval [low, high). *)
Day == aggregatedIntervalPeriod
TimeBucketCeil(time) == ((time + Day - 1) \div Day) * Day
TimeBucketFloor(time) == (time \div Day) * Day

TimeOf(row) == Times[row.height]

(* Mutant: the last day, of which only a part may be meant, is taken as well. *)
DayIncluded(day, ceil, floor, low) == day <= floor /\ (low > 0 => ceil <= day)
WholeDay(day, ceil, floor, low) == day < floor /\ (low > 0 => ceil <= day)

(* UnionQuery: rows of the table before the first whole day and after the    *)
(* last one, and the view by days between them.  No lower bound if low <= 0. *)
UnionParts(rows, low, high) ==
  LET ceil == TimeBucketCeil(low)
      floor == TimeBucketFloor(high)
      before == {r \in rows : low > 0 /\ low # ceil /\ low <= TimeOf(r) /\ TimeOf(r) < ceil}
      after == {r \in rows : high # floor /\ floor <= TimeOf(r) /\ TimeOf(r) < high}
      days == {r \in rows : WholeDay(TimeBucketFloor(TimeOf(r)), ceil, floor, low)}
  IN  <<before, after, days>>

Interval(rows, low, high) == {r \in rows : low <= TimeOf(r) /\ TimeOf(r) < high}

(* The table rewards_event_entries. *)
RewardEntries ==
  {[height |-> r.event[1],
    event |-> r.event,
    part |-> r.part,
    amount |-> EventAt(r.event).attrs[r.part]] :
     r \in {s \in db.events : s.event[1] > 0 /\ s.part > 0}}

TotalOf(p, rows) ==
  SumFunctionOnSet([r \in rows |-> r.amount.e8], {r \in rows : r.amount.key = p})

(* GetPoolsEarnings: UNION ALL, so a row in two parts counts twice. *)
PoolEarnings(p, low, high) ==
  LET parts == UnionParts(RewardEntries, low, high)
  IN  TotalOf(p, parts[1]) + TotalOf(p, parts[2]) + TotalOf(p, parts[3])

(* parsePeriodParam *)
PeriodStarts == {NowSecond - length : length \in Periods} \cup {FirstSecond}

-----------------------------------------------------------------------------
(* Buckets.  date_trunc: the start of the bucket a time is in. *)
Trunc(i, t) ==
  LET since == t - i.origin
  IN  i.origin + (since \div i.cycle) * i.cycle + Max({o \in i.offsets : o <= since % i.cycle})

(* What generateTimestamps gets from the database, the window being widened. *)
Gapfill(i, from, until) ==
  LET slack == i.maxDuration + i.minDuration
      first == (from - slack) \div i.minDuration
      last == (until + slack - 1) \div i.minDuration
  IN  {Trunc(i, k * i.minDuration) : k \in first..last}

(* The members of a set of numbers, the least first. *)
Ascending(S) ==
  [k \in 1..Cardinality(S) |-> CHOOSE x \in S : Cardinality({y \in S : y < x}) = k - 1]

(* Mutant: the bucket the window begins in is left out. *)
StartsFromWindow(i, from, until) ==
  LET ts == Gapfill(i, from, until)
  IN  Ascending({t \in ts : from <= t /\ t <= Min({u \in ts : until <= u})})

(* The timestamps of the window, one of them not below its end. *)
Timestamps(i, from, until) ==
  LET ts == Gapfill(i, from, until)
      first == Max({t \in ts : t <= from})
      last == Min({t \in ts : until <= t})
  IN  Ascending({t \in ts : first <= t /\ t <= last})

(* They are << >> if the request is refused, and if none of the starts lies  *)
(* after `from`: the loop over firstIdx then leaves the slice and the handler *)
(* panics.  That takes a window that ends before it begins; the bounds of ret *)
(* are inverted for others of this kind, unless one bucket has both ends.    *)
GenerateTimestamps(i, from, until) ==
  IF \/ {t \in Gapfill(i, from, until) : from < t} = {}
     \/ i.maxDuration * 2 * maxIntervalCount < until - from
     \/ Len(Timestamps(i, from, until)) < 2
  THEN << >> ELSE Timestamps(i, from, until)

(* restrictBuckets: the loops over lastok, then over firstok. *)
RestrictBuckets(ts) ==
  LET lastok == Min({k \in 2..Len(ts) :
                       \A j \in k + 1..Len(ts) : NowSecond < ts[j - 1]})
      firstok == Max({k \in 1..lastok - 1 : \A j \in 2..k : ts[j] < FirstSecond})
  IN  SubSeq(ts, firstok, lastok)

Restricted(ts) == IF ts = << >> THEN << >> ELSE RestrictBuckets(ts)

FirstCount(ts, count) == SubSeq(ts, 1, Min({Len(ts), count + 1}))
LastCount(ts, count) == SubSeq(ts, Max({1, Len(ts) - count}), Len(ts))

Given(option) == option # {}
Value(option, default) == IF Given(option) THEN CHOOSE v \in option : TRUE ELSE default

GenerateBucketsOnlyMeta(from, to, count) ==
  IF Given(count) THEN << >> ELSE <<Value(from, FirstSecond), Value(to, NowSecond)>>

GenerateBucketsWithInterval(i, from, to, count) ==
  LET n == Value(count, 0)
      until == Value(to, NowSecond)
      start == Value(from, FirstSecond)
  IN  CASE ~Given(count) ->
             Restricted(FirstCount(GenerateTimestamps(i, start, until), maxIntervalCount))
        [] Given(count) /\ (n \notin 1..maxIntervalCount \/ (Given(from) /\ Given(to))) ->
             << >>
        [] Given(count) /\ n \in 1..maxIntervalCount /\ ~Given(from) ->
             LastCount(Restricted(GenerateTimestamps(i, until - n * i.maxDuration, until)), n)
        [] OTHER ->
             FirstCount(Restricted(GenerateTimestamps(i, start, start + n * i.maxDuration)), n)

(* BucketsFromQuery *)
Buckets(q) ==
  IF Given(q.interval)
  THEN GenerateBucketsWithInterval(Intervals[Value(q.interval, "")], q.from, q.to, q.count)
  ELSE GenerateBucketsOnlyMeta(q.from, q.to, q.count)

-----------------------------------------------------------------------------
(* The history of the depths, PoolDepthHistory and TVLDepthHistory: `pools`  *)
(* says whether the pools are named or all of them are meant.                *)
None == <<0, 0>>
Depth(row) == <<row.qbtc, row.synth>>
NewestOf(rows) == CHOOSE r \in rows : \A s \in rows : TimeOf(s) <= TimeOf(r)

(* The last value of each pool in the parts of a union: that of the part with *)
(* the largest MIN of its timestamps, the view having those of its days.      *)
LastByPool(parts) ==
  LET of(p, k) == {r \in parts[k] : r.pool = p}
      start(p, k) ==
        Min({IF k = 3 THEN TimeBucketFloor(TimeOf(r)) ELSE TimeOf(r) : r \in of(p, k)})
      last(p) == CHOOSE k \in 1..3 :
                   of(p, k) # {} /\ \A j \in 1..3 : of(p, j) # {} => start(p, j) <= start(p, k)
      known == {p \in Pools : \E k \in 1..3 : of(p, k) # {}}
  IN  [p \in known |-> Depth(NewestOf(of(p, last(p))))]

DepthsBefore(time) == LastByPool(UnionParts(db.depths, 0, time))

DepthAt(map, p) == IF p \in DOMAIN map THEN map[p] ELSE None

(* A named pool without rows in the period has its depth from before it: a   *)
(* further query, taken in one step with the first.                          *)
DepthsPeriod(low, high, named) ==
  LET found == LastByPool(UnionParts(db.depths, low, high))
      before == DepthsBefore(low)
  IN  IF named THEN [p \in DOMAIN found \cup DOMAIN before |->
                      IF p \in DOMAIN found THEN found[p] ELSE before[p]]
      ELSE found

AskHistory ==
  /\ Answering /\ reader = Idle
  /\ \E q \in HistoryRequests :
       /\ Buckets(q) # << >>
       /\ reader' = [kind |-> "depths", request |-> q, timestamps |-> Buckets(q),
                     now |-> NowSecond, has |-> FALSE, before |-> << >>]
  /\ UNCHANGED vars

(* The first query of getDepthsHistory. *)
ReadBefore ==
  /\ reader.kind = "depths" /\ ~reader.has
  /\ reader' = [reader EXCEPT !.has = TRUE, !.before = DepthsBefore(reader.timestamps[1])]
  /\ UNCHANGED vars

(* The aggregated views: exact intervals from the table, the others by days. *)
ViewTimestamp(i, t) ==
  IF i.exact THEN (t \div i.minDuration) * i.minDuration ELSE Trunc(i, TimeBucketFloor(t))

(* queryBucketedGeneral: a row of the view counts from the bucket that starts *)
(* at its timestamp on.                                                       *)
Filled(k, p) ==
  LET ts == reader.timestamps
      i == Intervals[Value(reader.request.interval, "")]
      rows == {r \in db.depths : /\ r.pool = p
                                  /\ \E j \in 1..k : ViewTimestamp(i, TimeOf(r)) = ts[j]}
  IN  IF rows = {} THEN DepthAt(reader.before, p) ELSE Depth(NewestOf(rows))

(* What the handler answers for bucket k, should its second query run now. *)
Answer(k, p) ==
  IF Given(reader.request.interval) THEN Filled(k, p)
  ELSE DepthAt(DepthsPeriod(reader.timestamps[1], reader.timestamps[2],
                            reader.request.named), p)

Respond ==
  /\ \/ reader.kind = "depths" /\ reader.has
     \/ reader.kind = "blocks" /\ ~reader.more
     \/ reader.kind = "block"
  /\ reader' = Idle
  /\ UNCHANGED vars

(* The recorder goes on; a request dies with the process. *)
Record ==
  /\ Next
  /\ reader' = IF pc' = "down" /\ reader.kind = "depths" THEN Idle ELSE reader

QueriesInit == Init /\ reader = Idle

QueriesNext ==
  \/ Record
  \/ OpenBlocks \/ NextPage \/ AskBlock
  \/ AskHistory \/ ReadBefore
  \/ Respond

QueriesSpec == QueriesInit /\ [][QueriesNext]_queryVars

-----------------------------------------------------------------------------
(* What the chain has of a block, whether or not anything was recorded of it. *)
OnChain(h) ==
  [height |-> h, finalized_events |-> chain[h].FinalizeBlockEvents, txs |-> chain[h].TxsResults]

(* Blocks that are committed while a client pages through the list move it   *)
(* under the offsets.  They make the client see blocks twice, but it never   *)
(* steps over one that was there when it began, whatever limit it asked for  *)
(* and though the process may have been restarted between two pages.  What   *)
(* it sees of a block, in the list or alone, is the block of the chain, with *)
(* the events that were unknown, malformed or refused.                       *)
PagesLeaveNoGap ==
  /\ reader.kind = "blocks" =>
       /\ reader.seen \subseteq {Summary(OnChain(h)) : h \in DOMAIN chain}
       /\ \A h \in reader.there :
            ~reader.more \/ (\E s \in reader.seen : s.height < h)
              => \E s \in reader.seen : s.height = h
  /\ reader.kind = "block" =>
       reader.answer = IF reader.there THEN {OnChain(reader.height)} ELSE {}

(* Both ends within one day, the first of them not at its start. *)
WithinOneDay(low, high) ==
  low > 0 /\ low # TimeBucketFloor(low) /\ TimeBucketFloor(low) = TimeBucketFloor(high)

SumsTheInterval(low, high) ==
  \A p \in Pools : PoolEarnings(p, low, high) = TotalOf(p, Interval(RewardEntries, low, high))

(* The earnings of a period that reaches over midnight are the sum of the    *)
(* entries in it: pieced together from rows and days, none is counted twice  *)
(* and none left out, wherever the ends lie in their days.                   *)
PeriodsAreSums ==
  Answering => \A low \in PeriodStarts :
                 WithinOneDay(low, NowSecond) \/ SumsTheInterval(low, NowSecond)

(* UnionQuery says it is suitable for "non-bucket aligned time intervals",   *)
(* of any length: so are the earnings of the last hour.                      *)
AnyIntervalIsSummed ==
  Answering => \A low \in PeriodStarts : SumsTheInterval(low, NowSecond)

(* The newest depth of a pool before a moment. *)
DepthAsOf(p, time) ==
  LET rows == {r \in db.depths : r.pool = p /\ TimeOf(r) < time}
  IN  IF rows = {} THEN None ELSE Depth(NewestOf(rows))

(* Buckets are consecutive in the calendar, and unless a count cuts them off *)
(* every block of the window falls into one: a count that is asked for, or   *)
(* maxIntervalCount, which is applied before the buckets that lie before the *)
(* first block are left out.  (A window that ends before it begins has no    *)
(* block; its history is one bucket, or there is none.)                      *)
BucketsFit(q, ts) ==
  LET i == Intervals[Value(q.interval, "")]
      from == Value(q.from, FirstSecond)
      until == Value(q.to, reader.now)
      whole == Len(GenerateTimestamps(i, from, until)) - 1 <= maxIntervalCount
  IN  /\ \A k \in 1..Len(ts) : Trunc(i, ts[k]) = ts[k]
      /\ \A k \in 2..Len(ts) : Trunc(i, ts[k] - 1) = ts[k - 1]
      /\ Len(ts) - 1 <= Value(q.count, maxIntervalCount)
      /\ ~Given(q.count) /\ whole =>
           \A h \in DOMAIN Times :
             from <= Times[h] /\ Times[h] < until /\ Times[h] < reader.now =>
               ts[1] <= Times[h] /\ Times[h] < ts[Len(ts)]

(* A history is dense and right: each bucket has the newest depth of every   *)
(* pool before the end of the bucket, although the depths before the first   *)
(* bucket and those in the buckets are read apart, with commits between, and *)
(* only changes are stored.  (Not so for buckets that begin in the future,   *)
(* and for a single interval that ends before it begins, lies within one day *)
(* or is asked for of all pools.)                                            *)
HistoryDense ==
  reader.kind = "depths" /\ reader.has =>
    LET q == reader.request
        ts == reader.timestamps
        exempt == \/ ts[1] >= reader.now
                  \/ /\ ~Given(q.interval)
                     /\ ~q.named \/ ts[2] < ts[1] \/ WithinOneDay(ts[1], ts[2])
    IN  /\ Given(q.interval) => BucketsFit(q, ts)
        /\ exempt \/ \A k \in 1..Len(ts) - 1 : \A p \in Pools :
                       Answer(k, p) = DepthAsOf(p, ts[k + 1])
=============================================================================
