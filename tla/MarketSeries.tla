---------------------------- MODULE MarketSeries ----------------------------
(***************************************************************************)
(* A market while it is being watched: src/provider.rs asks for its bars   *)
(* (or src/historical.rs loads them from a file that grows), filters the   *)
(* ones that are closed, and everything downstream is computed again from  *)
(* that series: weeks, intraday aggregates, structural frames, the join of *)
(* a day with an earlier week, the alignment with another instrument.      *)
(*                                                                         *)
(* A day is two ticks, and the second one is its end: a close time that    *)
(* providers give as "midnight minus one" is the day's second tick, one    *)
(* that the file loader gives is the next midnight.  Prices and volumes    *)
(* are what the bars stand for: a bar is "whole" if it was read after its  *)
(* last trade, an aggregate is the sequence of bars it was made of, from   *)
(* which open, high, low, close and volume follow.                         *)
(***************************************************************************)
EXTENDS Common

CONSTANTS
  Feeds,            \* the sources: [kind, continuous]
  Days,             \* days watched
  WeekDays,         \* days of a week
  Sessions,         \* of which an exchange trades the first so many
  Holes,            \* sets of days that may be without a bar (holidays, outages)
  KlineLimit,       \* limit of a klines request
  History,          \* days asked of the standard aggregates
  SessionLimit,     \* limit of a futures request
  Contracts,        \* futures contracts: [ticker, expiry]
  MinimumMaturity,  \* GOLD_MIN_DAYS_TO_MATURITY
  PerFive, PerHour, PerFour,  \* minutes of an M5 bar, M5 of an H1, H1 of an H4
  ToleratedGap,     \* CadencePolicy of an exchange, in days
  TemporalGap       \* AlignmentConfig.max_temporal_gap_ns

Day == 2

Kinds == {"BINANCE", "STANDARD", "FUTURES", "CORPUS"}

ASSUME SeriesAssumption ==
  /\ Feeds \subseteq [kind : Kinds, continuous : BOOLEAN]
  /\ {Days, WeekDays, Sessions, KlineLimit, History, SessionLimit,
      PerFive, PerHour, PerFour} \subseteq Nat \ {0}
  /\ Sessions <= WeekDays
  /\ Contracts \subseteq [ticker : STRING, expiry : Nat]
  /\ {MinimumMaturity, ToleratedGap, TemporalGap} \subseteq Nat
  /\ Holes \subseteq SUBSET (0..(Days - 1))

(* An exchange is closed at the end of the week, and its cadence policy    *)
(* tolerates less than a week without a session.                           *)
ASSUME ExchangeAssumption ==
  /\ ToleratedGap <= WeekDays
  /\ \A source \in Feeds : source.kind = "FUTURES" => ~source.continuous /\ Sessions < WeekDays

(* The klines asked for hold a closed bar beside the forming one.          *)
ASSUME KlineAssumption == KlineLimit > 1

(* The provider knows a contract by its ticker.                            *)
ASSUME ContractAssumption ==
  \A one, other \in Contracts : one.ticker = other.ticker => one = other

VARIABLES
  feed,     \* the source of this instrument
  missing,  \* its days without a bar
  now,      \* the clock, in ticks
  call,     \* the provider request in flight
  series    \* the last series that was accepted

vars == <<feed, missing, now, call, series>>

Final(s) == s[Len(s)]

----------------------------------------------------------------------------
(* Time                                                                    *)

DayOf(t)  == t \div Day
WeekOf(t) == t \div (WeekDays * Day)

Trades(d) == feed.continuous \/ d % WeekDays < Sessions

(* The given days, in order.                                               *)
InOrder(days) == Ascending({d \in 0..(Days - 1) : d \in days})

----------------------------------------------------------------------------
(* What a source answers                                                   *)

(* A futures session opens in the evening before the day it is named for.  *)
OpenOf(d)  == IF feed.kind = "FUTURES" THEN d * Day - 1 ELSE d * Day
CloseOf(d) == IF feed.kind = "CORPUS" THEN (d + 1) * Day ELSE (d + 1) * Day - 1

(* The bar of day d as the source knows it at time t.                      *)
BarAt(d, t) == [open |-> OpenOf(d), close |-> CloseOf(d), whole |-> t >= (d + 1) * Day]

BarsOf(days, t) == [i \in 1..Len(days) |-> BarAt(days[i], t)]

HasBar(d) == Trades(d) /\ d \notin missing

(* Klines: the last ones, the forming one included.                        *)
Klines(t) ==
  LET begun == InOrder({d \in 0..(Days - 1) : HasBar(d) /\ d * Day <= t})
      first == Greatest(1, Len(begun) - KlineLimit + 1)
  IN  BarsOf(SubSeq(begun, first, Len(begun)), t)

(* Standard aggregates of a range of days that ends yesterday.             *)
StandardRange(today, t) ==
  BarsOf(InOrder({d \in (today - 1 - History)..(today - 1) : HasBar(d)}), t)

(* Sessions of one contract in ascending order, cut off at the limit.      *)
FuturesSessions(contract, t) ==
  LET begun == InOrder({d \in 0..contract.expiry : HasBar(d) /\ OpenOf(d) <= t})
  IN  BarsOf(SubSeq(begun, 1, Least(Len(begun), SessionLimit)), t)

(* The rows of a file that is extended day by day.                         *)
CorpusRows(t) == BarsOf(InOrder({d \in 0..(Days - 1) : HasBar(d) /\ (d + 1) * Day <= t}), t)

(* The nearest active contract that is not about to expire, else the       *)
(* nearest one.                                                            *)
SelectGoldContract(today) ==
  LET active == {c \in Contracts : c.expiry >= today}
      far    == {c \in active : c.expiry - today >= MinimumMaturity}
      pool   == IF far # {} THEN far ELSE active
  IN  {c \in pool : \A other \in pool : c.expiry <= other.expiry}

----------------------------------------------------------------------------
(* What is accepted of an answer                                           *)

FaultyParseKlines(rows, t) == Only(rows, {i \in DOMAIN rows : rows[i].close <= t})

(* parse_binance_klines: whatever has closed by the time of parsing.       *)
ParseKlines(rows, t) == Only(rows, {i \in DOMAIN rows : rows[i].close < t})

FaultyParseSessions(rows, today) ==
  Only(rows, {i \in DOMAIN rows : DayOf(rows[i].close) < today - 1})

(* Sessions that ended before the day the request began.                   *)
ParseSessions(rows, today) ==
  Only(rows, {i \in DOMAIN rows : DayOf(rows[i].close) < today})

Increasing(bars) == \A i \in 1..(Len(bars) - 1) : bars[i].open < bars[i + 1].open

FaultyAccepted(c, rows) ==
  LET bars == CASE feed.kind = "BINANCE"  -> ParseKlines(rows, now)
                [] feed.kind = "STANDARD" -> rows
                [] feed.kind = "FUTURES"  -> ParseSessions(rows, DayOf(c.begun))
  IN  IF feed.kind # "BINANCE" /\ bars = <<>> THEN {} ELSE {bars}

(* The closed bars of an answer that was awaited since c.begun, or none:   *)
(* an error.                                                               *)
Accepted(c, rows) ==
  LET bars == CASE feed.kind = "BINANCE"  -> ParseKlines(rows, now)
                [] feed.kind = "STANDARD" -> rows
                [] feed.kind = "FUTURES"  -> ParseSessions(rows, DayOf(c.begun))
  IN  IF ~Increasing(bars) \/ (feed.kind # "BINANCE" /\ bars = <<>>) THEN {} ELSE {bars}

----------------------------------------------------------------------------
(* Aggregation                                                             *)

(* An aggregate opens and closes with its parts.                           *)
Aggregate(parts) ==
  [open |-> parts[1].open, close |-> Final(parts).close, parts |-> parts]

(* The bars that open in another ISO week than the bar before them.        *)
StartsNew(bars) ==
  {i \in DOMAIN bars : i = 1 \/ WeekOf(bars[i - 1].open) # WeekOf(bars[i].open)}

(* Consecutive bars of one ISO week, by their opening.                     *)
Buckets(bars) ==
  LET first   == Ascending(StartsNew(bars))
      last(k) == IF k < Len(first) THEN first[k + 1] - 1 ELSE Len(bars)
  IN  [k \in DOMAIN first |-> SubSeq(bars, first[k], last(k))]

FaultyWeeklyBucketIsClosed(bucket, later) ==
  \/ later
  \/ Final(bucket).close + 1 >= (WeekOf(bucket[1].open) + 1) * WeekDays * Day - Day

(* A later week has begun, or the last bar reaches the end of the week.    *)
WeeklyBucketIsClosed(bucket, later) ==
  \/ later
  \/ Final(bucket).close + 1 >= (WeekOf(bucket[1].open) + 1) * WeekDays * Day

(* aggregate_weekly                                                        *)
Weekly(bars) ==
  IF bars = <<>> THEN <<>>
  ELSE LET buckets == Buckets(bars)
           n == Len(buckets)
           closed == IF WeeklyBucketIsClosed(buckets[n], FALSE) THEN n ELSE n - 1
       IN  [i \in 1..closed |-> Aggregate(buckets[i])]

FaultyBatches(bars, n) ==
  [k \in 1..((Len(bars) + 1) \div n) |->
     Aggregate(SubSeq(bars, (k - 1) * n + 1, Least(k * n, Len(bars))))]

(* The intraday aggregations count bars; an incomplete batch is dropped.   *)
Batches(bars, n) ==
  [k \in 1..(Len(bars) \div n) |-> Aggregate(SubSeq(bars, (k - 1) * n + 1, k * n))]

AggregateM5FromM1(m1) == Batches(m1, PerFive)

AggregateH1(bars, minutes) == Batches(bars, IF minutes THEN PerFive * PerHour ELSE PerHour)

AggregateH4FromH1(h1) == Batches(h1, PerFour)

FaultyCadenceAnomalies(bars) ==
  {i \in 1..(Len(bars) - 1) : bars[i + 1].open - bars[i].open > ToleratedGap * Day}

(* cadence_anomalies: pairs of bars whose distance the calendar does not   *)
(* explain.                                                                *)
CadenceAnomalies(bars) ==
  {i \in 1..(Len(bars) - 1) :
     LET gap == bars[i + 1].open - bars[i].open
     IN  gap < Day \/ gap > (IF feed.continuous THEN 1 ELSE ToleratedGap) * Day}

----------------------------------------------------------------------------
(* Structural frames                                                       *)

(* A bar is measured on the close before it, so the first one only scales  *)
(* the second; fewer than three bars are refused.                          *)
AdaptClosedBars(bars) == IF Len(bars) < 3 THEN <<>> ELSE Tail(bars)

(* The first observation has no expectation: the kernel makes no row of it *)
(* and every later one is a frame of the stack.                            *)
ReplayFrames(observations) == IF observations = <<>> THEN <<>> ELSE Tail(observations)

DailyFrames(bars)  == ReplayFrames(AdaptClosedBars(bars))
WeeklyFrames(bars) == ReplayFrames(AdaptClosedBars(Weekly(bars)))

FaultyLatestStrictlyPriorWeek(frame, weekly) ==
  LET prior == {i \in DOMAIN weekly : WeekOf(weekly[i].close) <= WeekOf(frame.close)}
  IN  {weekly[i] : i \in {j \in prior : \A k \in prior : k <= j}}

(* The last weekly frame whose close lies in an earlier week than that of  *)
(* the daily one.                                                          *)
LatestStrictlyPriorWeek(frame, weekly) ==
  LET prior == {i \in DOMAIN weekly : WeekOf(weekly[i].close) < WeekOf(frame.close)}
  IN  {weekly[i] : i \in {j \in prior : \A k \in prior : k <= j}}

(* Pairs counted from the end of the two series.                           *)
FaultyAlignedPairs(primary, reference) ==
  LET n == Least(Len(primary), Len(reference))
  IN  [k \in 1..n |-> [primary   |-> primary[Len(primary) - n + k].close,
                       reference |-> reference[Len(reference) - n + k].close]]

(* A turn of its loop: the heads of both series are paired when they are   *)
(* close enough, else the earlier one is dropped.                          *)
Advance(primary, reference, at) ==
  IF at.i > Len(primary) \/ at.j > Len(reference) THEN at
  ELSE LET p == primary[at.i].close
           r == reference[at.j].close
       IN  IF Greatest(p - r, r - p) <= TemporalGap
           THEN [i |-> at.i + 1, j |-> at.j + 1,
                 pairs |-> Append(at.pairs, [primary |-> p, reference |-> r])]
           ELSE IF p < r THEN [at EXCEPT !.i = @ + 1] ELSE [at EXCEPT !.j = @ + 1]

(* The loop, turn by turn; each turn drops a head of a series or both.     *)
Walk(primary, reference) ==
  LET walk[n \in 0..(Len(primary) + Len(reference))] ==
        IF n = 0 THEN [i |-> 1, j |-> 1, pairs |-> <<>>]
        ELSE Advance(primary, reference, walk[n - 1])
  IN  walk

(* align_frames_by_timestamp                                               *)
AlignedPairs(primary, reference) ==
  Walk(primary, reference)[Len(primary) + Len(reference)].pairs

----------------------------------------------------------------------------

Init ==
  /\ feed \in Feeds
  /\ missing \in {m \in Holes : \A d \in m : Trades(d)}
  /\ now = 0 /\ call = {} /\ series = {}

(* The clock.  The timeout of the client ends a request long before a      *)
(* second midnight.                                                        *)
Tick ==
  /\ now < Days * Day
  /\ \A c \in call : now = c.begun
  /\ now' = now + 1
  /\ UNCHANGED <<feed, missing, call, series>>

(* A request for the klines or the standard aggregates: the source answers *)
(* from what it knows when the request arrives.                            *)
Ask ==
  /\ feed.kind \in {"BINANCE", "STANDARD"} /\ call = {}
  /\ call' = {[begun |-> now, contract |-> "none",
               rows |-> {IF feed.kind = "BINANCE" THEN Klines(now)
                         ELSE StandardRange(DayOf(now), now)}]}
  /\ UNCHANGED <<feed, missing, now, series>>

(* massive_gold_daily: the contracts active on the day the request began.  *)
SelectContract ==
  /\ feed.kind = "FUTURES" /\ call = {}
  /\ \E c \in SelectGoldContract(DayOf(now)) :
       call' = {[begun |-> now, contract |-> c.ticker, rows |-> {}]}
  /\ UNCHANGED <<feed, missing, now, series>>

(* Its second call, for the sessions of the contract it selected.          *)
FetchSessions ==
  \E c \in call, contract \in Contracts :
    /\ c.rows = {} /\ contract.ticker = c.contract
    /\ call' = {[c EXCEPT !.rows = {FuturesSessions(contract, now)}]}
    /\ UNCHANGED <<feed, missing, now, series>>

(* The payload has arrived and is parsed; an error leaves no series.  One  *)
(* row may have come twice.                                                *)
Deliver ==
  \E c \in call, rows \in UNION {call0.rows : call0 \in call} :
    \E payload \in {rows} \cup {Append(rows, rows[i]) : i \in DOMAIN rows} :
      /\ call' = {}
      /\ series' = IF Accepted(c, payload) = {} THEN series
                   ELSE {[begun |-> c.begun, contract |-> c.contract, bars |-> bars] :
                           bars \in Accepted(c, payload)}
      /\ UNCHANGED <<feed, missing, now>>

(* The request fails or times out.                                         *)
GiveUp ==
  /\ call # {} /\ call' = {}
  /\ UNCHANGED <<feed, missing, now, series>>

(* load_daily_csv                                                          *)
LoadCorpus ==
  /\ feed.kind = "CORPUS"
  /\ series' = {[begun |-> now, contract |-> "none", bars |-> CorpusRows(now)]}
  /\ UNCHANGED <<feed, missing, now, call>>

Next == Tick \/ Ask \/ SelectContract \/ FetchSessions \/ Deliver \/ GiveUp \/ LoadCorpus

Spec == Init /\ [][Next]_vars

----------------------------------------------------------------------------
(* Type invariant                                                          *)

Bars == [open : -1..(Days * Day), close : 0..(Days * Day), whole : BOOLEAN]

(* Every series is one of bars in order that have closed by the clock.     *)
MarketTypeOK ==
  /\ feed \in Feeds /\ missing \subseteq 0..(Days - 1) /\ now \in 0..(Days * Day)
  /\ \A c \in call : c.begun \in {now - 1, now} /\ \A rows \in c.rows : rows \in Seq(Bars)
  /\ \A s \in series :
       /\ s.bars \in Seq(Bars) /\ Increasing(s.bars)
       /\ \A i \in DOMAIN s.bars : s.bars[i].open < s.bars[i].close /\ s.bars[i].close <= now

----------------------------------------------------------------------------
(* Safety                                                                  *)

(* A bar that was still forming when the source answered is accepted only  *)
(* as the last of a klines answer, and only if it closed while the answer  *)
(* was on its way (provider.rs:368 takes the time of the filter after the  *)
(* payload): nothing else lets an open bar into the "closed bar" pipeline. *)
OpenBarOnlyAtMidnight ==
  \A s \in series : \A i \in DOMAIN s.bars :
    ~s.bars[i].whole =>
      /\ feed.kind = "BINANCE" /\ i = Len(s.bars)
      /\ s.begun <= s.bars[i].close /\ s.bars[i].close < now

(* An accepted answer ends with the last session that was over when its    *)
(* request began.  Futures sessions come in ascending order up to a limit  *)
(* (provider.rs:122-126): once a contract has more of them, the series     *)
(* stops there, and its contract may have expired meanwhile.               *)
FreshestServed ==
  \A s \in series : \A d \in 0..(Days - 1) :
    /\ HasBar(d) /\ (d + 1) * Day <= DayOf(s.begun) * Day
    /\ feed.kind = "STANDARD" => d >= DayOf(s.begun) - 1 - History
    /\ feed.kind = "FUTURES" => Len(s.bars) < SessionLimit
                                /\ \E c \in Contracts : c.ticker = s.contract /\ d <= c.expiry
    => s.bars # <<>> /\ Final(s.bars).open >= OpenOf(d)

(* A series without a cadence anomaly has no hole that its calendar does   *)
(* not explain: between the first and the last week every week is there,   *)
(* and is full where the market never closes.  Loading and aggregating     *)
(* (historical.rs:155, 180) check nothing themselves.                      *)
NoAnomalyNoHole ==
  \A s \in series :
    s.bars # <<>> /\ CadenceAnomalies(s.bars) = {} =>
      LET buckets == Buckets(s.bars)
      IN  /\ \A i \in 1..(Len(buckets) - 1) :
               WeekOf(buckets[i + 1][1].open) = WeekOf(buckets[i][1].open) + 1
          /\ feed.continuous =>
               \A i \in 2..(Len(buckets) - 1) : Len(buckets[i]) = WeekDays

(* The week a daily row is compared with is never from the row's own       *)
(* future, and is the latest week complete when its bar opened or the one  *)
(* before that: a close on the boundary of two weeks counts into the later *)
(* one (dynamics.rs:343), so the join lags by one week for files of a      *)
(* market without weekends and for futures, and by no more for any source. *)
JoinLagBounded ==
  \A s \in series :
    LET weekly == WeeklyFrames(s.bars)
    IN  \A f \in {DailyFrames(s.bars)[i] : i \in DOMAIN DailyFrames(s.bars)} :
          LET over   == {i \in DOMAIN weekly : weekly[i].close <= f.open}
              joined == LatestStrictlyPriorWeek(f, weekly)
          IN  /\ \A w \in joined : \E i \in over : w = weekly[i]
              /\ Cardinality(over) > 1 => joined # {}
              /\ \A w \in joined :
                   Cardinality({i \in over : weekly[i].open > w.open}) <= 1

(* An hour bar, and so a four-hour bar, made of minutes is the one made of *)
(* five-minute bars made of the same minutes, to the last complete one     *)
(* (historical.rs:298, 387, 486).                                          *)
HourFromEitherPath ==
  \A s \in series :
    LET direct == AggregateH1(s.bars, TRUE)
        staged == AggregateH1(AggregateM5FromM1(s.bars), FALSE)
    IN  /\ Len(direct) = Len(staged)
        /\ \A k \in DOMAIN direct :
             /\ direct[k].open = staged[k].open /\ direct[k].close = staged[k].close
             /\ \A m \in DOMAIN staged[k].parts, i \in 1..PerFive :
                  staged[k].parts[m].parts[i] = direct[k].parts[(m - 1) * PerFive + i]
        /\ \A k \in DOMAIN AggregateH4FromH1(direct) :
             LET h4 == AggregateH4FromH1(direct)[k]
             IN  /\ h4.close = s.bars[k * PerFive * PerHour * PerFour].close
                 /\ h4.close = AggregateH4FromH1(staged)[k].close

----------------------------------------------------------------------------
(* Action properties: what a later series may do to an earlier one         *)

(* s and t are two answers about the same series of prices, neither with   *)
(* an open bar in it.                                                      *)
SameMarket(s, t) ==
  /\ s.contract = t.contract /\ s.bars # <<>> /\ t.bars # <<>>
  /\ \A i \in DOMAIN s.bars : s.bars[i].whole

(* The weeks of s that t reaches back to are weeks of t.                   *)
WeeksKept(s, t) ==
  LET old == Weekly(s.bars)
      new == Weekly(t.bars)
  IN  \A i \in DOMAIN old :
        old[i].open >= t.bars[1].open => \E j \in DOMAIN new : new[j] = old[i]

(* A week once emitted is never changed or withdrawn by a later answer     *)
(* (historical.rs:173-179), as long as the answer still reaches back to    *)
(* its beginning: "closed" weeks are final, whatever the source's close    *)
(* times and holidays.                                                     *)
ClosedWeeksFinal ==
  [][\A s \in series, t \in series' : SameMarket(s, t) => WeeksKept(s, t)]_series

(* A row of both series is compared with the same week in both, unless one *)
(* of them, which begins elsewhere, has too few weeks to compare with.     *)
JoinsKept(s, t) ==
  LET old == DailyFrames(s.bars)
      new == DailyFrames(t.bars)
      oldWeeks == WeeklyFrames(s.bars)
      newWeeks == WeeklyFrames(t.bars)
  IN  \A i \in DOMAIN old, j \in DOMAIN new :
        old[i].close = new[j].close =>
          LET then  == LatestStrictlyPriorWeek(old[i], oldWeeks)
              later == LatestStrictlyPriorWeek(new[j], newWeeks)
          IN  \/ then = later
              \/ s.bars[1] # t.bars[1] /\ (then = {} \/ later = {})

(* The week a daily row was compared with when the row was new is the one  *)
(* it is compared with in every longer replay (dynamics.rs:84-87); only a  *)
(* window that has moved on may have too few weeks left for a comparison.  *)
JoinIsCausal ==
  [][\A s \in series, t \in series' : SameMarket(s, t) => JoinsKept(s, t)]_series

(* The other instrument of a cross-asset relation: a standard feed without *)
(* holes, as it stands at time t.                                          *)
ReferenceFrames(t) ==
  DailyFrames(LET days == InOrder({d \in 0..(Days - 1) :
                                     d % WeekDays < Sessions /\ (d + 1) * Day <= t})
         IN  [i \in 1..Len(days) |->
                [open |-> days[i] * Day, close |-> (days[i] + 1) * Day - 1, whole |-> TRUE]])

(* The aligned pairs of s come first among those of t.                     *)
PairsKept(s, t) ==
  LET old == AlignedPairs(DailyFrames(s.bars), ReferenceFrames(s.begun))
      new == AlignedPairs(DailyFrames(t.bars), ReferenceFrames(t.begun))
  IN  Len(old) <= Len(new) /\ SubSeq(new, 1, Len(old)) = old

(* A longer pair of series only adds aligned pairs to those of a shorter   *)
(* one (cross_asset.rs:182): what was related stays related as it was.     *)
AlignmentExtends ==
  [][\A s \in series, t \in series' :
       SameMarket(s, t) /\ s.bars[1] = t.bars[1] /\ Len(s.bars) >= 3 => PairsKept(s, t)]_series

=============================================================================
