------------------------- MODULE MarketSeriesProofs -------------------------
(***************************************************************************)
(* Theorems about MarketSeries: which bars are accepted from which source, *)
(* that both ways to an hour agree, that holes in the calendar are         *)
(* reported, how far the join with an earlier week lags, and what a later  *)
(* series does to the weeks, joins and aligned pairs of an earlier one:    *)
(* for every calendar, limit, number of days and set of contracts.         *)
(***************************************************************************)
EXTENDS MarketSeries, CommonProofs, SequenceTheorems

(* The assumptions about the constants, one by one.                        *)
LEMMA Constants ==
  /\ {Days, WeekDays, Sessions, KlineLimit, History, SessionLimit,
      PerFive, PerHour, PerFour} \subseteq Nat \ {0}
  /\ Days \in Nat \ {0} /\ WeekDays \in Nat \ {0} /\ Sessions \in Nat \ {0}
  /\ KlineLimit \in Nat \ {0, 1} /\ History \in Nat \ {0} /\ SessionLimit \in Nat \ {0}
  /\ PerFive \in Nat \ {0} /\ PerHour \in Nat \ {0} /\ PerFour \in Nat \ {0}
<1>1. {Days, WeekDays, Sessions, KlineLimit, History, SessionLimit,
       PerFive, PerHour, PerFour} \subseteq Nat \ {0}
  BY SeriesAssumption
<1>2. QED
  BY <1>1, KlineAssumption

-----------------------------------------------------------------------------
(* The days of a source                                                    *)

(* InOrder lists the days of the calendar that are asked for, ascending.   *)
LEMMA InOrderIsOrdered ==
  ASSUME NEW days
  PROVE  /\ InOrder(days) \in Seq(0..(Days - 1))
         /\ \A k \in 1..Len(InOrder(days)) : InOrder(days)[k] \in days
         /\ \A k, l \in 1..Len(InOrder(days)) :
              k < l => InOrder(days)[k] < InOrder(days)[l]
         /\ \A d \in 0..(Days - 1) :
              d \in days => \E k \in 1..Len(InOrder(days)) : InOrder(days)[k] = d
<1> DEFINE S == {d \in 0..(Days - 1) : d \in days}
<1>1. S \in SUBSET (0..(Days - 1)) /\ S \in SUBSET Nat /\ IsFiniteSet(S)
  <2>1. S \subseteq 0..(Days - 1) /\ Days \in Nat
    BY Constants
  <2>2. IsFiniteSet(0..(Days - 1))
    BY <2>1, FS_Interval
  <2>3. QED
    BY <2>1, <2>2, FS_Subset
<1>2. Ascending(S) \in Seq(S)
  BY <1>1, AscendingRanks
<1>3. /\ \A k, l \in 1..Len(Ascending(S)) : k < l => Ascending(S)[k] < Ascending(S)[l]
      /\ \A x \in S : \E k \in 1..Len(Ascending(S)) : Ascending(S)[k] = x
  BY <1>1, AscendingOrdered
<1>4. InOrder(days) = Ascending(S)
  BY DEF InOrder
<1>5. \A d \in S : d \in 0..(Days - 1) /\ d \in days
  OBVIOUS
<1>6. \A d \in 0..(Days - 1) : d \in days => d \in S
  OBVIOUS
<1> HIDE DEF S
<1>7. /\ Ascending(S) \in Seq(0..(Days - 1))
      /\ \A k \in 1..Len(Ascending(S)) : Ascending(S)[k] \in S
  BY <1>1, <1>2, Members
<1>8. QED
  BY <1>3, <1>4, <1>5, <1>6, <1>7

-----------------------------------------------------------------------------
(* Bars of an answer                                                       *)

(* A day of the calendar makes a bar of the right type.                    *)
LEMMA BarOfDay ==
  ASSUME NEW d \in 0..(Days - 1), NEW t \in Nat
  PROVE  /\ BarAt(d, t) \in Bars
         /\ BarAt(d, t).open = OpenOf(d) /\ BarAt(d, t).close = CloseOf(d)
         /\ BarAt(d, t).whole <=> t >= (d + 1) * Day
         /\ OpenOf(d) \in Int /\ CloseOf(d) \in Nat /\ OpenOf(d) < CloseOf(d)
         /\ d * Day - 1 <= OpenOf(d) /\ OpenOf(d) <= d * Day
         /\ (d + 1) * Day - 1 <= CloseOf(d) /\ CloseOf(d) <= (d + 1) * Day
         /\ feed.kind # "FUTURES" => OpenOf(d) = d * Day
         /\ feed.kind = "FUTURES" => OpenOf(d) = d * Day - 1
         /\ feed.kind # "CORPUS" => CloseOf(d) = (d + 1) * Day - 1
<1>1. Days \in Nat /\ d \in Nat /\ d <= Days - 1
  BY Constants
<1>2. OpenOf(d) \in -1..(Days * Day) /\ CloseOf(d) \in 0..(Days * Day)
  BY <1>1 DEF OpenOf, CloseOf, Day
<1>3. (t >= (d + 1) * Day) \in BOOLEAN
  OBVIOUS
<1>4. BarAt(d, t) \in Bars
  BY <1>2, <1>3 DEF BarAt, Bars
<1>5. /\ OpenOf(d) \in Int /\ CloseOf(d) \in Nat /\ OpenOf(d) < CloseOf(d)
      /\ d * Day - 1 <= OpenOf(d) /\ OpenOf(d) <= d * Day
      /\ (d + 1) * Day - 1 <= CloseOf(d) /\ CloseOf(d) <= (d + 1) * Day
      /\ feed.kind # "FUTURES" => OpenOf(d) = d * Day
      /\ feed.kind = "FUTURES" => OpenOf(d) = d * Day - 1
      /\ feed.kind # "CORPUS" => CloseOf(d) = (d + 1) * Day - 1
  BY <1>1 DEF OpenOf, CloseOf, Day
<1>6. QED
  BY <1>4, <1>5 DEF BarAt

(* The bars of a list of days.                                             *)
LEMMA BarsOfDays ==
  ASSUME NEW days \in Seq(0..(Days - 1)), NEW t \in Nat
  PROVE  /\ BarsOf(days, t) \in Seq(Bars)
         /\ Len(BarsOf(days, t)) = Len(days)
         /\ \A i \in 1..Len(days) : BarsOf(days, t)[i] = BarAt(days[i], t)
<1>1. \A i \in 1..Len(days) : days[i] \in 0..(Days - 1)
  BY Members
<1>2. \A i \in 1..Len(days) : BarAt(days[i], t) \in Bars
  BY <1>1, BarOfDay
<1>3. BarsOf(days, t) = [i \in 1..Len(days) |-> BarAt(days[i], t)] /\ Len(days) \in Nat
  BY DEF BarsOf
<1>4. QED
  BY <1>2, <1>3

(* A segment of a sequence.                                                *)
LEMMA Segment ==
  ASSUME NEW A, NEW s \in Seq(A), NEW m \in Nat \ {0}, NEW n \in Nat, n <= Len(s), m <= n + 1
  PROVE  /\ SubSeq(s, m, n) \in Seq(A)
         /\ Len(SubSeq(s, m, n)) = n - m + 1
         /\ \A k \in 1..(n - m + 1) : SubSeq(s, m, n)[k] = s[m + k - 1]
OBVIOUS

(* Klines are bars of days that have begun.  They have a closed bar no     *)
(* older than any day that was over: the last one, or the one before it.   *)
LEMMA KlineBars ==
  ASSUME feed.kind = "BINANCE", NEW t \in Nat
  PROVE  /\ Klines(t) \in Seq(Bars)
         /\ \A i \in 1..Len(Klines(t)) :
              \E d \in 0..(Days - 1) : d * Day <= t /\ Klines(t)[i] = BarAt(d, t)
         /\ \A d \in 0..(Days - 1), n \in Nat :
              HasBar(d) /\ (d + 1) * Day <= t /\ t <= n =>
                \E i \in 1..Len(Klines(t)) :
                  Klines(t)[i].open >= OpenOf(d) /\ Klines(t)[i].close < n
<1> DEFINE S == {d \in 0..(Days - 1) : HasBar(d) /\ d * Day <= t}
           b == InOrder(S)
           first == Greatest(1, Len(b) - KlineLimit + 1)
           shown == SubSeq(b, first, Len(b))
<1>1. /\ b \in Seq(0..(Days - 1))
      /\ \A k \in 1..Len(b) : b[k] \in S
      /\ \A k, l \in 1..Len(b) : k < l => b[k] < b[l]
      /\ \A d \in 0..(Days - 1) : d \in S => \E k \in 1..Len(b) : b[k] = d
  BY InOrderIsOrdered
<1>2. Klines(t) = BarsOf(shown, t)
  BY DEF Klines
<1>3. \A d \in S : d \in 0..(Days - 1) /\ d \in Nat /\ d * Day <= t
  BY Constants
<1>4. \A d \in 0..(Days - 1) : HasBar(d) /\ d * Day <= t => d \in S
  OBVIOUS
<1> HIDE DEF S, b
<1>5. /\ Len(b) \in Nat /\ \A k \in 1..Len(b) : b[k] \in 0..(Days - 1)
  BY <1>1, Members
<1>6. first \in Nat \ {0} /\ first <= Len(b) + 1 /\ (Len(b) >= 1 => first <= Len(b))
      /\ (Len(b) >= 2 => first <= Len(b) - 1)
  BY <1>5, Constants DEF Greatest
<1> HIDE DEF first
<1>7. /\ shown \in Seq(0..(Days - 1))
      /\ Len(shown) = Len(b) - first + 1
      /\ \A k \in 1..(Len(b) - first + 1) : shown[k] = b[first + k - 1]
  BY <1>1, <1>5, <1>6, Segment
<1> HIDE DEF shown
<1>8. /\ BarsOf(shown, t) \in Seq(Bars)
      /\ Len(BarsOf(shown, t)) = Len(shown)
      /\ \A i \in 1..Len(shown) : BarsOf(shown, t)[i] = BarAt(shown[i], t)
  BY <1>7, BarsOfDays
<1>9. ASSUME NEW i \in 1..Len(Klines(t))
      PROVE  \E d \in 0..(Days - 1) : d * Day <= t /\ Klines(t)[i] = BarAt(d, t)
  <2>1. i \in 1..(Len(b) - first + 1) /\ first + i - 1 \in 1..Len(b)
    BY <1>2, <1>5, <1>6, <1>7, <1>8
  <2>2. shown[i] \in S /\ Klines(t)[i] = BarAt(shown[i], t)
    BY <2>1, <1>1, <1>2, <1>7, <1>8
  <2>3. QED
    BY <2>2, <1>3
<1>10. ASSUME NEW k \in 1..Len(b), first <= k
       PROVE  \E i \in 1..Len(Klines(t)) : Klines(t)[i] = BarAt(b[k], t)
  <2> DEFINE i == k - first + 1
  <2>1. i \in 1..(Len(b) - first + 1) /\ first + i - 1 = k
    BY <1>5, <1>6, <1>10
  <2>2. shown[i] = b[k] /\ i \in 1..Len(Klines(t))
    BY <2>1, <1>2, <1>7, <1>8
  <2>3. Klines(t)[i] = BarAt(shown[i], t)
    BY <2>1, <1>2, <1>7, <1>8
  <2>4. QED
    BY <2>2, <2>3
<1>11. ASSUME NEW d \in 0..(Days - 1), NEW n \in Nat, HasBar(d), (d + 1) * Day <= t, t <= n
       PROVE  \E i \in 1..Len(Klines(t)) :
                Klines(t)[i].open >= OpenOf(d) /\ Klines(t)[i].close < n
  <2>1. d \in Nat /\ d * Day <= t
    BY <1>11, Constants DEF Day
  <2>2. PICK k \in 1..Len(b) : b[k] = d
    BY <2>1, <1>1, <1>4, <1>11
  <2> DEFINE e == b[Len(b)]
  <2>3. Len(b) \in 1..Len(b) /\ e \in 0..(Days - 1) /\ e \in Nat /\ e * Day <= t
    BY <2>2, <1>1, <1>3, <1>5
  <2>4. d <= e
    <3>1. CASE k = Len(b)
      BY <3>1, <2>2, <2>1
    <3>2. CASE k < Len(b)
      BY <3>2, <2>1, <2>2, <2>3, <1>1
    <3>3. QED
      BY <3>1, <3>2, <1>5
  <2>5. CASE (e + 1) * Day - 1 < n
    <3>1. PICK i \in 1..Len(Klines(t)) : Klines(t)[i] = BarAt(e, t)
      BY <1>10, <1>6, <2>3
    <3>2. BarAt(e, t).open = e * Day /\ BarAt(e, t).close = (e + 1) * Day - 1
      BY <2>3, BarOfDay
    <3>3. OpenOf(d) = d * Day
      BY BarOfDay
    <3>4. e * Day >= d * Day
      BY <2>1, <2>3, <2>4 DEF Day
    <3>5. QED
      BY <3>1, <3>2, <3>3, <3>4, <2>5
  <2>6. CASE (e + 1) * Day - 1 >= n
    <3>1. d < e
      BY <2>6, <1>11, <2>1, <2>3, <2>4 DEF Day
    <3>2. k < Len(b)
      BY <3>1, <2>2, <1>5
    <3> DEFINE l == Len(b) - 1
    <3>3. l \in 1..Len(b) /\ l < Len(b) /\ k <= l /\ first <= l
      BY <3>2, <1>5, <1>6
    <3>4. b[l] < e /\ b[l] \in 0..(Days - 1) /\ b[l] \in Nat
      BY <3>3, <2>3, <1>1, <1>5, <1>3
    <3>5. d <= b[l]
      <4>1. CASE k = l
        BY <4>1, <2>2, <2>1
      <4>2. CASE k < l
        BY <4>2, <2>1, <2>2, <3>3, <3>4, <1>1
      <4>3. QED
        BY <4>1, <4>2, <3>3, <1>5
    <3>6. PICK i \in 1..Len(Klines(t)) : Klines(t)[i] = BarAt(b[l], t)
      BY <1>10, <3>3
    <3>7. BarAt(b[l], t).open = b[l] * Day /\ BarAt(b[l], t).close = (b[l] + 1) * Day - 1
      BY <3>4, BarOfDay
    <3>8. OpenOf(d) = d * Day
      BY BarOfDay
    <3>9. b[l] * Day >= d * Day /\ (b[l] + 1) * Day - 1 < n
      BY <3>4, <3>5, <2>1, <2>3, <1>11 DEF Day
    <3>10. QED
      BY <3>6, <3>7, <3>8, <3>9
  <2>7. (e + 1) * Day - 1 \in Int
    BY <2>3 DEF Day
  <2>8. QED
    BY <2>5, <2>6, <2>7
<1>12. QED
  BY <1>2, <1>8, <1>9, <1>11

(* The bars of the days in a set, in order.                                *)
LEMMA ListedBars ==
  ASSUME NEW S, NEW t \in Nat
  PROVE  LET rows == BarsOf(InOrder(S), t)
         IN  /\ rows \in Seq(Bars) /\ Increasing(rows)
             /\ \A i \in 1..Len(rows) : \E d \in 0..(Days - 1) : d \in S /\ rows[i] = BarAt(d, t)
             /\ \A d \in 0..(Days - 1) :
                  d \in S => \E i \in 1..Len(rows) : rows[i] = BarAt(d, t)
<1> DEFINE b == InOrder(S)
           rows == BarsOf(b, t)
<1>1. /\ b \in Seq(0..(Days - 1))
      /\ \A k \in 1..Len(b) : b[k] \in S
      /\ \A k, l \in 1..Len(b) : k < l => b[k] < b[l]
      /\ \A d \in 0..(Days - 1) : d \in S => \E k \in 1..Len(b) : b[k] = d
  BY InOrderIsOrdered
<1> HIDE DEF b
<1>2. Len(b) \in Nat /\ \A k \in 1..Len(b) : b[k] \in 0..(Days - 1)
  BY <1>1, Members
<1>3. rows \in Seq(Bars) /\ Len(rows) = Len(b) /\ \A i \in 1..Len(b) : rows[i] = BarAt(b[i], t)
  BY <1>1, BarsOfDays
<1> HIDE DEF rows
<1>4. ASSUME NEW i \in 1..(Len(rows) - 1) PROVE rows[i].open < rows[i + 1].open
  <2>1. i \in 1..Len(b) /\ i + 1 \in 1..Len(b) /\ i < i + 1
    BY <1>2, <1>3
  <2>2. b[i] < b[i + 1] /\ b[i] \in 0..(Days - 1) /\ b[i + 1] \in 0..(Days - 1)
    BY <2>1, <1>1, <1>2
  <2>3. b[i] \in Nat /\ b[i + 1] \in Nat
    BY <2>2, Constants
  <2>4. /\ rows[i].open = OpenOf(b[i]) /\ rows[i + 1].open = OpenOf(b[i + 1])
        /\ OpenOf(b[i]) <= b[i] * Day /\ b[i + 1] * Day - 1 <= OpenOf(b[i + 1])
        /\ OpenOf(b[i]) \in Int /\ OpenOf(b[i + 1]) \in Int
    BY <2>1, <2>2, <1>3, BarOfDay
  <2>5. b[i] * Day < b[i + 1] * Day - 1
    BY <2>2, <2>3 DEF Day
  <2> DEFINE p == b[i] * Day
             q == b[i + 1] * Day - 1
  <2>6. p \in Int /\ q \in Int
    BY <2>3 DEF Day
  <2>7. p < q /\ rows[i].open <= p /\ q <= rows[i + 1].open
    BY <2>4, <2>5
  <2> HIDE DEF p, q
  <2>8. rows[i].open \in Int /\ rows[i + 1].open \in Int
    BY <2>4
  <2>9. QED
    BY <2>6, <2>7, <2>8
<1>5. Increasing(rows)
  BY <1>4 DEF Increasing
<1>6. ASSUME NEW d \in 0..(Days - 1), d \in S
      PROVE  \E i \in 1..Len(rows) : rows[i] = BarAt(d, t)
  BY <1>1, <1>3, <1>6
<1>7. ASSUME NEW i \in 1..Len(rows)
      PROVE  \E d \in 0..(Days - 1) : d \in S /\ rows[i] = BarAt(d, t)
  BY <1>1, <1>2, <1>3
<1>8. QED
  BY <1>3, <1>5, <1>6, <1>7 DEF rows, b

(* Futures sessions are those of days that have begun, and a day that has  *)
(* begun is only missing when as many earlier ones fill the limit.         *)
LEMMA SessionBars ==
  ASSUME feed.kind = "FUTURES", NEW contract \in Contracts, NEW t \in Nat
  PROVE  LET rows == FuturesSessions(contract, t)
         IN  /\ rows \in Seq(Bars)
             /\ \A i \in 1..Len(rows) : \E d \in 0..(Days - 1) : rows[i] = BarAt(d, t)
             /\ \A d \in 0..(Days - 1) :
                  HasBar(d) /\ d <= contract.expiry /\ OpenOf(d) <= t =>
                    \/ \E i \in 1..Len(rows) : rows[i] = BarAt(d, t)
                    \/ /\ Len(rows) = SessionLimit
                       /\ \A i \in 1..Len(rows) : rows[i].close < CloseOf(d)
<1> DEFINE S == {d \in 0..contract.expiry : HasBar(d) /\ OpenOf(d) <= t}
           b == InOrder(S)
           n == Least(Len(b), SessionLimit)
           shown == SubSeq(b, 1, n)
           rows == BarsOf(shown, t)
<1>1. /\ b \in Seq(0..(Days - 1))
      /\ \A k, l \in 1..Len(b) : k < l => b[k] < b[l]
      /\ \A d \in 0..(Days - 1) : d \in S => \E k \in 1..Len(b) : b[k] = d
  BY InOrderIsOrdered
<1>2. FuturesSessions(contract, t) = rows
  BY DEF FuturesSessions
<1>3. \A d \in 0..(Days - 1) : HasBar(d) /\ d <= contract.expiry /\ OpenOf(d) <= t => d \in S
  BY SeriesAssumption, Constants
<1> HIDE DEF S, b
<1>4. Len(b) \in Nat /\ \A k \in 1..Len(b) : b[k] \in 0..(Days - 1) /\ b[k] \in Nat
  <2>1. Len(b) \in Nat /\ \A k \in 1..Len(b) : b[k] \in 0..(Days - 1)
    BY <1>1, Members
  <2>2. QED
    BY <2>1, Constants
<1>5. n \in Nat /\ n <= Len(b) /\ (n < Len(b) => n = SessionLimit)
  BY <1>4, Constants DEF Least
<1> HIDE DEF n
<1>6. shown \in Seq(0..(Days - 1)) /\ Len(shown) = n /\ \A k \in 1..n : shown[k] = b[k]
  BY <1>1, <1>4, <1>5, Segment
<1> HIDE DEF shown
<1>7. rows \in Seq(Bars) /\ Len(rows) = n /\ \A i \in 1..n : rows[i] = BarAt(b[i], t)
  BY <1>6, BarsOfDays
<1> HIDE DEF rows
<1>8. \A i \in 1..Len(rows) : i \in 1..Len(b) /\ rows[i] = BarAt(b[i], t)
  BY <1>4, <1>5, <1>7
<1>9. ASSUME NEW d \in 0..(Days - 1), HasBar(d), d <= contract.expiry, OpenOf(d) <= t
      PROVE  \/ \E i \in 1..Len(rows) : rows[i] = BarAt(d, t)
             \/ /\ Len(rows) = SessionLimit
                /\ \A i \in 1..Len(rows) : rows[i].close < CloseOf(d)
  <2>1. PICK k \in 1..Len(b) : b[k] = d
    BY <1>1, <1>3, <1>9
  <2>2. CASE k <= n
    <3>1. k \in 1..Len(rows) /\ rows[k] = BarAt(d, t)
      BY <2>1, <2>2, <1>5, <1>7
    <3>2. QED
      BY <3>1
  <2>3. CASE n < k
    <3>1. Len(rows) = SessionLimit
      BY <2>1, <2>3, <1>4, <1>5, <1>7
    <3>2. ASSUME NEW i \in 1..Len(rows) PROVE rows[i].close < CloseOf(d)
      <4>1. i \in 1..Len(b) /\ i < k
        BY <2>3, <1>4, <1>5, <1>7
      <4>2. b[i] < d /\ b[i] \in 0..(Days - 1) /\ b[i] \in Nat /\ d \in Nat
        BY <4>1, <2>1, <1>1, <1>4, Constants
      <4>3. rows[i].close = (b[i] + 1) * Day - 1 /\ CloseOf(d) = (d + 1) * Day - 1
        BY <4>2, <1>8, BarOfDay
      <4>4. QED
        BY <4>2, <4>3 DEF Day
    <3>3. QED
      BY <3>1, <3>2
  <2>4. QED
    BY <2>1, <2>2, <2>3, <1>4, <1>5
<1>10. \A i \in 1..Len(rows) : \E d \in 0..(Days - 1) : rows[i] = BarAt(d, t)
  BY <1>4, <1>8
<1>11. QED
  BY <1>2, <1>7, <1>9, <1>10

-----------------------------------------------------------------------------
(* The inductive invariant: what is in flight is what the source said when *)
(* it was asked, and every accepted series has the promised properties.    *)

Tickers == {contract.ticker : contract \in Contracts} \cup {"none"}

Asked == [begun : Nat, contract : Tickers, rows : SUBSET Seq(Bars)]

(* A call: its rows are what its source knew at the time of the request,   *)
(* or, for the second call of a futures request, at some later moment.     *)
CallInv ==
  /\ call \in SUBSET Asked
  /\ \A c \in call :
       /\ c.begun \in {now - 1, now}
       /\ \A other \in call : other = c
       /\ feed.kind # "CORPUS"
       /\ feed.kind = "BINANCE" => c.rows = {Klines(c.begun)}
       /\ feed.kind = "STANDARD" => c.rows = {StandardRange(DayOf(c.begun), c.begun)}
       /\ feed.kind = "FUTURES" =>
            \A rows \in c.rows : \E contract \in Contracts, t \in c.begun..now :
              contract.ticker = c.contract /\ rows = FuturesSessions(contract, t)

(* Of an accepted series: it has bars in order that have closed; one that  *)
(* is not whole is the last of a klines answer; it is fresh.               *)
Typed(s) ==
  /\ s.bars \in Seq(Bars) /\ Increasing(s.bars)
  /\ \A i \in DOMAIN s.bars : s.bars[i].open < s.bars[i].close /\ s.bars[i].close <= now

Closed(s) ==
  \A i \in DOMAIN s.bars :
    ~s.bars[i].whole =>
      /\ feed.kind = "BINANCE" /\ i = Len(s.bars)
      /\ s.begun <= s.bars[i].close /\ s.bars[i].close < now

Fresh(s) ==
  \A d \in 0..(Days - 1) :
    /\ HasBar(d) /\ (d + 1) * Day <= DayOf(s.begun) * Day
    /\ feed.kind = "STANDARD" => d >= DayOf(s.begun) - 1 - History
    /\ feed.kind = "FUTURES" => Len(s.bars) < SessionLimit
                                /\ \E c \in Contracts : c.ticker = s.contract /\ d <= c.expiry
    => s.bars # <<>> /\ Final(s.bars).open >= OpenOf(d)

SeriesInv == \A s \in series : Typed(s) /\ Closed(s) /\ Fresh(s)

MarketInv ==
  /\ feed \in Feeds /\ missing \subseteq 0..(Days - 1) /\ now \in 0..(Days * Day)
  /\ CallInv /\ SeriesInv

-----------------------------------------------------------------------------
(* What is accepted                                                        *)

(* In a series in ascending order no bar opens after the last one.         *)
LEMMA FinalIsLatest ==
  ASSUME NEW bars \in Seq(Bars), Increasing(bars), NEW i \in 1..Len(bars)
  PROVE  bars # <<>> /\ Final(bars) = bars[Len(bars)] /\ bars[i].open <= Final(bars).open
<1> DEFINE n == Len(bars)
           T == {j \in Nat : j < n => bars[n - j].open <= bars[n].open}
<1>1. n \in Nat /\ n >= 1 /\ \A k \in 1..n : bars[k].open \in Int
  <2>1. n \in Nat /\ \A k \in 1..n : bars[k] \in Bars
    BY Members
  <2>2. QED
    BY <2>1 DEF Bars
<1>2. 0 \in T
  BY <1>1
<1>3. ASSUME NEW j \in Nat, j \in T PROVE j + 1 \in T
  <2>1. CASE j + 1 < n
    <3> DEFINE k == n - (j + 1)
    <3>1. k \in 1..(n - 1) /\ k + 1 = n - j
      BY <2>1, <1>1
    <3>2. bars[k].open < bars[k + 1].open
      BY <3>1 DEF Increasing
    <3>3. bars[k + 1].open <= bars[n].open
      BY <3>1, <2>1, <1>1, <1>3
    <3>4. bars[k].open \in Int /\ bars[k + 1].open \in Int /\ bars[n].open \in Int
      BY <3>1, <1>1
    <3>5. bars[k].open <= bars[n].open
      BY <3>2, <3>3, <3>4
    <3>6. QED
      BY <3>5
  <2>2. CASE ~(j + 1 < n)
    BY <2>2
  <2>3. QED
    BY <2>1, <2>2
<1>4. \A j \in Nat : j \in T
  <2> HIDE DEF T
  <2> QED BY <1>2, <1>3, NaturalInduction
<1> DEFINE j == n - i
<1>5. j \in Nat /\ j < n /\ n - j = i
  BY <1>1
<1>6. bars[n - j].open <= bars[n].open
  BY <1>4, <1>5
<1>7. QED
  BY <1>1, <1>5, <1>6 DEF Final

(* A payload is the answer, or the answer with one of its rows again.      *)
Payloads(rows) == {rows} \cup {Append(rows, rows[i]) : i \in DOMAIN rows}

(* A payload has every row of the answer at its place, and no other rows.  *)
LEMMA PayloadRows ==
  ASSUME NEW rows \in Seq(Bars), NEW payload \in Payloads(rows)
  PROVE  /\ payload \in Seq(Bars) /\ Len(rows) <= Len(payload)
         /\ \A i \in 1..Len(payload) : \E j \in 1..Len(rows) : payload[i] = rows[j]
         /\ \A j \in 1..Len(rows) : j \in 1..Len(payload) /\ payload[j] = rows[j]
<1>1. CASE payload = rows
  BY <1>1
<1>2. CASE payload # rows
  <2>1. PICK i \in 1..Len(rows) : payload = Append(rows, rows[i])
    BY <1>2 DEF Payloads
  <2>2. Len(rows) \in Nat /\ \A j \in 1..Len(rows) : rows[j] \in Bars
    BY Members
  <2>3. rows[i] \in Bars
    BY <2>2
  <2>4. payload \in Seq(Bars) /\ Len(payload) = Len(rows) + 1
    BY <2>1, <2>3
  <2>5. \A j \in 1..Len(rows) : payload[j] = rows[j]
    BY <2>1, <2>2
  <2>6. payload[Len(rows) + 1] = rows[i]
    BY <2>1, <2>2
  <2>7. \A k \in 1..Len(payload) : k \in 1..Len(rows) \/ k = Len(rows) + 1
    BY <2>2, <2>4
  <2>8. QED
    BY <2>2, <2>4, <2>5, <2>6, <2>7
<1>3. QED
  BY <1>1, <1>2

Answered(c, bars) == [begun |-> c.begun, contract |-> c.contract, bars |-> bars]

(* What a parsed payload has: rows of the answer that passed the filter,   *)
(* and every one that did.                                                 *)
LEMMA Filtered ==
  ASSUME NEW rows \in Seq(Bars), NEW payload \in Payloads(rows), NEW P \in SUBSET DOMAIN payload
  PROVE  /\ Only(payload, P) \in Seq(Bars)
         /\ Len(Only(payload, P)) = Cardinality(P)
         /\ DOMAIN Only(payload, P) = 1..Len(Only(payload, P))
         /\ \A k \in DOMAIN Only(payload, P) : \E i \in P : Only(payload, P)[k] = payload[i]
         /\ \A k \in DOMAIN Only(payload, P) :
              \E j \in 1..Len(rows) : Only(payload, P)[k] = rows[j]
         /\ \A i \in P : \E k \in DOMAIN Only(payload, P) : Only(payload, P)[k] = payload[i]
<1> DEFINE bars == Only(payload, P)
<1>1. /\ payload \in Seq(Bars)
      /\ \A i \in 1..Len(payload) : \E j \in 1..Len(rows) : payload[i] = rows[j]
  BY PayloadRows
<1>2. P \subseteq 1..Len(payload)
  BY <1>1, Places
<1>3. /\ bars \in Seq(Bars) /\ Len(bars) = Cardinality(P)
      /\ \A k \in DOMAIN bars : \E i \in P : bars[k] = payload[i]
      /\ \A i \in P : \E k \in DOMAIN bars : bars[k] = payload[i]
  BY <1>1, OnlyThese
<1> HIDE DEF bars
<1>4. DOMAIN bars = 1..Len(bars)
  BY <1>3, Members
<1>5. ASSUME NEW k \in DOMAIN bars PROVE \E j \in 1..Len(rows) : bars[k] = rows[j]
  <2>1. PICK i \in P : bars[k] = payload[i]
    BY <1>3
  <2>2. i \in 1..Len(payload)
    BY <1>2
  <2>3. QED
    BY <2>1, <2>2, <1>1
<1>6. QED
  BY <1>3, <1>4, <1>5 DEF bars

(* The facts about a call that all sources share.                          *)
LEMMA CallFacts ==
  ASSUME MarketInv, NEW c \in call
  PROVE  /\ c \in Asked /\ c.begun \in Nat /\ now \in Nat /\ c.begun <= now
         /\ DayOf(c.begun) \in Nat /\ DayOf(c.begun) * Day <= c.begun
         /\ c.begun < (DayOf(c.begun) + 1) * Day
<1>1. c \in Asked /\ c.begun \in {now - 1, now}
  BY DEF MarketInv, CallInv
<1>2. c.begun \in Nat
  BY <1>1 DEF Asked
<1>3. now \in Nat
  BY Constants DEF MarketInv, Day
<1>4. c.begun <= now
  BY <1>1, <1>3
<1> DEFINE b == c.begun
<1> HIDE DEF b
<1>5. b \in Nat => DayOf(b) \in Nat /\ DayOf(b) * Day <= b /\ b < (DayOf(b) + 1) * Day
  BY DEF DayOf, Day
<1>6. QED
  BY <1>1, <1>2, <1>3, <1>4, <1>5 DEF b

(* A klines answer.                                                        *)
LEMMA KlinesAccepted ==
  ASSUME MarketInv, feed.kind = "BINANCE", NEW c \in call, NEW rows \in c.rows,
         NEW payload \in Payloads(rows), NEW bars \in Accepted(c, payload)
  PROVE  Typed(Answered(c, bars)) /\ Closed(Answered(c, bars)) /\ Fresh(Answered(c, bars))
<1> DEFINE kept == {i \in DOMAIN payload : payload[i].close < now}
           t == c.begun
<1>1. Increasing(bars) /\ bars = Only(payload, kept)
  BY DEF Accepted, ParseKlines
<1>2. t \in Nat /\ now \in Nat /\ t <= now /\ DayOf(t) \in Nat /\ DayOf(t) * Day <= t
  BY CallFacts
<1>3. rows = Klines(t)
  BY DEF MarketInv, CallInv
<1> HIDE DEF t
<1>4. /\ rows \in Seq(Bars)
      /\ \A i \in 1..Len(rows) : \E d \in 0..(Days - 1) : d * Day <= t /\ rows[i] = BarAt(d, t)
      /\ \A d \in 0..(Days - 1), n \in Nat :
           HasBar(d) /\ (d + 1) * Day <= t /\ t <= n =>
             \E i \in 1..Len(rows) : rows[i].open >= OpenOf(d) /\ rows[i].close < n
  BY <1>2, <1>3, KlineBars
<1>5. /\ bars \in Seq(Bars) /\ DOMAIN bars = 1..Len(bars)
      /\ \A k \in 1..Len(bars) : \E i \in kept : bars[k] = payload[i]
      /\ \A k \in 1..Len(bars) : \E j \in 1..Len(rows) : bars[k] = rows[j]
      /\ \A i \in kept : \E k \in 1..Len(bars) : bars[k] = payload[i]
  <2>1. kept \in SUBSET DOMAIN payload
    OBVIOUS
  <2>2. rows \in Seq(Bars)
    BY <1>4
  <2> DEFINE o == Only(payload, kept)
  <2> HIDE DEF kept
  <2>3. /\ o \in Seq(Bars) /\ DOMAIN o = 1..Len(o)
        /\ \A k \in DOMAIN o : \E i \in kept : o[k] = payload[i]
        /\ \A k \in DOMAIN o : \E j \in 1..Len(rows) : o[k] = rows[j]
        /\ \A i \in kept : \E k \in DOMAIN o : o[k] = payload[i]
    BY <2>1, <2>2, Filtered
  <2>4. bars = o
    BY <1>1
  <2> HIDE DEF o
  <2>5. QED
    BY <2>3, <2>4
<1>6. ASSUME NEW k \in 1..Len(bars)
      PROVE  /\ bars[k].close < now
             /\ \E d \in 0..(Days - 1) : d * Day <= t /\ bars[k] = BarAt(d, t)
  BY <1>4, <1>5
<1>7. Typed(Answered(c, bars))
  <2>1. ASSUME NEW k \in 1..Len(bars)
        PROVE  bars[k].open < bars[k].close /\ bars[k].close <= now
    <3>1. PICK d \in 0..(Days - 1) : bars[k] = BarAt(d, t)
      BY <1>6
    <3>2. bars[k].open < bars[k].close /\ bars[k].close \in Nat
      BY <3>1, <1>2, BarOfDay
    <3>3. QED
      BY <3>2, <1>6, <1>2
  <2>2. QED
    BY <2>1, <1>1, <1>5 DEF Typed, Answered
<1>8. Closed(Answered(c, bars))
  <2>1. ASSUME NEW k \in 1..Len(bars), ~bars[k].whole
        PROVE  k = Len(bars) /\ t <= bars[k].close /\ bars[k].close < now
    <3>1. PICK d \in 0..(Days - 1) : d * Day <= t /\ bars[k] = BarAt(d, t)
      BY <1>6
    <3>2. d \in Nat /\ t < (d + 1) * Day
      BY <3>1, <2>1, <1>2, BarOfDay, Constants DEF Day
    <3>3. bars[k].close = (d + 1) * Day - 1 /\ bars[k].open = d * Day
      BY <3>1, <1>2, BarOfDay
    <3>4. t <= bars[k].close
      BY <3>2, <3>3, <1>2 DEF Day
    <3>5. CASE k < Len(bars)
      <4>1. k \in 1..(Len(bars) - 1) /\ k + 1 \in 1..Len(bars)
        BY <3>5, <1>5, Members
      <4>2. bars[k].open < bars[k + 1].open
        BY <4>1, <1>1 DEF Increasing
      <4>3. PICK e \in 0..(Days - 1) : e * Day <= t /\ bars[k + 1] = BarAt(e, t)
        BY <4>1, <1>6
      <4>4. bars[k + 1].open = e * Day /\ e \in Nat
        BY <4>3, <1>2, BarOfDay, Constants
      <4>5. QED
        BY <4>2, <4>3, <4>4, <3>2, <3>3, <1>2 DEF Day
    <3>6. Len(bars) \in Nat
      BY <1>5, Members
    <3>7. QED
      BY <3>4, <3>5, <3>6, <1>6
  <2>2. QED
    BY <2>1, <1>5 DEF Closed, Answered, t
<1>9. Fresh(Answered(c, bars))
  <2>1. ASSUME NEW d \in 0..(Days - 1), HasBar(d), (d + 1) * Day <= DayOf(t) * Day
        PROVE  bars # <<>> /\ Final(bars).open >= OpenOf(d)
    <3>1. (d + 1) * Day <= t
      BY <2>1, <1>2, Constants DEF Day
    <3>2. PICK j \in 1..Len(rows) : rows[j].open >= OpenOf(d) /\ rows[j].close < now
      BY <3>1, <2>1, <1>2, <1>4
    <3>3. j \in DOMAIN payload /\ payload[j] = rows[j]
      <4>1. j \in 1..Len(payload) /\ payload[j] = rows[j] /\ payload \in Seq(Bars)
        BY <1>4, PayloadRows
      <4>2. QED
        BY <4>1, Members
    <3>4. j \in kept
      BY <3>2, <3>3
    <3>5. PICK k \in 1..Len(bars) : bars[k] = payload[j]
      BY <3>4, <1>5
    <3>6. bars # <<>> /\ bars[k].open <= Final(bars).open /\ Final(bars) = bars[Len(bars)]
      BY <1>1, <1>5, FinalIsLatest
    <3>7. Final(bars) \in Bars /\ bars[k] \in Bars
      <4>1. Len(bars) \in 1..Len(bars)
        BY <1>5, Members
      <4>2. QED
        BY <4>1, <3>6, <1>5, Members
    <3>8. Final(bars).open \in Int /\ bars[k].open \in Int /\ OpenOf(d) \in Int
      BY <3>7, <1>2, BarOfDay DEF Bars
    <3>9. OpenOf(d) <= bars[k].open
      BY <3>2, <3>3, <3>5
    <3>10. QED
      BY <3>6, <3>8, <3>9
  <2>2. QED
    BY <2>1 DEF Fresh, Answered, t
<1>10. QED
  BY <1>7, <1>8, <1>9

(* A series that has a bar that opens no earlier than d is fresh up to d.  *)
LEMMA FreshUpTo ==
  ASSUME NEW bars \in Seq(Bars), Increasing(bars), NEW k \in 1..Len(bars), NEW x \in Int,
         x <= bars[k].open
  PROVE  bars # <<>> /\ Final(bars).open >= x
<1>1. bars # <<>> /\ bars[k].open <= Final(bars).open /\ Final(bars) = bars[Len(bars)]
  BY FinalIsLatest
<1>2. Len(bars) \in 1..Len(bars) /\ \A i \in 1..Len(bars) : bars[i] \in Bars
  BY Members
<1>3. Final(bars).open \in Int /\ bars[k].open \in Int
  BY <1>1, <1>2 DEF Bars
<1>4. QED
  BY <1>1, <1>3

(* An answer of the standard aggregates.                                   *)
LEMMA AggregatesAccepted ==
  ASSUME MarketInv, feed.kind = "STANDARD", NEW c \in call, NEW rows \in c.rows,
         NEW payload \in Payloads(rows), NEW bars \in Accepted(c, payload)
  PROVE  Typed(Answered(c, bars)) /\ Closed(Answered(c, bars)) /\ Fresh(Answered(c, bars))
<1> DEFINE t == c.begun
           today == DayOf(t)
           S == {d \in (today - 1 - History)..(today - 1) : HasBar(d)}
<1>1. Increasing(bars) /\ bars = payload
  BY DEF Accepted
<1>2. t \in Nat /\ now \in Nat /\ t <= now /\ today \in Nat /\ today * Day <= t
  BY CallFacts
<1>3. rows = BarsOf(InOrder(S), t)
  BY DEF MarketInv, CallInv, StandardRange
<1>4. \A d \in S : d <= today - 1
  OBVIOUS
<1>5. \A d \in 0..(Days - 1) :
        HasBar(d) /\ (d + 1) * Day <= today * Day /\ d >= today - 1 - History => d \in S
  BY <1>2, Constants DEF Day
<1> HIDE DEF S, t
<1>6. /\ rows \in Seq(Bars)
      /\ \A i \in 1..Len(rows) : \E d \in 0..(Days - 1) : d \in S /\ rows[i] = BarAt(d, t)
      /\ \A d \in 0..(Days - 1) : d \in S => \E i \in 1..Len(rows) : rows[i] = BarAt(d, t)
  BY <1>2, <1>3, ListedBars
<1>7. /\ payload \in Seq(Bars) /\ DOMAIN payload = 1..Len(payload)
      /\ \A i \in 1..Len(payload) : \E j \in 1..Len(rows) : payload[i] = rows[j]
      /\ \A j \in 1..Len(rows) : j \in 1..Len(payload) /\ payload[j] = rows[j]
  BY <1>6, PayloadRows, Members
<1>8. ASSUME NEW k \in 1..Len(payload)
      PROVE  payload[k].whole /\ payload[k].open < payload[k].close /\ payload[k].close <= now
  <2>1. PICK j \in 1..Len(rows) : payload[k] = rows[j]
    BY <1>7
  <2>2. PICK d \in 0..(Days - 1) : d \in S /\ rows[j] = BarAt(d, t)
    BY <1>6
  <2>3. d \in Nat /\ d <= today - 1
    BY <2>2, <1>4, Constants
  <2>4. (d + 1) * Day <= t
    BY <2>3, <1>2 DEF Day
  <2>5. /\ payload[k].whole /\ payload[k].open < payload[k].close
        /\ payload[k].close = (d + 1) * Day - 1
    BY <2>1, <2>2, <2>4, <1>2, BarOfDay
  <2>6. (d + 1) * Day - 1 <= now
    BY <2>3, <2>4, <1>2 DEF Day
  <2>7. QED
    BY <2>5, <2>6
<1>9. ASSUME NEW d \in 0..(Days - 1), HasBar(d), (d + 1) * Day <= today * Day,
             d >= today - 1 - History
      PROVE  payload # <<>> /\ Final(payload).open >= OpenOf(d)
  <2>1. PICK j \in 1..Len(rows) : rows[j] = BarAt(d, t)
    BY <1>5, <1>6, <1>9
  <2>2. j \in 1..Len(payload) /\ payload[j] = BarAt(d, t)
    BY <2>1, <1>7
  <2>a. OpenOf(d) \in Int /\ BarAt(d, t).open = OpenOf(d)
    BY <1>2, BarOfDay
  <2>3. OpenOf(d) <= payload[j].open
    BY <2>2, <2>a
  <2>4. Increasing(payload)
    BY <1>1
  <2>5. QED
    BY <2>2, <2>a, <2>3, <2>4, <1>7, FreshUpTo
<1>10. Typed(Answered(c, bars)) /\ Closed(Answered(c, bars))
  BY <1>1, <1>7, <1>8 DEF Typed, Closed, Answered
<1>11. Fresh(Answered(c, bars))
  BY <1>1, <1>9 DEF Fresh, Answered, t
<1>12. QED
  BY <1>10, <1>11

(* An answer of a futures request.                                         *)
LEMMA SessionsAccepted ==
  ASSUME MarketInv, feed.kind = "FUTURES", NEW c \in call, NEW rows \in c.rows,
         NEW payload \in Payloads(rows), NEW bars \in Accepted(c, payload)
  PROVE  Typed(Answered(c, bars)) /\ Closed(Answered(c, bars)) /\ Fresh(Answered(c, bars))
<1> DEFINE t == c.begun
           today == DayOf(t)
           kept == {i \in DOMAIN payload : DayOf(payload[i].close) < today}
<1>1. Increasing(bars) /\ bars = Only(payload, kept)
  BY DEF Accepted, ParseSessions
<1>2. t \in Nat /\ now \in Nat /\ t <= now /\ today \in Nat /\ today * Day <= t
  BY CallFacts
<1>3. PICK contract \in Contracts, at \in t..now :
        contract.ticker = c.contract /\ rows = FuturesSessions(contract, at)
  BY DEF MarketInv, CallInv
<1> HIDE DEF t
<1>4. at \in Nat /\ t <= at
  BY <1>2, <1>3
<1>5. /\ rows \in Seq(Bars)
      /\ \A i \in 1..Len(rows) : \E d \in 0..(Days - 1) : rows[i] = BarAt(d, at)
      /\ \A d \in 0..(Days - 1) :
           HasBar(d) /\ d <= contract.expiry /\ OpenOf(d) <= at =>
             \/ \E i \in 1..Len(rows) : rows[i] = BarAt(d, at)
             \/ /\ Len(rows) = SessionLimit
                /\ \A i \in 1..Len(rows) : rows[i].close < CloseOf(d)
  BY <1>3, <1>4, SessionBars
<1>6. /\ bars \in Seq(Bars) /\ DOMAIN bars = 1..Len(bars) /\ Len(bars) = Cardinality(kept)
      /\ \A k \in 1..Len(bars) : \E i \in kept : bars[k] = payload[i]
      /\ \A i \in kept : \E k \in 1..Len(bars) : bars[k] = payload[i]
  <2>1. kept \in SUBSET DOMAIN payload
    OBVIOUS
  <2>2. rows \in Seq(Bars)
    BY <1>5
  <2> DEFINE o == Only(payload, kept)
  <2> HIDE DEF kept
  <2>3. /\ o \in Seq(Bars) /\ DOMAIN o = 1..Len(o) /\ Len(o) = Cardinality(kept)
        /\ \A k \in DOMAIN o : \E i \in kept : o[k] = payload[i]
        /\ \A i \in kept : \E k \in DOMAIN o : o[k] = payload[i]
    BY <2>1, <2>2, Filtered
  <2>4. bars = o
    BY <1>1
  <2> HIDE DEF o
  <2>5. QED
    BY <2>3, <2>4
<1>7. /\ payload \in Seq(Bars) /\ DOMAIN payload = 1..Len(payload) /\ Len(payload) \in Nat
      /\ Len(rows) \in Nat /\ Len(rows) <= Len(payload)
      /\ \A i \in 1..Len(payload) : \E j \in 1..Len(rows) : payload[i] = rows[j]
      /\ \A j \in 1..Len(rows) : j \in 1..Len(payload) /\ payload[j] = rows[j]
  BY <1>5, PayloadRows, Members
<1>8. ASSUME NEW d \in 0..(Days - 1)
      PROVE  /\ d \in Nat /\ CloseOf(d) = (d + 1) * Day - 1 /\ CloseOf(d) \in Nat
             /\ BarAt(d, at).close = CloseOf(d) /\ DayOf(CloseOf(d)) = d
  <2>1. d \in Nat /\ CloseOf(d) = (d + 1) * Day - 1 /\ BarAt(d, at).close = CloseOf(d)
    BY <1>4, BarOfDay, Constants
  <2>2. DayOf((d + 1) * Day - 1) = d /\ (d + 1) * Day - 1 \in Nat
    BY <2>1 DEF DayOf, Day
  <2>3. QED
    BY <2>1, <2>2
<1>9. ASSUME NEW i \in kept
      PROVE  payload[i].whole /\ payload[i].open < payload[i].close /\ payload[i].close <= now
  <2>1. i \in 1..Len(payload) /\ DayOf(payload[i].close) < today
    BY <1>7
  <2>2. PICK d \in 0..(Days - 1) : payload[i] = BarAt(d, at)
    BY <2>1, <1>5, <1>7
  <2>3. d \in Nat /\ d < today
    BY <2>1, <2>2, <1>8
  <2>4. (d + 1) * Day <= at /\ (d + 1) * Day - 1 <= now
    BY <2>3, <1>2, <1>4 DEF Day
  <2>5. QED
    BY <2>2, <2>4, <1>4, <1>8, BarOfDay
<1>10. Typed(Answered(c, bars)) /\ Closed(Answered(c, bars))
  <2>1. \A k \in 1..Len(bars) :
          bars[k].whole /\ bars[k].open < bars[k].close /\ bars[k].close <= now
    BY <1>6, <1>9
  <2> HIDE DEF kept
  <2>2. QED
    BY <2>1, <1>1, <1>6 DEF Typed, Closed, Answered
<1>11. ASSUME NEW d \in 0..(Days - 1), HasBar(d), (d + 1) * Day <= today * Day,
              Len(bars) < SessionLimit,
              NEW other \in Contracts, other.ticker = c.contract, d <= other.expiry
       PROVE  bars # <<>> /\ Final(bars).open >= OpenOf(d)
  <2>1. other = contract
    BY <1>3, <1>11, ContractAssumption
  <2>2. /\ OpenOf(d) = d * Day - 1 /\ OpenOf(d) \in Int /\ d \in Nat /\ d < today
        /\ OpenOf(d) <= at
    BY <1>2, <1>4, <1>8, <1>11, BarOfDay DEF Day
  <2>3. CASE \E j \in 1..Len(rows) : rows[j] = BarAt(d, at)
    <3>1. PICK j \in 1..Len(rows) : rows[j] = BarAt(d, at)
      BY <2>3
    <3>2. j \in DOMAIN payload /\ payload[j].open = OpenOf(d) /\ DayOf(payload[j].close) = d
      BY <3>1, <1>4, <1>7, <1>8, BarOfDay
    <3>3. j \in kept
      BY <3>2, <2>2
    <3>4. PICK k \in 1..Len(bars) : bars[k] = payload[j]
      BY <3>3, <1>6
    <3>5. OpenOf(d) <= bars[k].open
      BY <3>2, <3>4, <2>2
    <3>6. QED
      BY <3>5, <2>2, <1>1, <1>6, FreshUpTo
  <2>4. CASE Len(rows) = SessionLimit /\ \A j \in 1..Len(rows) : rows[j].close < CloseOf(d)
    <3>1. ASSUME NEW j \in 1..Len(rows) PROVE j \in kept
      <4>1. PICK e \in 0..(Days - 1) : rows[j] = BarAt(e, at)
        BY <1>5
      <4>2. e \in Nat /\ CloseOf(e) < CloseOf(d) /\ payload[j].close = CloseOf(e)
        BY <4>1, <2>4, <1>7, <1>8
      <4>3. e < today
        BY <4>2, <2>2, <1>2, <1>8 DEF Day
      <4>4. DayOf(payload[j].close) < today
        BY <4>2, <4>3, <1>8
      <4>5. QED
        BY <4>4, <1>7
    <3>2. 1..Len(rows) \subseteq kept
      BY <3>1
    <3>3. IsFiniteSet(kept)
      BY <1>7, Places
    <3> DEFINE n == Len(rows)
    <3> HIDE DEF n, kept
    <3>4. n \in Nat /\ 1..n \subseteq kept
      BY <3>2, <1>7 DEF n
    <3>5. Len(rows) <= Cardinality(kept)
      <4>1. Cardinality(1..n) = n
        BY <3>4, FS_Interval
      <4>2. Cardinality(1..n) <= Cardinality(kept)
        BY <3>3, <3>4, FS_Subset
      <4>3. QED
        BY <4>1, <4>2 DEF n
    <3>6. Len(bars) \in Nat
      BY <1>6, Members
    <3>7. QED
      BY <3>5, <3>6, <2>4, <1>6, <1>7, <1>11
  <2>5. QED
    BY <2>1, <2>2, <2>3, <2>4, <1>5, <1>11
<1>12. Fresh(Answered(c, bars))
  <2> HIDE DEF kept
  <2> QED BY <1>11 DEF Fresh, Answered, t
<1>13. QED
  BY <1>10, <1>12

-----------------------------------------------------------------------------
(* The steps                                                               *)

(* The calendar of a source does not change, and with it nothing that the  *)
(* source would have answered.                                             *)
LEMMA Steady ==
  ASSUME feed' = feed, missing' = missing
  PROVE  /\ \A t : Klines(t)' = Klines(t)
         /\ \A today, t : StandardRange(today, t)' = StandardRange(today, t)
         /\ \A contract, t : FuturesSessions(contract, t)' = FuturesSessions(contract, t)
         /\ \A d : HasBar(d)' = HasBar(d) /\ OpenOf(d)' = OpenOf(d)
BY DEF Klines, StandardRange, FuturesSessions, HasBar, Trades, OpenOf, BarsOf, BarAt, CloseOf

(* What is said of a series stays true while the clock goes on.            *)
LEMMA SeriesKept ==
  ASSUME feed' = feed, missing' = missing, now \in Nat, now' \in Nat, now <= now',
         NEW s, Typed(s), Closed(s), Fresh(s)
  PROVE  Typed(s)' /\ Closed(s)' /\ Fresh(s)'
<1>1. ASSUME NEW i \in DOMAIN s.bars PROVE s.bars[i].close \in Nat
  <2>1. s.bars \in Seq(Bars)
    BY DEF Typed
  <2>2. s.bars[i] \in Bars
    BY <2>1, Members
  <2>3. QED
    BY <2>2, Constants DEF Bars, Day
<1>2. Typed(s)'
  <2>1. \A i \in DOMAIN s.bars : s.bars[i].close <= now'
    BY <1>1 DEF Typed
  <2>2. QED
    BY <2>1 DEF Typed
<1>3. Closed(s)'
  <2>1. \A i \in DOMAIN s.bars : s.bars[i].close < now => s.bars[i].close < now'
    BY <1>1
  <2>2. QED
    BY <2>1 DEF Closed
<1>4. Fresh(s)'
  BY Steady DEF Fresh
<1>5. QED
  BY <1>2, <1>3, <1>4

(* A step that leaves the series alone.                                    *)
LEMMA SeriesInvKept ==
  ASSUME MarketInv, feed' = feed, missing' = missing, now' \in 0..(Days * Day), now <= now',
         series' = series
  PROVE  SeriesInv'
<1>1. now \in Nat /\ now' \in Nat
  BY Constants DEF MarketInv, Day
<1>2. ASSUME NEW s \in series' PROVE Typed(s)' /\ Closed(s)' /\ Fresh(s)'
  BY <1>1, SeriesKept DEF MarketInv, SeriesInv
<1>3. QED
  BY <1>2 DEF SeriesInv

(* A step that leaves no call, or none but those there were.               *)
LEMMA CallInvKept ==
  ASSUME MarketInv, feed' = feed, missing' = missing, call' \subseteq call,
         \/ now' = now
         \/ now' = now + 1 /\ \A c \in call : now = c.begun
  PROVE  CallInv'
<1>1. now \in Nat
  BY Constants DEF MarketInv, Day
<1>2. ASSUME NEW c \in call'
      PROVE  /\ c.begun \in {now' - 1, now'}
             /\ \A other \in call' : other = c
             /\ feed.kind # "CORPUS"
             /\ feed.kind = "BINANCE" => c.rows = {Klines(c.begun)}
             /\ feed.kind = "STANDARD" => c.rows = {StandardRange(DayOf(c.begun), c.begun)}
             /\ feed.kind = "FUTURES" =>
                  \A rows \in c.rows : \E contract \in Contracts, t \in c.begun..now' :
                    contract.ticker = c.contract /\ rows = FuturesSessions(contract, t)
  <2>1. c \in call /\ c.begun \in Nat
    BY CallFacts
  <2>2. c.begun \in {now' - 1, now'} /\ c.begun..now \subseteq c.begun..now'
    BY <1>1, <2>1 DEF MarketInv, CallInv
  <2>3. QED
    BY <2>1, <2>2 DEF MarketInv, CallInv
<1>3. call' \in SUBSET Asked
  BY DEF MarketInv, CallInv
<1>4. QED
  BY <1>2, <1>3, Steady DEF CallInv

(* At the beginning there is neither a call nor a series.                  *)
LEMMA InitMarketInv == Init => MarketInv
<1> SUFFICES ASSUME Init PROVE MarketInv
  OBVIOUS
<1>1. call = {} /\ series = {} /\ now = 0 /\ feed \in Feeds /\ missing \subseteq 0..(Days - 1)
  BY SeriesAssumption DEF Init
<1>2. now \in 0..(Days * Day)
  BY <1>1, Constants DEF Day
<1>3. CallInv /\ SeriesInv
  BY <1>1 DEF CallInv, SeriesInv
<1>4. QED
  BY <1>1, <1>2, <1>3 DEF MarketInv

(* What a source may be asked for, and what it answers, are of the right   *)
(* types.                                                                  *)
LEMMA AnswerTypes ==
  ASSUME NEW t \in Nat
  PROVE  /\ feed.kind = "BINANCE" => Klines(t) \in Seq(Bars)
         /\ StandardRange(DayOf(t), t) \in Seq(Bars)
         /\ feed.kind = "FUTURES" =>
              \A contract \in Contracts : FuturesSessions(contract, t) \in Seq(Bars)
<1>1. StandardRange(DayOf(t), t) \in Seq(Bars)
  BY ListedBars DEF StandardRange
<1>2. QED
  BY <1>1, KlineBars, SessionBars

(* The clock shows a number.                                               *)
LEMMA Clock == MarketInv => now \in Nat /\ now \in 0..(Days * Day)
BY Constants DEF MarketInv, Day

(* Asking puts the answer of this moment in flight.                        *)
LEMMA AskKeeps == MarketInv /\ Ask => CallInv'
<1> SUFFICES ASSUME MarketInv, Ask PROVE CallInv'
  OBVIOUS
<1>1. PICK answer : answer = IF feed.kind = "BINANCE" THEN Klines(now)
                            ELSE StandardRange(DayOf(now), now)
  OBVIOUS
<1>2. PICK new : new = [begun |-> now, contract |-> "none", rows |-> {answer}]
  OBVIOUS
<1>3. call' = {new} /\ feed.kind \in {"BINANCE", "STANDARD"}
  BY <1>1, <1>2 DEF Ask
<1>4. feed' = feed /\ missing' = missing /\ now' = now /\ now \in Nat
  BY Clock DEF Ask
<1>5. answer \in Seq(Bars)
  BY <1>1, <1>3, <1>4, AnswerTypes
<1>6. new \in Asked
  <2>1. {answer} \in SUBSET Seq(Bars)
    BY <1>5
  <2>2. "none" \in Tickers
    BY DEF Tickers
  <2>3. QED
    BY <2>1, <2>2, <1>2, <1>4 DEF Asked
<1>7. new.begun = now /\ new.rows = {answer}
  BY <1>2
<1>8. /\ feed.kind = "BINANCE" => new.rows = {Klines(new.begun)}
      /\ feed.kind = "STANDARD" => new.rows = {StandardRange(DayOf(new.begun), new.begun)}
      /\ feed.kind # "FUTURES" /\ feed.kind # "CORPUS"
  BY <1>1, <1>3, <1>7
<1>9. new.begun \in {now' - 1, now'}
  BY <1>4, <1>7
<1>10. QED
  BY <1>3, <1>4, <1>6, <1>8, <1>9, Steady DEF CallInv

(* Selecting a contract puts a request without an answer in flight.        *)
LEMMA SelectContractKeeps == MarketInv /\ SelectContract => CallInv'
<1> SUFFICES ASSUME MarketInv, SelectContract PROVE CallInv'
  OBVIOUS
<1>1. PICK c \in SelectGoldContract(DayOf(now)) :
        call' = {[begun |-> now, contract |-> c.ticker, rows |-> {}]}
  BY DEF SelectContract
<1> DEFINE new == [begun |-> now, contract |-> c.ticker, rows |-> {}]
<1>2. /\ feed.kind = "FUTURES" /\ call' = {new}
      /\ feed' = feed /\ missing' = missing /\ now' = now /\ now \in Nat
  BY <1>1, Clock DEF SelectContract
<1>3. c.ticker \in Tickers
  BY DEF SelectGoldContract, Tickers
<1>4. new \in Asked /\ new.rows = {} /\ new.begun \in {now' - 1, now'}
  BY <1>2, <1>3 DEF Asked
<1> HIDE DEF new
<1>5. QED
  BY <1>2, <1>4 DEF CallInv

(* The second call of a futures request brings its sessions.               *)
LEMMA FetchSessionsKeeps == MarketInv /\ FetchSessions => CallInv'
<1> SUFFICES ASSUME MarketInv, FetchSessions PROVE CallInv'
  OBVIOUS
<1>1. PICK c \in call, contract \in Contracts :
        /\ c.rows = {} /\ contract.ticker = c.contract
        /\ call' = {[c EXCEPT !.rows = {FuturesSessions(contract, now)}]}
        /\ UNCHANGED <<feed, missing, now, series>>
  BY DEF FetchSessions
<1>2. c \in Asked /\ c.begun \in Nat /\ now \in Nat /\ c.begun <= now
  BY CallFacts
<1>3. feed.kind = "FUTURES" /\ c.begun \in {now - 1, now}
  <2>1. feed.kind \in {"BINANCE", "STANDARD", "FUTURES"}
    BY SeriesAssumption DEF MarketInv, CallInv, Kinds
  <2>2. QED
    BY <1>1, <2>1 DEF MarketInv, CallInv
<1>4. PICK sessions : sessions = FuturesSessions(contract, now)
  OBVIOUS
<1>5. sessions \in Seq(Bars)
  BY <1>2, <1>3, <1>4, AnswerTypes
<1>6. PICK new : new = [c EXCEPT !.rows = {sessions}]
  OBVIOUS
<1>7. /\ new \in Asked /\ new.begun = c.begun /\ new.contract = c.contract
      /\ new.rows = {sessions}
  BY <1>2, <1>5, <1>6 DEF Asked
<1>8. call' = {new} /\ feed' = feed /\ missing' = missing /\ now' = now
  BY <1>1, <1>4, <1>6
<1>9. FuturesSessions(contract, now) = sessions /\ now \in new.begun..now
  BY <1>2, <1>4, <1>7
<1>10. \A rows \in new.rows : \E k \in Contracts, t \in new.begun..now :
         k.ticker = new.contract /\ rows = FuturesSessions(k, t)
  BY <1>1, <1>7, <1>9
<1>11. QED
  BY <1>3, <1>7, <1>8, <1>10, Steady DEF CallInv

(* A delivered payload leaves a series with the promised properties.       *)
LEMMA DeliverKeeps == MarketInv /\ Deliver => CallInv' /\ SeriesInv'
<1> SUFFICES ASSUME MarketInv, Deliver PROVE CallInv' /\ SeriesInv'
  OBVIOUS
<1>1. PICK c \in call, rows \in UNION {call0.rows : call0 \in call} :
        \E payload \in {rows} \cup {Append(rows, rows[i]) : i \in DOMAIN rows} :
          /\ call' = {}
          /\ series' = IF Accepted(c, payload) = {} THEN series
                       ELSE {[begun |-> c.begun, contract |-> c.contract, bars |-> bars] :
                               bars \in Accepted(c, payload)}
          /\ UNCHANGED <<feed, missing, now>>
  BY DEF Deliver
<1>2. PICK payload \in Payloads(rows) :
        /\ call' = {}
        /\ series' = IF Accepted(c, payload) = {} THEN series
                     ELSE {Answered(c, bars) : bars \in Accepted(c, payload)}
        /\ feed' = feed /\ missing' = missing /\ now' = now
  BY <1>1 DEF Payloads, Answered
<1>3. rows \in c.rows
  BY <1>1 DEF MarketInv, CallInv
<1>4. now \in Nat /\ now \in 0..(Days * Day)
  BY CallFacts DEF MarketInv
<1>5. CallInv'
  BY <1>2, CallInvKept
<1>6. SeriesInv'
  <2>1. CASE series' = series
    BY <2>1, <1>2, <1>4, SeriesInvKept
  <2>2. CASE series' # series
    <3> SUFFICES ASSUME NEW s \in series' PROVE Typed(s)' /\ Closed(s)' /\ Fresh(s)'
      BY DEF SeriesInv
    <3>1. PICK bars \in Accepted(c, payload) : s = Answered(c, bars)
      BY <2>2, <1>2
    <3>2. feed.kind \in {"BINANCE", "STANDARD", "FUTURES"}
      BY SeriesAssumption DEF MarketInv, CallInv, Kinds
    <3>3. Typed(s) /\ Closed(s) /\ Fresh(s)
      BY <3>1, <3>2, <1>3, KlinesAccepted, AggregatesAccepted, SessionsAccepted
    <3>4. QED
      BY <3>3, <1>2, <1>4, SeriesKept
  <2>3. QED
    BY <2>1, <2>2
<1>7. QED
  BY <1>5, <1>6

(* A file is read to its last closed day.                                  *)
LEMMA LoadCorpusKeeps == MarketInv /\ LoadCorpus => SeriesInv'
<1> SUFFICES ASSUME MarketInv, LoadCorpus PROVE SeriesInv'
  OBVIOUS
<1> DEFINE S == {d \in 0..(Days - 1) : HasBar(d) /\ (d + 1) * Day <= now}
<1>1. PICK rows : rows = BarsOf(InOrder(S), now)
  OBVIOUS
<1>2. PICK new : new = [begun |-> now, contract |-> "none", bars |-> rows]
  OBVIOUS
<1>3. series' = {new}
  BY <1>1, <1>2 DEF LoadCorpus, CorpusRows
<1>4. feed.kind = "CORPUS" /\ now' = now /\ feed' = feed /\ missing' = missing
  BY DEF LoadCorpus
<1>5. now \in Nat
  BY Clock
<1>6. /\ \A d \in S : (d + 1) * Day <= now
      /\ \A d \in 0..(Days - 1) : HasBar(d) /\ (d + 1) * Day <= now => d \in S
  OBVIOUS
<1> HIDE DEF S
<1>7. /\ rows \in Seq(Bars) /\ Increasing(rows)
      /\ \A i \in 1..Len(rows) : \E d \in 0..(Days - 1) : d \in S /\ rows[i] = BarAt(d, now)
      /\ \A d \in 0..(Days - 1) : d \in S => \E i \in 1..Len(rows) : rows[i] = BarAt(d, now)
  BY <1>1, <1>5, ListedBars
<1>8. DOMAIN rows = 1..Len(rows)
  BY <1>7, Members
<1>9. ASSUME NEW i \in 1..Len(rows)
      PROVE  rows[i].whole /\ rows[i].open < rows[i].close /\ rows[i].close <= now
  <2>1. PICK d \in 0..(Days - 1) : d \in S /\ rows[i] = BarAt(d, now)
    BY <1>7
  <2>2. (d + 1) * Day <= now /\ d \in Nat
    BY <2>1, <1>6, Constants
  <2>3. /\ rows[i].whole /\ rows[i].open < rows[i].close /\ rows[i].close <= (d + 1) * Day
        /\ rows[i].close \in Nat
    BY <2>1, <2>2, <1>5, BarOfDay
  <2>4. QED
    BY <2>2, <2>3, <1>5 DEF Day
<1>10. ASSUME NEW d \in 0..(Days - 1), HasBar(d), (d + 1) * Day <= DayOf(now) * Day
       PROVE  rows # <<>> /\ Final(rows).open >= OpenOf(d)
  <2>1. (d + 1) * Day <= now
    <3>1. DayOf(now) * Day <= now /\ DayOf(now) \in Nat
      BY <1>5 DEF DayOf, Day
    <3>2. QED
      BY <3>1, <1>5, <1>10, Constants DEF Day
  <2>2. PICK i \in 1..Len(rows) : rows[i] = BarAt(d, now)
    BY <2>1, <1>6, <1>7, <1>10
  <2>3. OpenOf(d) \in Int /\ OpenOf(d) <= rows[i].open
    BY <2>2, <1>5, BarOfDay
  <2>4. QED
    BY <2>3, <1>7, FreshUpTo
<1>11. new.bars = rows /\ new.begun = now
  BY <1>2
<1>12. Typed(new) /\ Closed(new)
  BY <1>7, <1>8, <1>9, <1>11 DEF Typed, Closed
<1>13. Fresh(new)
  BY <1>10, <1>11 DEF Fresh
<1>14. Typed(new)' /\ Closed(new)' /\ Fresh(new)'
  BY <1>4, <1>5, <1>12, <1>13, SeriesKept
<1>15. QED
  BY <1>3, <1>14 DEF SeriesInv

(* The invariant is inductive, and it is one of the specification.         *)
LEMMA MarketInvStep == MarketInv /\ [Next]_vars => MarketInv'
<1> SUFFICES ASSUME MarketInv, [Next]_vars PROVE MarketInv'
  OBVIOUS
<1>1. /\ feed \in Feeds /\ missing \subseteq 0..(Days - 1) /\ now \in 0..(Days * Day)
      /\ now \in Nat
  BY Clock DEF MarketInv
<1>2. CASE Tick
  <2>1. /\ feed' = feed /\ missing' = missing /\ call' = call /\ series' = series
        /\ now' = now + 1 /\ now < Days * Day /\ \A c \in call : now = c.begun
    BY <1>2 DEF Tick
  <2>2. now' \in 0..(Days * Day) /\ now <= now'
    BY <1>1, <2>1, Constants DEF Day
  <2>3. CallInv' /\ SeriesInv'
    BY <2>1, <2>2, CallInvKept, SeriesInvKept
  <2>4. QED
    BY <1>1, <2>1, <2>2, <2>3 DEF MarketInv
<1>3. ASSUME feed' = feed, missing' = missing, now' = now, CallInv', SeriesInv' PROVE MarketInv'
  BY <1>1, <1>3 DEF MarketInv
<1>4. ASSUME feed' = feed, missing' = missing, now' = now, CallInv', series' = series
      PROVE  MarketInv'
  BY <1>1, <1>3, <1>4, SeriesInvKept
<1>5. CASE Ask
  BY <1>4, <1>5, AskKeeps DEF Ask
<1>6. CASE SelectContract
  BY <1>4, <1>6, SelectContractKeeps DEF SelectContract
<1>7. CASE FetchSessions
  BY <1>4, <1>7, FetchSessionsKeeps DEF FetchSessions
<1>8. CASE Deliver
  BY <1>3, <1>8, DeliverKeeps DEF Deliver
<1>9. CASE GiveUp
  <2>1. /\ feed' = feed /\ missing' = missing /\ now' = now /\ series' = series
        /\ call' \subseteq call
    BY <1>9 DEF GiveUp
  <2>2. QED
    BY <2>1, <1>4, CallInvKept
<1>10. CASE LoadCorpus
  <2>1. feed' = feed /\ missing' = missing /\ now' = now /\ call' \subseteq call
    BY <1>10 DEF LoadCorpus
  <2>2. QED
    BY <2>1, <1>3, <1>10, CallInvKept, LoadCorpusKeeps
<1>11. CASE UNCHANGED vars
  <2>1. /\ feed' = feed /\ missing' = missing /\ now' = now /\ series' = series
        /\ call' \subseteq call
    BY <1>11 DEF vars
  <2>2. QED
    BY <2>1, <1>4, CallInvKept
<1>12. QED
  BY <1>2, <1>5, <1>6, <1>7, <1>8, <1>9, <1>10, <1>11 DEF Next

(* Every reachable state has the invariant.                                *)
LEMMA SpecMarketInv == Spec => []MarketInv
BY InitMarketInv, MarketInvStep, PTL DEF Spec

-----------------------------------------------------------------------------
(* Theorems                                                                *)

(* Every accepted series is one of bars in ascending order that have all   *)
(* closed by the clock, whatever a source repeats or sends early           *)
(* (provider.rs:329, 463).                                                 *)
THEOREM MarketTypeCorrect == Spec => []MarketTypeOK
<1>1. MarketInv => MarketTypeOK
  <2> SUFFICES ASSUME MarketInv PROVE MarketTypeOK
    OBVIOUS
  <2>1. \A c \in call : c.begun \in {now - 1, now} /\ \A rows \in c.rows : rows \in Seq(Bars)
    BY DEF MarketInv, CallInv, Asked
  <2>2. QED
    BY <2>1 DEF MarketInv, SeriesInv, Typed, MarketTypeOK
<1>2. QED
  BY <1>1, SpecMarketInv, PTL

(* A bar still forming when its source answered gets into a series only as *)
(* the last one of a klines answer that was on its way over midnight       *)
(* (provider.rs:368): no other source and no delay lets an open bar in.    *)
THEOREM OpenBarsAreClosing == Spec => []OpenBarOnlyAtMidnight
<1>1. MarketInv => OpenBarOnlyAtMidnight
  BY DEF MarketInv, SeriesInv, Closed, OpenBarOnlyAtMidnight
<1>2. QED
  BY <1>1, SpecMarketInv, PTL

(* An accepted answer reaches the last session that was over when its      *)
(* request began, except past the range of the standard aggregates and the *)
(* limit of a futures request (provider.rs:66, 118).                       *)
THEOREM AnswersAreFresh == Spec => []FreshestServed
<1>1. MarketInv => FreshestServed
  BY DEF MarketInv, SeriesInv, Fresh, FreshestServed
<1>2. QED
  BY <1>1, SpecMarketInv, PTL

-----------------------------------------------------------------------------
(* Two ways to an hour                                                     *)

(* Dividing in two steps is dividing by the product.                       *)
LEMMA DivideTwice ==
  ASSUME NEW n \in Nat, NEW a \in Nat \ {0}, NEW b \in Nat \ {0}
  PROVE  /\ a * b \in Nat \ {0}
         /\ (n \div a) \div b = n \div (a * b)
<1>1. PICK q \in Nat : q = n \div a
  OBVIOUS
<1>2. PICK r \in Nat : r = q \div b
  OBVIOUS
<1>3. a * q <= n /\ n < a * (q + 1)
  BY <1>1
<1>4. b * r <= q /\ q < b * (r + 1)
  BY <1>2
<1>5. PICK m \in Nat \ {0} : m = a * b
  OBVIOUS
<1>6. m * r <= a * q
  <2>1. a * (b * r) <= a * q
    BY <1>4
  <2>2. a * (b * r) = m * r
    BY <1>5
  <2>3. QED
    BY <2>1, <2>2
<1>7. a * (q + 1) <= m * (r + 1)
  <2>1. q + 1 <= b * (r + 1)
    BY <1>4
  <2>2. a * (q + 1) <= a * (b * (r + 1))
    BY <2>1
  <2>3. a * (b * (r + 1)) = m * (r + 1)
    BY <1>5
  <2>4. QED
    BY <2>2, <2>3
<1>8. m * r <= n /\ n < m * (r + 1)
  BY <1>3, <1>6, <1>7
<1>9. n \div m = r
  BY <1>8
<1>10. QED
  BY <1>1, <1>2, <1>5, <1>9

(* What batches of n bars are: the k-th opens with its first bar and       *)
(* closes with its last one.                                               *)
Batched(bars, n, out) ==
  /\ out \in Seq({out[k] : k \in 1..(Len(bars) \div n)})
  /\ Len(out) = Len(bars) \div n /\ Len(bars) \div n \in Nat
  /\ \A k \in 1..(Len(bars) \div n) :
       /\ (k - 1) * n \in Nat /\ (k - 1) * n + n = k * n
       /\ k * n \in 1..Len(bars) /\ (k - 1) * n + 1 \in 1..Len(bars)
       /\ out[k].open = bars[(k - 1) * n + 1].open
       /\ out[k].close = bars[k * n].close
       /\ DOMAIN out[k].parts = 1..n
       /\ \A i \in 1..n : out[k].parts[i] = bars[(k - 1) * n + i]

(* That is what Batches makes.                                             *)
LEMMA BatchesAre ==
  ASSUME NEW A, NEW bars \in Seq(A), NEW n \in Nat \ {0}
  PROVE  Batched(bars, n, Batches(bars, n))
<1> DEFINE len == Len(bars)
           q == len \div n
<1>1. len \in Nat /\ q \in Nat /\ n * q <= len
  OBVIOUS
<1>2. Batches(bars, n) =
        [k \in 1..q |-> Aggregate(SubSeq(bars, (k - 1) * n + 1, k * n))]
  BY DEF Batches
<1> HIDE DEF q, len
<1>3. ASSUME NEW k \in 1..q
      PROVE  /\ (k - 1) * n \in Nat /\ (k - 1) * n + n = k * n
             /\ k * n \in 1..len /\ (k - 1) * n + 1 \in 1..len
             /\ Batches(bars, n)[k].open = bars[(k - 1) * n + 1].open
             /\ Batches(bars, n)[k].close = bars[k * n].close
             /\ DOMAIN Batches(bars, n)[k].parts = 1..n
             /\ \A i \in 1..n : Batches(bars, n)[k].parts[i] = bars[(k - 1) * n + i]
  <2>1. PICK f \in Nat : f = (k - 1) * n
    OBVIOUS
  <2>2. k * n = f + n
    BY <2>1, <1>1
  <2>3. k * n <= n * q
    BY <1>1
  <2>4. f + n <= len
    BY <2>2, <2>3, <1>1
  <2> DEFINE parts == SubSeq(bars, f + 1, f + n)
  <2>5. Batches(bars, n)[k] = Aggregate(parts)
    BY <1>2, <2>1, <2>2
  <2>6. /\ parts \in Seq(A) /\ Len(parts) = n
        /\ \A i \in 1..n : parts[i] = bars[f + i]
    <3> DEFINE first == f + 1
               last == f + n
    <3>1. /\ first \in Nat \ {0} /\ last \in Nat /\ last <= Len(bars) /\ first <= last + 1
          /\ last - first + 1 = n
      BY <2>1, <2>4 DEF len
    <3>2. \A i \in 1..n : first + i - 1 = f + i
      BY <2>1
    <3>3. parts = SubSeq(bars, first, last)
      OBVIOUS
    <3> HIDE DEF first, last, parts
    <3>4. /\ parts \in Seq(A) /\ Len(parts) = last - first + 1
          /\ \A i \in 1..(last - first + 1) : parts[i] = bars[first + i - 1]
      BY <3>1, <3>3, Segment
    <3>5. QED
      BY <3>1, <3>2, <3>4
  <2> HIDE DEF parts
  <2>7. DOMAIN parts = 1..n /\ 1 \in 1..n /\ n \in 1..n
    BY <2>6, Members
  <2>8. /\ Aggregate(parts).open = bars[f + 1].open
        /\ Aggregate(parts).close = bars[f + n].close
        /\ Aggregate(parts).parts = parts
    BY <2>6, <2>7 DEF Aggregate, Final
  <2>9. f + n \in 1..len /\ f + 1 \in 1..len
    BY <2>1, <2>4, <1>1
  <2>10. QED
    BY <2>1, <2>2, <2>5, <2>6, <2>7, <2>8, <2>9
<1>4. /\ Batches(bars, n) \in Seq({Batches(bars, n)[k] : k \in 1..q})
      /\ Len(Batches(bars, n)) = q
  <2> DEFINE b == Batches(bars, n)
             B == {b[k] : k \in 1..q}
  <2>1. b = [k \in 1..q |-> b[k]]
    BY <1>2
  <2> HIDE DEF b
  <2>2. \A k \in 1..q : b[k] \in B
    OBVIOUS
  <2> HIDE DEF B
  <2>3. b \in Seq(B) /\ Len(b) = q
    BY <2>1, <2>2, <1>1
  <2>4. QED
    BY <2>3 DEF b, B
<1>5. QED
  BY <1>1, <1>3, <1>4 DEF Batched, q, len

(* Hours of minutes, directly and over five-minute bars.                   *)
LEMMA EitherPath ==
  ASSUME NEW A, NEW bars \in Seq(A), NEW a \in Nat \ {0}, NEW b \in Nat \ {0},
         NEW m5, Batched(bars, a, m5), NEW direct, Batched(bars, a * b, direct),
         NEW staged, Batched(m5, b, staged)
  PROVE  /\ Len(direct) \in Nat /\ DOMAIN direct = 1..Len(direct)
         /\ Len(direct) = Len(staged)
         /\ \A k \in 1..Len(direct) :
              /\ k * (a * b) \in 1..Len(bars)
              /\ direct[k].open = staged[k].open /\ direct[k].close = staged[k].close
              /\ direct[k].close = bars[k * (a * b)].close
              /\ DOMAIN staged[k].parts = 1..b
              /\ \A m \in 1..b, i \in 1..a :
                   staged[k].parts[m].parts[i] = direct[k].parts[(m - 1) * a + i]
<1> DEFINE q == Len(bars) \div a
           r == Len(bars) \div (a * b)
<1>1. Len(bars) \in Nat /\ a * b \in Nat \ {0} /\ q \div b = r
  BY DivideTwice
<1>2. /\ Len(m5) = q /\ q \in Nat
      /\ \A k \in 1..q :
           /\ m5[k].open = bars[(k - 1) * a + 1].open
           /\ m5[k].close = bars[k * a].close
           /\ \A i \in 1..a : m5[k].parts[i] = bars[(k - 1) * a + i]
  BY DEF Batched
<1>3. PICK n \in Nat \ {0} : n = a * b
  BY <1>1
<1>4. /\ direct \in Seq({direct[k] : k \in 1..r}) /\ Len(direct) = r /\ r \in Nat
      /\ \A k \in 1..r :
           /\ k * n \in 1..Len(bars)
           /\ direct[k].open = bars[(k - 1) * n + 1].open
           /\ direct[k].close = bars[k * n].close
           /\ \A i \in 1..n : direct[k].parts[i] = bars[(k - 1) * n + i]
  <2>1. Batched(bars, n, direct) /\ r = Len(bars) \div n
    BY <1>3
  <2> HIDE DEF r
  <2>2. QED
    BY <2>1 DEF Batched
<1>5. Len(m5) \div b = r
  BY <1>1, <1>2
<1> HIDE DEF q, r
<1>6. /\ Len(staged) = r
      /\ \A k \in 1..r :
           /\ (k - 1) * b \in Nat /\ (k - 1) * b + b = k * b
           /\ k * b \in 1..q /\ (k - 1) * b + 1 \in 1..q
           /\ staged[k].open = m5[(k - 1) * b + 1].open
           /\ staged[k].close = m5[k * b].close
           /\ DOMAIN staged[k].parts = 1..b
           /\ \A m \in 1..b : staged[k].parts[m] = m5[(k - 1) * b + m]
  BY <1>5, <1>2 DEF Batched
<1>7. DOMAIN direct = 1..Len(direct)
  <2>1. PICK D : D = {direct[k] : k \in 1..r}
    OBVIOUS
  <2>2. direct \in Seq(D)
    BY <2>1, <1>4
  <2>3. QED
    BY <2>2, Members
<1>8. ASSUME NEW k \in 1..r
      PROVE  /\ direct[k].open = staged[k].open /\ direct[k].close = staged[k].close
             /\ \A m \in 1..b, i \in 1..a :
                  staged[k].parts[m].parts[i] = direct[k].parts[(m - 1) * a + i]
  <2>1. PICK f \in Nat : f = (k - 1) * b
    BY <1>6
  <2>2. k \in Nat /\ k >= 1
    BY <1>4
  <2>3. f * a = (k - 1) * n
    BY <2>1, <2>2, <1>3
  <2>4. (k * b) * a = k * n
    BY <2>2, <1>3
  <2>5. staged[k].open = bars[((f + 1) - 1) * a + 1].open
    BY <2>1, <1>2, <1>6
  <2>6. ((f + 1) - 1) * a = (k - 1) * n
    <3>1. (f + 1) - 1 = f
      BY <2>1
    <3>2. QED
      BY <3>1, <2>3
  <2>7. staged[k].close = bars[(k * b) * a].close
    BY <1>2, <1>6
  <2>8. ASSUME NEW m \in 1..b, NEW i \in 1..a
        PROVE  staged[k].parts[m].parts[i] = direct[k].parts[(m - 1) * a + i]
    <3>1. f + m \in 1..q
      <4>1. f + b = k * b /\ k * b \in 1..q
        BY <2>1, <1>6
      <4>2. PICK e \in Nat : e = f + b
        BY <2>1
      <4>3. e <= q /\ q \in Nat
        BY <4>1, <4>2, <1>2
      <4>4. m \in Nat /\ m >= 1 /\ m <= b
        OBVIOUS
      <4>5. f + m <= e /\ f + m \in Nat /\ f + m >= 1
        BY <4>2, <4>4, <2>1
      <4>6. QED
        BY <4>2, <4>3, <4>5
    <3>2. staged[k].parts[m] = m5[f + m]
      BY <2>1, <1>6
    <3>3. staged[k].parts[m].parts[i] = bars[((f + m) - 1) * a + i]
      BY <3>1, <3>2, <1>2
    <3>4. PICK g \in Nat : g = (m - 1) * a
      <4>1. (m - 1) \in Nat
        OBVIOUS
      <4>2. QED
        BY <4>1
    <3>5. ((f + m) - 1) * a = f * a + g
      BY <3>4, <2>1
    <3>6. g + i \in 1..n
      <4>1. (m - 1) * a <= (b - 1) * a
        OBVIOUS
      <4>2. (b - 1) * a + a = n
        BY <1>3
      <4>3. (b - 1) * a \in Nat
        <5>1. b - 1 \in Nat
          OBVIOUS
        <5>2. QED
          BY <5>1
      <4>4. QED
        BY <3>4, <4>1, <4>2, <4>3
    <3>7. direct[k].parts[g + i] = bars[(k - 1) * n + (g + i)]
      BY <3>6, <1>4
    <3>8. PICK h \in Nat : h = (k - 1) * n
      <4>1. k - 1 \in Nat
        BY <2>2
      <4>2. QED
        BY <4>1
    <3>9. ((f + m) - 1) * a + i = h + (g + i)
      BY <3>4, <3>5, <3>8, <2>3
    <3>10. QED
      BY <3>3, <3>4, <3>7, <3>8, <3>9
  <2>9. QED
    BY <2>4, <2>5, <2>6, <2>7, <2>8, <1>4
<1>9. \A k \in 1..r :
        /\ k * n \in 1..Len(bars)
        /\ direct[k].close = bars[k * n].close
        /\ DOMAIN staged[k].parts = 1..b
  BY <1>4, <1>6
<1>10. \A k \in 1..r :
         /\ k * (a * b) \in 1..Len(bars)
         /\ direct[k].close = bars[k * (a * b)].close
  BY <1>3, <1>9
<1>11. ASSUME NEW k \in 1..Len(direct)
       PROVE  /\ k * (a * b) \in 1..Len(bars)
              /\ direct[k].open = staged[k].open /\ direct[k].close = staged[k].close
              /\ direct[k].close = bars[k * (a * b)].close
              /\ DOMAIN staged[k].parts = 1..b
              /\ \A m \in 1..b, i \in 1..a :
                   staged[k].parts[m].parts[i] = direct[k].parts[(m - 1) * a + i]
  <2>1. k \in 1..r
    BY <1>4
  <2>2. QED
    BY <2>1, <1>8, <1>9, <1>10
<1>12. QED
  BY <1>4, <1>6, <1>7, <1>11

(* Minutes make the same hours, and the same four hours, whichever way the *)
(* aggregation goes (historical.rs:298, 387, 486), up to the last batch    *)
(* that is complete.                                                       *)
THEOREM HoursAgree == Spec => []HourFromEitherPath
<1>1. ASSUME MarketInv, NEW s \in series
      PROVE  LET direct == AggregateH1(s.bars, TRUE)
                 staged == AggregateH1(AggregateM5FromM1(s.bars), FALSE)
             IN  /\ Len(direct) = Len(staged)
                 /\ \A k \in DOMAIN direct :
                      /\ direct[k].open = staged[k].open /\ direct[k].close = staged[k].close
                      /\ \A m \in DOMAIN staged[k].parts, i \in 1..PerFive :
                           staged[k].parts[m].parts[i] = direct[k].parts[(m - 1) * PerFive + i]
                 /\ \A k \in DOMAIN AggregateH4FromH1(direct) :
                      LET h4 == AggregateH4FromH1(direct)[k]
                      IN  /\ h4.close = s.bars[k * PerFive * PerHour * PerFour].close
                          /\ h4.close = AggregateH4FromH1(staged)[k].close
  <2>1. s.bars \in Seq(Bars)
    BY <1>1 DEF MarketInv, SeriesInv, Typed
  <2>2. /\ PerFive \in Nat \ {0} /\ PerHour \in Nat \ {0} /\ PerFour \in Nat \ {0}
    BY Constants
  <2>3. PICK n \in Nat \ {0} : n = PerFive * PerHour
    BY <2>2, DivideTwice
  <2>4. PICK m5 : m5 = Batches(s.bars, PerFive)
    OBVIOUS
  <2>5. PICK direct : direct = Batches(s.bars, n)
    OBVIOUS
  <2>6. PICK staged : staged = Batches(m5, PerHour)
    OBVIOUS
  <2>7. /\ AggregateH1(s.bars, TRUE) = direct
        /\ AggregateH1(AggregateM5FromM1(s.bars), FALSE) = staged
    BY <2>3, <2>4, <2>5, <2>6 DEF AggregateH1, AggregateM5FromM1
  <2>8. Batched(s.bars, PerFive, m5) /\ Batched(s.bars, n, direct)
    BY <2>1, <2>2, <2>3, <2>4, <2>5, BatchesAre
  <2>9. PICK M, D : m5 \in Seq(M) /\ direct \in Seq(D)
    BY <2>8 DEF Batched
  <2>10. Batched(m5, PerHour, staged)
    BY <2>2, <2>6, <2>9, BatchesAre
  <2>11. PICK S : staged \in Seq(S)
    BY <2>10 DEF Batched
  <2>12. Batched(s.bars, PerFive * PerHour, direct)
    BY <2>3, <2>8
  <2>13. /\ Len(direct) \in Nat /\ DOMAIN direct = 1..Len(direct)
         /\ Len(direct) = Len(staged)
         /\ \A k \in 1..Len(direct) :
              /\ direct[k].open = staged[k].open /\ direct[k].close = staged[k].close
              /\ direct[k].close = s.bars[k * (PerFive * PerHour)].close
              /\ DOMAIN staged[k].parts = 1..PerHour
              /\ \A m \in 1..PerHour, i \in 1..PerFive :
                   staged[k].parts[m].parts[i] = direct[k].parts[(m - 1) * PerFive + i]
    BY <2>1, <2>2, <2>8, <2>10, <2>12, EitherPath
  <2>14. PICK h, g : h = Batches(direct, PerFour) /\ g = Batches(staged, PerFour)
    OBVIOUS
  <2>15. Batched(direct, PerFour, h) /\ Batched(staged, PerFour, g)
    BY <2>2, <2>9, <2>11, <2>14, BatchesAre
  <2>16. DOMAIN h = 1..Len(h) /\ Len(h) = Len(direct) \div PerFour
    <3>1. PICK H : h \in Seq(H)
      BY <2>15 DEF Batched
    <3>2. QED
      BY <3>1, <2>15, Members DEF Batched
  <2>17. ASSUME NEW k \in DOMAIN h
         PROVE  /\ h[k].close = s.bars[k * PerFive * PerHour * PerFour].close
                /\ h[k].close = g[k].close
    <3>1. /\ k \in 1..(Len(direct) \div PerFour) /\ k * PerFour \in 1..Len(direct)
          /\ h[k].close = direct[k * PerFour].close
      BY <2>15, <2>16 DEF Batched
    <3>2. g[k].close = staged[k * PerFour].close
      BY <3>1, <2>13, <2>15 DEF Batched
    <3>3. direct[k * PerFour].close = s.bars[(k * PerFour) * (PerFive * PerHour)].close
      BY <3>1, <2>13
    <3>4. (k * PerFour) * (PerFive * PerHour) = k * PerFive * PerHour * PerFour
      <4>1. k \in Nat
        BY <3>1
      <4>2. QED
        BY <4>1, <2>2
    <3>5. direct[k * PerFour].close = staged[k * PerFour].close
      BY <3>1, <2>13
    <3>6. QED
      BY <3>1, <3>2, <3>3, <3>4, <3>5
  <2>18. AggregateH4FromH1(direct) = h /\ AggregateH4FromH1(staged) = g
    BY <2>14 DEF AggregateH4FromH1
  <2>19. /\ Len(direct) = Len(staged)
         /\ \A k \in DOMAIN direct :
              /\ direct[k].open = staged[k].open /\ direct[k].close = staged[k].close
              /\ \A m \in DOMAIN staged[k].parts, i \in 1..PerFive :
                   staged[k].parts[m].parts[i] = direct[k].parts[(m - 1) * PerFive + i]
    <3>1. ASSUME NEW k \in DOMAIN direct
          PROVE  /\ direct[k].open = staged[k].open /\ direct[k].close = staged[k].close
                 /\ \A m \in DOMAIN staged[k].parts, i \in 1..PerFive :
                      staged[k].parts[m].parts[i] = direct[k].parts[(m - 1) * PerFive + i]
      <4>1. k \in 1..Len(direct) /\ DOMAIN staged[k].parts = 1..PerHour
        BY <2>13
      <4>2. QED
        BY <4>1, <2>13
    <3>2. QED
      BY <3>1, <2>13
  <2>20. \A k \in DOMAIN AggregateH4FromH1(direct) :
           LET h4 == AggregateH4FromH1(direct)[k]
           IN  /\ h4.close = s.bars[k * PerFive * PerHour * PerFour].close
               /\ h4.close = AggregateH4FromH1(staged)[k].close
    BY <2>17, <2>18
  <2>21. QED
    BY <2>7, <2>19, <2>20
<1>2. MarketInv => HourFromEitherPath
  BY <1>1 DEF HourFromEitherPath
<1>3. QED
  BY <1>2, SpecMarketInv, PTL

-----------------------------------------------------------------------------
(* Order                                                                   *)

(* In an ascending series every bar opens before every later one.          *)
LEMMA OpensAscend ==
  ASSUME NEW bars \in Seq(Bars), Increasing(bars)
  PROVE  \A i, j \in 1..Len(bars) : i < j => bars[i].open < bars[j].open
<1>1. Len(bars) \in Nat /\ \A k \in 1..Len(bars) : bars[k].open \in Int
  <2>1. Len(bars) \in Nat /\ \A k \in 1..Len(bars) : bars[k] \in Bars
    BY Members
  <2>2. QED
    BY <2>1 DEF Bars
<1> SUFFICES ASSUME NEW i \in 1..Len(bars), NEW j \in 1..Len(bars), i < j
             PROVE  bars[i].open < bars[j].open
  OBVIOUS
<1> DEFINE P == {l \in (i + 1)..Len(bars) : bars[i].open < bars[l].open}
<1>2. i + 1 <= Len(bars) => i + 1 \in P
  BY <1>1 DEF Increasing
<1>3. ASSUME NEW l \in (i + 1)..Len(bars), l # i + 1, l - 1 \in P PROVE l \in P
  <2>1. l - 1 \in 1..(Len(bars) - 1) /\ l - 1 + 1 = l
    BY <1>1, <1>3
  <2>2. bars[l - 1].open < bars[l - 1 + 1].open
    BY <2>1 DEF Increasing
  <2>3. bars[l - 1].open < bars[l].open
    BY <2>1, <2>2
  <2>4. bars[i].open < bars[l - 1].open
    BY <1>3
  <2>5. bars[i].open \in Int /\ bars[l - 1].open \in Int /\ bars[l].open \in Int
    BY <2>1, <1>1
  <2>6. QED
    BY <2>3, <2>4, <2>5
<1> HIDE DEF P
<1>4. i + 1 \in Int /\ Len(bars) \in Int
  BY <1>1
<1>5. \A l \in (i + 1)..Len(bars) : l \in P
  BY <1>2, <1>3, <1>4, IntervalInduction
<1>6. j \in (i + 1)..Len(bars)
  BY <1>1
<1>7. QED
  BY <1>5, <1>6 DEF P

(* The bars of a series are days of its calendar, in order.                *)
OfDay(bar, d) == HasBar(d) /\ bar.open = OpenOf(d) /\ bar.close = CloseOf(d)

OfDays(bars) ==
  /\ bars \in Seq(Bars) /\ Increasing(bars)
  /\ \A i \in 1..Len(bars) : \E d \in 0..(Days - 1) : OfDay(bars[i], d)

(* Days that open one after the other close before the next one opens.     *)
LEMMA DaysApart ==
  ASSUME NEW d \in 0..(Days - 1), NEW e \in 0..(Days - 1), OpenOf(d) < OpenOf(e)
  PROVE  d < e /\ CloseOf(d) <= OpenOf(e)
<1>1. d \in Nat /\ e \in Nat
  BY Constants
<1>2. d < e
  BY <1>1 DEF OpenOf, Day
<1>3. CloseOf(d) <= OpenOf(e)
  <2>1. feed.kind = "CORPUS" => feed.kind # "FUTURES"
    OBVIOUS
  <2>2. QED
    BY <1>1, <1>2, <2>1 DEF OpenOf, CloseOf, Day
<1>4. QED
  BY <1>2, <1>3

(* What the order of days says of the times of their bars.                 *)
Spaced(bars) ==
  /\ bars \in Seq(Bars) /\ Len(bars) \in Nat /\ DOMAIN bars = 1..Len(bars)
  /\ \A i \in 1..Len(bars) : /\ bars[i].open \in Int /\ bars[i].close \in Int
                             /\ bars[i].open < bars[i].close
                             /\ bars[i].close <= bars[i].open + Day
  /\ \A i, j \in 1..Len(bars) : i < j => bars[i].close <= bars[j].open

(* A series of days is spaced.                                             *)
LEMMA DaysAreSpaced ==
  ASSUME NEW bars, OfDays(bars)
  PROVE  Spaced(bars)
<1>1. bars \in Seq(Bars) /\ Len(bars) \in Nat /\ DOMAIN bars = 1..Len(bars)
  BY Members DEF OfDays
<1>2. ASSUME NEW i \in 1..Len(bars)
      PROVE  /\ bars[i].open \in Int /\ bars[i].close \in Int
             /\ bars[i].open < bars[i].close /\ bars[i].close <= bars[i].open + Day
  <2>1. PICK d \in 0..(Days - 1) : OfDay(bars[i], d)
    BY DEF OfDays
  <2>2. d \in Nat
    BY Constants
  <2>3. OpenOf(d) \in Int /\ CloseOf(d) \in Int /\ OpenOf(d) < CloseOf(d)
        /\ CloseOf(d) <= OpenOf(d) + Day
    BY <2>2 DEF OpenOf, CloseOf, Day
  <2>4. QED
    BY <2>1, <2>3 DEF OfDay
<1>3. ASSUME NEW i \in 1..Len(bars), NEW j \in 1..Len(bars), i < j
      PROVE  bars[i].close <= bars[j].open
  <2>1. PICK d \in 0..(Days - 1) : OfDay(bars[i], d)
    BY DEF OfDays
  <2>2. PICK e \in 0..(Days - 1) : OfDay(bars[j], e)
    BY DEF OfDays
  <2>3. bars[i].open < bars[j].open
    BY <1>1, <1>3, OpensAscend DEF OfDays
  <2>4. OpenOf(d) < OpenOf(e)
    BY <2>1, <2>2, <2>3 DEF OfDay
  <2>5. CloseOf(d) <= OpenOf(e)
    BY <2>4, DaysApart
  <2>6. QED
    BY <2>1, <2>2, <2>5 DEF OfDay
<1>4. QED
  BY <1>1, <1>2, <1>3 DEF Spaced

-----------------------------------------------------------------------------
(* Weeks                                                                   *)

Week == WeekDays * Day

(* A moment lies in its week.                                              *)
LEMMA InWeek ==
  ASSUME NEW t \in Int
  PROVE  /\ Week \in Nat \ {0} /\ Day <= Week /\ WeekOf(t) \in Int
         /\ WeekOf(t) * Week <= t /\ t < (WeekOf(t) + 1) * Week
<1>1. Week \in Nat \ {0} /\ Day <= Week
  BY Constants DEF Week, Day
<1>2. PICK v \in Nat \ {0} : v = Week
  BY <1>1
<1>3. WeekOf(t) = t \div v
  BY <1>2 DEF WeekOf, Week
<1>4. PICK q \in Int : q = t \div v
  OBVIOUS
<1>5. v * q <= t /\ t < v * (q + 1)
  BY <1>4
<1>6. v * q = q * v /\ v * (q + 1) = (q + 1) * v
  OBVIOUS
<1>7. q * v <= t /\ t < (q + 1) * v
  BY <1>5, <1>6
<1>8. QED
  BY <1>1, <1>2, <1>3, <1>4, <1>7

(* Multiples of a positive number are ordered as their factors.            *)
LEMMA FactorsOrdered ==
  ASSUME NEW v \in Nat \ {0}, NEW a \in Int, NEW b \in Int, a * v < b * v
  PROVE  a < b
<1>1. SUFFICES ASSUME b <= a PROVE FALSE
  OBVIOUS
<1>2. PICK c \in Nat : c = a - b
  BY <1>1
<1>3. a * v = b * v + c * v
  <2>1. a = b + c
    BY <1>2
  <2>2. (b + c) * v = b * v + c * v
    OBVIOUS
  <2>3. QED
    BY <2>1, <2>2
<1>4. PICK x \in Int, y \in Nat : x = b * v /\ y = c * v
  OBVIOUS
<1>5. QED
  BY <1>3, <1>4

(* Weeks follow one another: a later moment is in no earlier week, and one *)
(* that is at most a week later is in the same or the next one.            *)
LEMMA WeeksOrdered ==
  ASSUME NEW t \in Int, NEW u \in Int
  PROVE  /\ WeekOf(t) \in Int /\ WeekOf(u) \in Int
         /\ t <= u => WeekOf(t) <= WeekOf(u)
         /\ u <= t + Week => WeekOf(u) <= WeekOf(t) + 1
         /\ u < (WeekOf(t) + 1) * Week => WeekOf(u) <= WeekOf(t)
         /\ (WeekOf(t) + 1) * Week <= u => WeekOf(t) < WeekOf(u)
<1>1. PICK v \in Nat \ {0} : v = Week
  BY InWeek
<1>2. PICK p \in Int : p = WeekOf(t)
  BY InWeek
<1>3. PICK q \in Int : q = WeekOf(u)
  BY InWeek
<1>4. p * v <= t /\ t < (p + 1) * v /\ q * v <= u /\ u < (q + 1) * v
  BY <1>1, <1>2, <1>3, InWeek
<1>5. t <= u => p < q + 1
  <2> SUFFICES ASSUME t <= u PROVE p < q + 1
    OBVIOUS
  <2>1. PICK x \in Int, y \in Int : x = p * v /\ y = (q + 1) * v
    OBVIOUS
  <2>2. x < y
    BY <1>4, <2>1
  <2>3. QED
    BY <2>1, <2>2, FactorsOrdered
<1>6. u <= t + v => q < p + 2
  <2> SUFFICES ASSUME u <= t + v PROVE q < p + 2
    OBVIOUS
  <2>1. PICK x \in Int, y \in Int, m \in Int : x = q * v /\ y = (p + 1) * v /\ m = (p + 2) * v
    OBVIOUS
  <2>2. m = y + v
    BY <2>1
  <2>3. x < m
    BY <1>4, <2>1, <2>2
  <2>4. QED
    BY <2>1, <2>3, FactorsOrdered
<1>7. u < (p + 1) * v => q < p + 1
  <2> SUFFICES ASSUME u < (p + 1) * v PROVE q < p + 1
    OBVIOUS
  <2>1. PICK x \in Int, y \in Int : x = q * v /\ y = (p + 1) * v
    OBVIOUS
  <2>2. x < y
    BY <1>4, <2>1
  <2>3. QED
    BY <2>1, <2>2, FactorsOrdered
<1>8. (p + 1) * v <= u => p + 1 < q + 1
  <2> SUFFICES ASSUME (p + 1) * v <= u PROVE p + 1 < q + 1
    OBVIOUS
  <2>1. PICK x \in Int, y \in Int : x = (p + 1) * v /\ y = (q + 1) * v
    OBVIOUS
  <2>2. x < y
    BY <1>4, <2>1
  <2>3. QED
    BY <2>1, <2>2, FactorsOrdered
<1>9. QED
  BY <1>1, <1>2, <1>3, <1>5, <1>6, <1>7, <1>8

-----------------------------------------------------------------------------
(* Buckets                                                                 *)

(* The buckets of a series: the k-th one goes from place a[k] to z[k].     *)
Grouping(bars, g) ==
  /\ g.n \in Nat \ {0}
  /\ \A k \in 1..g.n : /\ g.a[k] \in 1..Len(bars) /\ g.z[k] \in 1..Len(bars)
                       /\ g.a[k] <= g.z[k]
  /\ g.a[1] = 1 /\ g.z[g.n] = Len(bars)
  /\ \A k \in 1..(g.n - 1) : g.a[k + 1] = g.z[k] + 1
  /\ \A k \in 1..g.n : \A i \in g.a[k]..g.z[k] :
       WeekOf(bars[i].open) = WeekOf(bars[g.a[k]].open)
  /\ \A k \in 1..(g.n - 1) : WeekOf(bars[g.z[k] + 1].open) # WeekOf(bars[g.z[k]].open)
  /\ Buckets(bars) = [k \in 1..g.n |-> SubSeq(bars, g.a[k], g.z[k])]

(* There is such a grouping.                                               *)
LEMMA Grouped ==
  ASSUME NEW bars \in Seq(Bars), bars # <<>>
  PROVE  \E g : Grouping(bars, g) /\ g.a = Ascending(StartsNew(bars))
<1>1. Len(bars) \in Nat \ {0} /\ DOMAIN bars = 1..Len(bars)
  OBVIOUS
<1>2. PICK S : S = StartsNew(bars)
  OBVIOUS
<1>3. \A i \in 1..Len(bars) :
        i \in S <=> i = 1 \/ WeekOf(bars[i - 1].open) # WeekOf(bars[i].open)
  BY <1>1, <1>2 DEF StartsNew
<1>4. S \in SUBSET DOMAIN bars
  BY <1>2 DEF StartsNew
<1>5. S \in SUBSET Nat /\ IsFiniteSet(S) /\ S \subseteq 1..Len(bars)
  BY <1>4, Places
<1>6. PICK a : a = Ascending(S)
  OBVIOUS
<1>7. /\ a \in Seq(S) /\ \A k, l \in 1..Len(a) : k < l => a[k] < a[l]
      /\ \A x \in S : \E k \in 1..Len(a) : a[k] = x
  BY <1>5, <1>6, AscendingRanks, AscendingOrdered
<1>8. PICK n \in Nat : n = Len(a)
  BY <1>7
<1>9. DOMAIN a = 1..n /\ \A k \in 1..n : a[k] \in S /\ a[k] \in 1..Len(bars) /\ a[k] \in Nat
  <2>1. DOMAIN a = 1..n /\ \A k \in 1..n : a[k] \in S
    BY <1>7, <1>8, Members
  <2>2. QED
    BY <2>1, <1>5
<1>10. PICK z : z = [k \in 1..n |-> IF k < n THEN a[k + 1] - 1 ELSE Len(bars)]
  OBVIOUS
<1>11. \A k \in 1..n : z[k] = IF k < n THEN a[k + 1] - 1 ELSE Len(bars)
  BY <1>10
<1>12. n # 0 /\ a[1] = 1
  <2>1. 1 \in S
    BY <1>1, <1>3
  <2>2. PICK k \in 1..n : a[k] = 1
    BY <2>1, <1>7, <1>8
  <2>3. CASE 1 < k
    <3>1. 1 \in 1..n /\ a[1] < a[k]
      BY <2>2, <2>3, <1>7, <1>8
    <3>2. QED
      BY <3>1, <2>2, <1>9
  <2>4. QED
    BY <2>2, <2>3
<1>13. ASSUME NEW k \in 1..n PROVE z[k] \in 1..Len(bars) /\ a[k] <= z[k]
  <2>1. CASE k < n
    <3>1. k + 1 \in 1..n /\ k < k + 1
      BY <2>1
    <3>2. a[k] < a[k + 1] /\ a[k] \in 1..Len(bars) /\ a[k + 1] \in 1..Len(bars)
      BY <3>1, <1>7, <1>8, <1>9
    <3>3. z[k] = a[k + 1] - 1
      BY <2>1, <1>11
    <3>4. QED
      BY <3>2, <3>3
  <2>2. CASE ~(k < n)
    BY <2>2, <1>1, <1>9, <1>11
  <2>3. QED
    BY <2>1, <2>2
<1>14. z[n] = Len(bars) /\ \A k \in 1..(n - 1) : a[k + 1] = z[k] + 1
  BY <1>9, <1>11, <1>12
<1>15. ASSUME NEW k \in 1..n, NEW i \in (a[k] + 1)..z[k] PROVE i \notin S /\ i \in 1..Len(bars)
  <2>1. i \in 1..Len(bars) /\ a[k] < i /\ i <= z[k] /\ i \in Nat
    BY <1>9, <1>13
  <2>2. SUFFICES ASSUME i \in S PROVE FALSE
    BY <2>1
  <2>3. PICK l \in 1..n : a[l] = i
    BY <2>2, <1>7, <1>8
  <2>4. k < l
    <3>1. SUFFICES ASSUME l <= k PROVE FALSE
      OBVIOUS
    <3>2. a[l] <= a[k]
      BY <3>1, <1>7, <1>8, <1>9
    <3>3. QED
      BY <3>2, <2>1, <2>3, <1>9
  <2>5. k + 1 \in 1..n /\ k \in 1..(n - 1) /\ k + 1 <= l
    BY <2>4
  <2>6. a[k + 1] <= a[l]
    <3>1. a[k + 1] \in Nat /\ a[l] \in Nat
      BY <2>5, <1>9
    <3>2. k + 1 = l \/ a[k + 1] < a[l]
      BY <2>5, <1>7, <1>8
    <3>3. QED
      BY <3>1, <3>2
  <2>7. QED
    BY <2>1, <2>3, <2>5, <2>6, <1>9, <1>14, <1>13
<1>16. ASSUME NEW k \in 1..n PROVE \A i \in a[k]..z[k] : WeekOf(bars[i].open) = WeekOf(bars[a[k]].open)
  <2>1. PICK first \in Nat, last \in Nat : first = a[k] /\ last = z[k]
    BY <1>9, <1>13
  <2> DEFINE P == {i \in first..last : WeekOf(bars[i].open) = WeekOf(bars[first].open)}
  <2>2. first <= last => first \in P
    OBVIOUS
  <2>3. ASSUME NEW i \in first..last, i # first, i - 1 \in P PROVE i \in P
    <3>1. i \in (a[k] + 1)..z[k]
      BY <2>1, <2>3
    <3>2. i \notin S /\ i \in 1..Len(bars)
      BY <3>1, <1>15
    <3>3. WeekOf(bars[i - 1].open) = WeekOf(bars[i].open)
      BY <3>2, <1>3
    <3>4. QED
      BY <3>3, <2>3
  <2> HIDE DEF P
  <2>4. \A i \in first..last : i \in P
    BY <2>2, <2>3, IntervalInduction
  <2>5. QED
    BY <2>1, <2>4 DEF P
<1>17. ASSUME NEW k \in 1..(n - 1)
       PROVE  WeekOf(bars[z[k] + 1].open) # WeekOf(bars[z[k]].open)
  <2>1. k \in 1..n /\ k + 1 \in 1..n /\ k < k + 1
    OBVIOUS
  <2>2. a[k + 1] \in S /\ a[k + 1] \in 1..Len(bars) /\ a[k] < a[k + 1] /\ a[k] \in 1..Len(bars)
    BY <2>1, <1>7, <1>8, <1>9
  <2>3. a[k + 1] # 1 /\ a[k + 1] = z[k] + 1 /\ a[k + 1] - 1 = z[k]
    BY <2>1, <2>2, <1>13, <1>14
  <2>4. WeekOf(bars[a[k + 1] - 1].open) # WeekOf(bars[a[k + 1]].open)
    BY <2>2, <2>3, <1>3
  <2>5. QED
    BY <2>3, <2>4
<1>18. Buckets(bars) = [k \in 1..n |-> SubSeq(bars, a[k], z[k])]
  <2>1. Buckets(bars) = [k \in 1..n |-> SubSeq(bars, a[k], IF k < n THEN a[k + 1] - 1 ELSE Len(bars))]
    BY <1>2, <1>6, <1>8, <1>9 DEF Buckets
  <2>2. QED
    BY <2>1, <1>11
<1>19. PICK g : g = [n |-> n, a |-> a, z |-> z]
  OBVIOUS
<1>20. g.n = n /\ g.a = a /\ g.z = z
  BY <1>19
<1>21. Grouping(bars, g)
  BY <1>8, <1>9, <1>12, <1>13, <1>14, <1>16, <1>17, <1>18, <1>20 DEF Grouping
<1>22. QED
  BY <1>21, <1>20, <1>2, <1>6

(* Bars of one bucket are of one week, and later buckets of later weeks.   *)
LEMMA BucketsAscend ==
  ASSUME NEW bars, Spaced(bars), NEW g, Grouping(bars, g), NEW k \in 1..g.n, NEW l \in 1..g.n,
         k < l
  PROVE  /\ g.z[k] < g.a[l]
         /\ WeekOf(bars[g.a[k]].open) < WeekOf(bars[g.a[l]].open)
<1>1. PICK n \in Nat \ {0} : n = g.n
  BY DEF Grouping
<1>2. \A i \in 1..n : g.a[i] \in 1..Len(bars) /\ g.z[i] \in 1..Len(bars) /\ g.a[i] <= g.z[i]
  BY <1>1 DEF Grouping
<1>3. Len(bars) \in Nat /\ \A i \in 1..Len(bars) : bars[i].open \in Int /\ WeekOf(bars[i].open) \in Int
  BY WeeksOrdered DEF Spaced
<1> DEFINE w(i) == WeekOf(bars[g.a[i]].open)
           P == {i \in (k + 1)..n : g.z[k] < g.a[i] /\ w(k) < w(i)}
<1>4. ASSUME NEW i \in 1..n, i + 1 <= n
      PROVE  g.z[i] < g.a[i + 1] /\ w(i) < w(i + 1)
  <2>1. i \in 1..(n - 1) /\ i + 1 \in 1..n
    BY <1>4
  <2>2. g.a[i + 1] = g.z[i] + 1
    BY <2>1, <1>1 DEF Grouping
  <2>3. PICK x \in 1..Len(bars), y \in 1..Len(bars), z \in 1..Len(bars) :
          x = g.a[i] /\ y = g.z[i] /\ z = g.a[i + 1]
    BY <2>1, <1>2
  <2>4. x <= y /\ z = y + 1 /\ y \in x..y /\ y < z
    BY <2>1, <2>2, <2>3, <1>2
  <2>5. WeekOf(bars[y].open) = WeekOf(bars[x].open)
    BY <2>3, <2>4, <1>1 DEF Grouping
  <2>6. WeekOf(bars[z].open) # WeekOf(bars[y].open)
    BY <2>1, <2>3, <2>4, <1>1 DEF Grouping
  <2>7. bars[y].open <= bars[z].open
    <3>1. bars[y].open < bars[y].close /\ bars[y].close <= bars[z].open /\ bars[y].close \in Int
      BY <2>4 DEF Spaced
    <3>2. QED
      BY <3>1, <1>3
  <2>8. WeekOf(bars[y].open) <= WeekOf(bars[z].open)
    BY <2>7, <1>3, WeeksOrdered
  <2>9. WeekOf(bars[x].open) < WeekOf(bars[z].open)
    BY <2>5, <2>6, <2>8, <1>3
  <2>10. QED
    BY <2>2, <2>3, <2>4, <2>9
<1>5. k + 1 <= n => k + 1 \in P
  BY <1>1, <1>4
<1>6. ASSUME NEW i \in (k + 1)..n, i # k + 1, i - 1 \in P PROVE i \in P
  <2>1. i - 1 \in 1..n /\ i - 1 + 1 = i /\ i - 1 + 1 <= n /\ i \in 1..n /\ k \in 1..n
    BY <1>1, <1>6
  <2>2. g.z[i - 1] < g.a[i] /\ w(i - 1) < w(i)
    BY <2>1, <1>4
  <2>3. g.z[k] < g.a[i - 1] /\ w(k) < w(i - 1)
    BY <1>6
  <2>4. /\ w(k) \in Int /\ w(i - 1) \in Int /\ w(i) \in Int
        /\ g.z[k] \in Int /\ g.a[i - 1] \in Int /\ g.z[i - 1] \in Int /\ g.a[i] \in Int
        /\ g.a[i - 1] <= g.z[i - 1]
    <3>1. \A j \in 1..n : w(j) \in Int
      BY <1>2, <1>3
    <3>2. \A j \in 1..n : g.a[j] \in Int /\ g.z[j] \in Int /\ g.a[j] <= g.z[j]
      BY <1>2
    <3> HIDE DEF w
    <3>3. QED
      BY <2>1, <3>1, <3>2
  <2> HIDE DEF w
  <2>5. w(k) < w(i)
    BY <2>2, <2>3, <2>4
  <2>6. g.z[k] < g.a[i]
    BY <2>2, <2>3, <2>4
  <2>7. QED
    BY <2>5, <2>6
<1> HIDE DEF P
<1>7. k + 1 \in Int /\ n \in Int
  BY <1>1
<1>8. \A i \in (k + 1)..n : i \in P
  BY <1>5, <1>6, <1>7, IntervalInduction
<1>9. l \in (k + 1)..n
  BY <1>1
<1>10. QED
  BY <1>8, <1>9 DEF P

-----------------------------------------------------------------------------
(* Holes                                                                   *)

(* The first bar and the length of a bucket.                               *)
LEMMA BucketIs ==
  ASSUME NEW bars \in Seq(Bars), NEW g, Grouping(bars, g), NEW k \in 1..g.n
  PROVE  /\ Len(Buckets(bars)) = g.n
         /\ Buckets(bars)[k] = SubSeq(bars, g.a[k], g.z[k])
         /\ Buckets(bars)[k] \in Seq(Bars)
         /\ Len(Buckets(bars)[k]) = g.z[k] - g.a[k] + 1
         /\ \A i \in 1..(g.z[k] - g.a[k] + 1) : Buckets(bars)[k][i] = bars[g.a[k] + i - 1]
         /\ Buckets(bars)[k][1] = bars[g.a[k]]
         /\ Final(Buckets(bars)[k]) = bars[g.z[k]]
<1>1. PICK n \in Nat : n = g.n
  BY DEF Grouping
<1>2. Buckets(bars) = [i \in 1..n |-> SubSeq(bars, g.a[i], g.z[i])]
  BY <1>1 DEF Grouping
<1>3. PICK a \in 1..Len(bars), z \in 1..Len(bars) : a = g.a[k] /\ z = g.z[k]
  BY DEF Grouping
<1>4. a <= z
  BY <1>3 DEF Grouping
<1>5. Len(bars) \in Nat
  OBVIOUS
<1>6. PICK b : b = SubSeq(bars, a, z)
  OBVIOUS
<1>7. a \in Nat \ {0} /\ z \in Nat /\ z <= Len(bars) /\ a <= z + 1
  BY <1>4, <1>5
<1>8. b \in Seq(Bars) /\ Len(b) = z - a + 1 /\ \A i \in 1..(z - a + 1) : b[i] = bars[a + i - 1]
  BY <1>6, <1>7, Segment
<1>9. 1 \in 1..(z - a + 1) /\ z - a + 1 \in 1..(z - a + 1) /\ a + 1 - 1 = a
      /\ a + (z - a + 1) - 1 = z
  BY <1>4
<1>10. b[1] = bars[a] /\ Final(b) = bars[z]
  BY <1>8, <1>9 DEF Final
<1>11. Len(Buckets(bars)) = n /\ Buckets(bars)[k] = b
  <2>1. k \in 1..n
    BY <1>1
  <2>2. Buckets(bars)[k] = SubSeq(bars, g.a[k], g.z[k])
    BY <1>2, <2>1
  <2>3. DOMAIN Buckets(bars) = 1..n
    BY <1>2
  <2>4. Len(Buckets(bars)) = n
    BY <1>2
  <2>5. QED
    BY <2>2, <2>4, <1>3, <1>6
<1>12. QED
  BY <1>1, <1>3, <1>6, <1>8, <1>10, <1>11

(* Without an anomaly a bucket is followed by the one of the next week.    *)
LEMMA NoWeekMissing ==
  ASSUME NEW bars, Spaced(bars), CadenceAnomalies(bars) = {}, NEW g, Grouping(bars, g),
         NEW k \in 1..(g.n - 1)
  PROVE  /\ g.a[k + 1] = g.z[k] + 1 /\ g.z[k] \in 1..(Len(bars) - 1)
         /\ WeekOf(bars[g.z[k]].open) = WeekOf(bars[g.a[k]].open)
         /\ WeekOf(bars[g.a[k + 1]].open) = WeekOf(bars[g.a[k]].open) + 1
<1>1. k \in 1..g.n /\ k + 1 \in 1..g.n
  BY DEF Grouping
<1>2. PICK a \in 1..Len(bars), z \in 1..Len(bars), e \in 1..Len(bars) :
        a = g.a[k] /\ z = g.z[k] /\ e = g.a[k + 1]
  BY <1>1 DEF Grouping
<1>3. e = z + 1 /\ a <= z /\ Len(bars) \in Nat
  BY <1>1, <1>2 DEF Grouping, Spaced
<1>4. z \in a..z /\ z \in 1..(Len(bars) - 1)
  BY <1>3
<1>5. WeekOf(bars[z].open) = WeekOf(bars[a].open)
  BY <1>1, <1>2, <1>4 DEF Grouping
<1>6. WeekOf(bars[e].open) # WeekOf(bars[z].open)
  BY <1>2, <1>3 DEF Grouping
<1>7. PICK t \in Int, u \in Int : t = bars[z].open /\ u = bars[e].open
  BY DEF Spaced
<1>8. t <= u
  <2>1. z < e
    BY <1>3
  <2>2. bars[z].open < bars[z].close /\ bars[z].close <= bars[e].open /\ bars[z].close \in Int
    BY <2>1 DEF Spaced
  <2>3. QED
    BY <2>2, <1>7
<1>9. u <= t + Week
  <2>1. ~(bars[z + 1].open - bars[z].open > (IF feed.continuous THEN 1 ELSE ToleratedGap) * Day)
    BY <1>4 DEF CadenceAnomalies
  <2>2. PICK m \in Nat : m = IF feed.continuous THEN 1 ELSE ToleratedGap
    BY SeriesAssumption
  <2>3. m <= WeekDays /\ WeekDays \in Nat
    BY <2>2, ExchangeAssumption, Constants
  <2>4. ~(u - t > m * Day)
    BY <2>1, <2>2, <1>3, <1>7
  <2>5. QED
    BY <2>3, <2>4 DEF Week, Day
<1>10. WeekOf(u) = WeekOf(t) + 1
  <2>1. WeekOf(t) <= WeekOf(u) /\ WeekOf(u) <= WeekOf(t) + 1 /\ WeekOf(t) \in Int /\ WeekOf(u) \in Int
    BY <1>8, <1>9, WeeksOrdered
  <2>2. QED
    BY <2>1, <1>6, <1>7
<1>11. QED
  BY <1>2, <1>3, <1>4, <1>5, <1>7, <1>10

(* Without an anomaly the bars of a market that never closes are a day     *)
(* apart.                                                                  *)
LEMMA DailySteps ==
  ASSUME NEW bars, Spaced(bars), CadenceAnomalies(bars) = {}, feed.continuous,
         NEW a \in 1..Len(bars), NEW z \in a..Len(bars)
  PROVE  bars[z].open = bars[a].open + (z - a) * Day
<1>1. Len(bars) \in Nat /\ \A i \in 1..Len(bars) : bars[i].open \in Int
  BY DEF Spaced
<1>2. ASSUME NEW i \in 1..(Len(bars) - 1) PROVE bars[i + 1].open = bars[i].open + Day
  <2>1. /\ ~(bars[i + 1].open - bars[i].open < Day)
        /\ ~(bars[i + 1].open - bars[i].open > (IF feed.continuous THEN 1 ELSE ToleratedGap) * Day)
    BY DEF CadenceAnomalies
  <2>2. i \in 1..Len(bars) /\ i + 1 \in 1..Len(bars)
    BY <1>1
  <2>3. QED
    BY <2>1, <2>2, <1>1 DEF Day
<1> DEFINE P == {i \in a..Len(bars) : bars[i].open = bars[a].open + (i - a) * Day}
<1>3. a <= Len(bars) => a \in P
  BY <1>1 DEF Day
<1>4. ASSUME NEW i \in a..Len(bars), i # a, i - 1 \in P PROVE i \in P
  <2>1. i - 1 \in 1..(Len(bars) - 1) /\ i - 1 + 1 = i /\ i - 1 \in 1..Len(bars)
    BY <1>1, <1>4
  <2>2. bars[i].open = bars[i - 1].open + Day
    BY <2>1, <1>2
  <2>3. bars[i - 1].open = bars[a].open + (i - 1 - a) * Day
    BY <1>4
  <2>4. bars[a].open \in Int
    BY <1>1
  <2>5. QED
    BY <2>2, <2>3, <2>4 DEF Day
<1> HIDE DEF P
<1>5. a \in Int /\ Len(bars) \in Int
  BY <1>1
<1>6. \A i \in a..Len(bars) : i \in P
  BY <1>3, <1>4, <1>5, IntervalInduction
<1>7. QED
  BY <1>6 DEF P

(* Without an anomaly every inner week of a market that never closes is    *)
(* full.                                                                   *)
LEMMA WeeksFull ==
  ASSUME NEW bars, Spaced(bars), CadenceAnomalies(bars) = {}, feed.continuous,
         NEW g, Grouping(bars, g), NEW k \in 2..(g.n - 1)
  PROVE  g.z[k] - g.a[k] + 1 = WeekDays
<1>1. g.n \in Nat
  BY DEF Grouping
<1>2. k - 1 \in 1..(g.n - 1) /\ k \in 1..(g.n - 1) /\ k - 1 + 1 = k /\ k \in 1..g.n
  BY <1>1
<1>3. PICK a \in 1..Len(bars), z \in 1..Len(bars) : a = g.a[k] /\ z = g.z[k]
  BY <1>2 DEF Grouping
<1>4. a <= z /\ Len(bars) \in Nat
  BY <1>2, <1>3 DEF Grouping, Spaced
<1>5. PICK b : b = g.z[k - 1]
  OBVIOUS
<1>6. /\ a = b + 1 /\ b \in 1..(Len(bars) - 1)
      /\ WeekOf(bars[a].open) = WeekOf(bars[b].open) + 1
  BY <1>2, <1>3, <1>5, NoWeekMissing
<1>7. PICK e : e = g.a[k + 1]
  OBVIOUS
<1>8. /\ e = z + 1 /\ z \in 1..(Len(bars) - 1)
      /\ WeekOf(bars[z].open) = WeekOf(bars[a].open)
      /\ WeekOf(bars[e].open) = WeekOf(bars[a].open) + 1
  BY <1>2, <1>3, <1>7, NoWeekMissing
<1>9. b \in 1..Len(bars) /\ e \in 1..Len(bars)
  BY <1>4, <1>6, <1>8
<1>10. PICK r \in Int, t \in Int, u \in Int, v \in Int :
         r = bars[b].open /\ t = bars[a].open /\ u = bars[z].open /\ v = bars[e].open
  BY <1>9 DEF Spaced
<1>11. /\ t = r + (a - b) * Day /\ u = t + (z - a) * Day /\ v = u + (e - z) * Day
  <2>1. a \in b..Len(bars) /\ z \in a..Len(bars) /\ e \in z..Len(bars)
    BY <1>4, <1>6, <1>8, <1>9
  <2>2. QED
    BY <2>1, <1>9, <1>10, DailySteps
<1>12. t = r + 2 /\ u = t + 2 * (z - a) /\ v = u + 2
  BY <1>6, <1>8, <1>11 DEF Day
<1>13. PICK w \in Int : w = WeekOf(t)
  BY WeeksOrdered
<1>14. WeekOf(r) + 1 = w /\ WeekOf(u) = w /\ WeekOf(v) = w + 1
  BY <1>6, <1>8, <1>10, <1>13, WeeksOrdered
<1>15. PICK A \in Int, B \in Int : A = w * Week /\ B = (w + 1) * Week
  <2>1. Week \in Int
    BY <1>13, InWeek
  <2>2. QED
    BY <2>1
<1>16. B = A + 2 * WeekDays
  BY <1>15, Constants DEF Week, Day
<1>17. r < A /\ A <= t /\ u < B /\ B <= v
  BY <1>13, <1>14, <1>15, InWeek
<1>18. PICK m \in Int : m = z - a + 1
  BY <1>3
<1>19. v - t = 2 * m
  BY <1>12, <1>18, <1>3
<1>20. WeekDays \in Nat
  BY Constants
<1>21. m = WeekDays
  BY <1>12, <1>16, <1>17, <1>19, <1>20
<1>22. QED
  BY <1>3, <1>18, <1>21

-----------------------------------------------------------------------------
(* Where a series comes from                                               *)

(* The days a source knows of when it is asked.                            *)
Begun(t) == {d \in 0..(Days - 1) : HasBar(d) /\ d * Day <= t}

Listed(contract, t) ==
  {d \in 0..(Days - 1) : d <= contract.expiry /\ HasBar(d) /\ OpenOf(d) <= t}

(* Days that an answer with a limit does not leave out: the last ones of   *)
(* the klines, the first ones of the futures sessions.                     *)
Late(S, d)  == Cardinality(UpTo(S, d)) >= Cardinality(S) - KlineLimit + 1
Early(S, d) == Cardinality(UpTo(S, d)) <= SessionLimit

(* InOrder lists days by rank.                                             *)
LEMMA InOrderRanks ==
  ASSUME NEW S \in SUBSET (0..(Days - 1))
  PROVE  /\ S \in SUBSET Nat /\ IsFiniteSet(S) /\ Cardinality(S) \in Nat
         /\ InOrder(S) \in Seq(S) /\ InOrder(S) \in Seq(0..(Days - 1))
         /\ Len(InOrder(S)) = Cardinality(S)
         /\ \A k \in 1..Cardinality(S) : Cardinality(UpTo(S, InOrder(S)[k])) = k
         /\ \A d \in S : \E k \in 1..Cardinality(S) : InOrder(S)[k] = d
<1>1. S \in SUBSET Nat
  BY Constants
<1>2. IsFiniteSet(S)
  <2>1. Days - 1 \in Int
    BY Constants
  <2>2. IsFiniteSet(0..(Days - 1))
    BY <2>1, FS_Interval
  <2>3. QED
    BY <2>2, FS_Subset
<1>3. InOrder(S) = Ascending(S)
  <2>1. {d \in 0..(Days - 1) : d \in S} = S
    OBVIOUS
  <2>2. QED
    BY <2>1 DEF InOrder
<1>4. /\ Cardinality(S) \in Nat /\ Ascending(S) \in Seq(S) /\ Len(Ascending(S)) = Cardinality(S)
      /\ \A k \in 1..Cardinality(S) : Cardinality(UpTo(S, Ascending(S)[k])) = k
      /\ \A d \in S : \E k \in 1..Len(Ascending(S)) : Ascending(S)[k] = d
  BY <1>1, <1>2, AscendingRanks, AscendingOrdered
<1>5. InOrder(S) \in Seq(0..(Days - 1))
  <2>1. S \subseteq 0..(Days - 1) /\ InOrder(S) \in Seq(S)
    BY <1>3, <1>4
  <2>2. QED
    BY <2>1, Members
<1>6. QED
  BY <1>1, <1>2, <1>3, <1>4, <1>5

(* The bars of an answer are those of the given days, as read at t.        *)
Shows(bars, S, t) ==
  /\ bars \in Seq(Bars)
  /\ \A i \in 1..Len(bars) : \E d \in S : bars[i] = BarAt(d, t)
  /\ \A d \in S : \E i \in 1..Len(bars) : bars[i] = BarAt(d, t)

(* Klines are the last days begun.                                         *)
LEMMA KlineDays ==
  ASSUME NEW t \in Nat
  PROVE  Shows(Klines(t), {d \in Begun(t) : Late(Begun(t), d)}, t)
<1>1. PICK S : S = Begun(t)
  OBVIOUS
<1>2. S \in SUBSET (0..(Days - 1))
  BY <1>1 DEF Begun
<1>3. PICK b : b = InOrder(S)
  OBVIOUS
<1>4. PICK n \in Nat : n = Cardinality(S)
  BY <1>2, InOrderRanks
<1>5. /\ b \in Seq(S) /\ b \in Seq(0..(Days - 1)) /\ Len(b) = n
      /\ \A k \in 1..n : Cardinality(UpTo(S, b[k])) = k
      /\ \A d \in S : \E k \in 1..n : b[k] = d
  BY <1>2, <1>3, <1>4, InOrderRanks
<1>6. \A k \in 1..n : b[k] \in S
  BY <1>5, Members
<1>7. PICK first : first = Greatest(1, n - KlineLimit + 1)
  OBVIOUS
<1>8. /\ first \in Nat \ {0} /\ first <= n + 1
      /\ \A k \in 1..n : k >= first <=> k >= n - KlineLimit + 1
  BY <1>7, Constants DEF Greatest
<1>9. PICK shown : shown = SubSeq(b, first, n)
  OBVIOUS
<1>10. /\ shown \in Seq(0..(Days - 1)) /\ Len(shown) = n - first + 1
       /\ \A k \in 1..(n - first + 1) : shown[k] = b[first + k - 1]
  <2>1. n <= Len(b) /\ b \in Seq(0..(Days - 1))
    BY <1>5
  <2>2. QED
    BY <2>1, <1>8, <1>9, Segment
<1>11. PICK rows : rows = BarsOf(shown, t)
  OBVIOUS
<1>12. /\ rows \in Seq(Bars) /\ Len(rows) = n - first + 1
       /\ \A i \in 1..(n - first + 1) : rows[i] = BarAt(shown[i], t)
  BY <1>10, <1>11, BarsOfDays
<1>13. Klines(t) = rows
  BY <1>1, <1>3, <1>5, <1>7, <1>9, <1>11 DEF Klines, Begun
<1>14. ASSUME NEW i \in 1..Len(rows)
       PROVE  \E d \in S : Late(S, d) /\ rows[i] = BarAt(d, t)
  <2>1. PICK k \in 1..n : k = first + i - 1 /\ k >= first
    BY <1>8, <1>12
  <2>2. rows[i] = BarAt(b[k], t) /\ b[k] \in S
    BY <2>1, <1>6, <1>10, <1>12
  <2>3. Late(S, b[k])
    BY <2>1, <1>4, <1>5, <1>8 DEF Late
  <2>4. QED
    BY <2>2, <2>3
<1>15. ASSUME NEW d \in S, Late(S, d)
       PROVE  \E i \in 1..Len(rows) : rows[i] = BarAt(d, t)
  <2>1. PICK k \in 1..n : b[k] = d
    BY <1>5
  <2>2. k >= first
    BY <2>1, <1>4, <1>5, <1>8, <1>15 DEF Late
  <2>3. PICK i \in 1..(n - first + 1) : first + i - 1 = k
    <3>1. k - first + 1 \in 1..(n - first + 1) /\ first + (k - first + 1) - 1 = k
      BY <2>2, <1>8
    <3>2. QED
      BY <3>1
  <2>4. rows[i] = BarAt(d, t)
    BY <2>1, <2>3, <1>10, <1>12
  <2>5. QED
    BY <2>3, <2>4, <1>12
<1>16. QED
  BY <1>1, <1>12, <1>13, <1>14, <1>15 DEF Shows

(* Futures sessions are the first days listed.                             *)
LEMMA SessionDays ==
  ASSUME NEW contract \in Contracts, NEW t \in Nat
  PROVE  Shows(FuturesSessions(contract, t),
               {d \in Listed(contract, t) : Early(Listed(contract, t), d)}, t)
<1>1. PICK S : S = Listed(contract, t)
  OBVIOUS
<1>2. S \in SUBSET (0..(Days - 1))
  BY <1>1 DEF Listed
<1>3. PICK b : b = InOrder(S)
  OBVIOUS
<1>4. PICK n \in Nat : n = Cardinality(S)
  BY <1>2, InOrderRanks
<1>5. /\ b \in Seq(S) /\ b \in Seq(0..(Days - 1)) /\ Len(b) = n
      /\ \A k \in 1..n : Cardinality(UpTo(S, b[k])) = k
      /\ \A d \in S : \E k \in 1..n : b[k] = d
  BY <1>2, <1>3, <1>4, InOrderRanks
<1>6. \A k \in 1..n : b[k] \in S
  BY <1>5, Members
<1>7. PICK m : m = Least(n, SessionLimit)
  OBVIOUS
<1>8. m \in Nat /\ m <= n /\ \A k \in 1..n : k <= m <=> k <= SessionLimit
  BY <1>7, Constants DEF Least
<1>9. PICK shown : shown = SubSeq(b, 1, m)
  OBVIOUS
<1>10. /\ shown \in Seq(0..(Days - 1)) /\ Len(shown) = m
       /\ \A k \in 1..m : shown[k] = b[k]
  <2>1. /\ SubSeq(b, 1, m) \in Seq(0..(Days - 1))
        /\ Len(SubSeq(b, 1, m)) = m - 1 + 1
        /\ \A k \in 1..(m - 1 + 1) : SubSeq(b, 1, m)[k] = b[1 + k - 1]
    <3>1. PICK one \in Nat \ {0} : one = 1
      OBVIOUS
    <3>2. m <= Len(b) /\ b \in Seq(0..(Days - 1)) /\ one <= m + 1
      BY <1>5, <1>8, <3>1
    <3>3. /\ SubSeq(b, one, m) \in Seq(0..(Days - 1))
          /\ Len(SubSeq(b, one, m)) = m - one + 1
          /\ \A k \in 1..(m - one + 1) : SubSeq(b, one, m)[k] = b[one + k - 1]
      BY <3>2, <1>8, Segment
    <3>4. QED
      BY <3>1, <3>3
  <2>2. m - 1 + 1 = m /\ \A k \in 1..m : 1 + k - 1 = k
    BY <1>8
  <2>3. QED
    BY <2>1, <2>2, <1>9
<1>11. PICK rows : rows = BarsOf(shown, t)
  OBVIOUS
<1>12. /\ rows \in Seq(Bars) /\ Len(rows) = m /\ \A i \in 1..m : rows[i] = BarAt(shown[i], t)
  BY <1>10, <1>11, BarsOfDays
<1>13. InOrder({d \in 0..contract.expiry : HasBar(d) /\ OpenOf(d) <= t}) = b
  <2>1. contract.expiry \in Nat /\ Days - 1 \in Int
    BY SeriesAssumption, Constants
  <2>2. {d \in 0..(Days - 1) : d \in {e \in 0..contract.expiry : HasBar(e) /\ OpenOf(e) <= t}} = S
    BY <2>1, <1>1 DEF Listed
  <2>3. {d \in 0..(Days - 1) : d \in S} = S
    BY <1>2
  <2>4. QED
    BY <2>2, <2>3, <1>3 DEF InOrder
<1>14. FuturesSessions(contract, t) = rows
  BY <1>5, <1>7, <1>9, <1>11, <1>13 DEF FuturesSessions
<1>15. ASSUME NEW i \in 1..Len(rows)
       PROVE  \E d \in S : Early(S, d) /\ rows[i] = BarAt(d, t)
  <2>1. i \in 1..m /\ i \in 1..n /\ i <= SessionLimit
    BY <1>8, <1>12
  <2>2. rows[i] = BarAt(b[i], t) /\ b[i] \in S
    BY <2>1, <1>6, <1>10, <1>12
  <2>3. Early(S, b[i])
    BY <2>1, <1>5 DEF Early
  <2>4. QED
    BY <2>2, <2>3
<1>16. ASSUME NEW d \in S, Early(S, d)
       PROVE  \E i \in 1..Len(rows) : rows[i] = BarAt(d, t)
  <2>1. PICK k \in 1..n : b[k] = d
    BY <1>5
  <2>2. k \in 1..m
    BY <2>1, <1>5, <1>8, <1>16 DEF Early
  <2>3. QED
    BY <2>1, <2>2, <1>10, <1>12
<1>17. QED
  BY <1>1, <1>12, <1>14, <1>15, <1>16 DEF Shows

(* Where and when an answer was asked for, read and parsed determines the  *)
(* days it shows.                                                          *)
Shown(o) ==
  CASE feed.kind = "BINANCE" ->
         {d \in Begun(o.begun) : Late(Begun(o.begun), d) /\ CloseOf(d) < o.parsed}
    [] feed.kind = "STANDARD" ->
         {d \in 0..(Days - 1) :
            HasBar(d) /\ DayOf(o.begun) - 1 - History <= d /\ d <= DayOf(o.begun) - 1}
    [] feed.kind = "FUTURES" ->
         {d \in Listed(o.contract, o.read) :
            Early(Listed(o.contract, o.read), d) /\ DayOf(CloseOf(d)) < DayOf(o.begun)}
    [] feed.kind = "CORPUS" ->
         {d \in 0..(Days - 1) : HasBar(d) /\ (d + 1) * Day <= o.begun}

Stems(s, o) ==
  /\ o.begun \in Nat /\ o.read \in Nat /\ o.parsed \in Nat
  /\ s.begun = o.begun /\ o.begun <= o.read /\ o.read <= o.parsed
  /\ feed.kind = "FUTURES" => o.contract \in Contracts /\ o.contract.ticker = s.contract
  /\ feed.kind # "FUTURES" => o.read = o.begun
  /\ Shows(s.bars, Shown(o), o.read)

(* Every series stems from a request that was answered before the one in   *)
(* flight began.                                                           *)
OriginInv ==
  \A s \in series : \E o : /\ Stems(s, o) /\ o.parsed <= now
                           /\ \A c \in call : o.parsed <= c.begun

(* Bars that are the rows which pass a filter, and places that are those of *)
(* such rows.                                                              *)
Kept(bars, rows, Q) ==
  /\ bars \in Seq(Bars)
  /\ \A k \in 1..Len(bars) : \E j \in 1..Len(rows) : rows[j] \in Q /\ bars[k] = rows[j]
  /\ \A j \in 1..Len(rows) : rows[j] \in Q => \E k \in 1..Len(bars) : bars[k] = rows[j]

Filters(P, payload, Q) ==
  /\ P \in SUBSET DOMAIN payload
  /\ \A i \in DOMAIN payload : i \in P <=> payload[i] \in Q

(* What parsing keeps of a payload are the rows that pass its filter.      *)
LEMMA KeptRows ==
  ASSUME NEW rows \in Seq(Bars), NEW payload \in Payloads(rows), NEW P, NEW Q,
         Filters(P, payload, Q)
  PROVE  Kept(Only(payload, P), rows, Q)
<1>1. PICK bars : bars = Only(payload, P)
  OBVIOUS
<1>2. P \in SUBSET DOMAIN payload /\ \A i \in DOMAIN payload : i \in P <=> payload[i] \in Q
  BY DEF Filters
<1>3. /\ bars \in Seq(Bars) /\ DOMAIN bars = 1..Len(bars)
      /\ \A k \in DOMAIN bars : \E i \in P : bars[k] = payload[i]
      /\ \A k \in DOMAIN bars : \E j \in 1..Len(rows) : bars[k] = rows[j]
      /\ \A i \in P : \E k \in DOMAIN bars : bars[k] = payload[i]
  BY <1>1, <1>2, Filtered
<1>4. \A j \in 1..Len(rows) : j \in 1..Len(payload) /\ payload[j] = rows[j]
  BY PayloadRows
<1>5. DOMAIN payload = 1..Len(payload)
  BY PayloadRows, Members
<1>6. ASSUME NEW k \in 1..Len(bars)
      PROVE  \E j \in 1..Len(rows) : rows[j] \in Q /\ bars[k] = rows[j]
  <2>1. PICK i \in P : bars[k] = payload[i]
    BY <1>3
  <2>2. bars[k] \in Q
    BY <2>1, <1>2
  <2>3. QED
    BY <2>2, <1>3
<1>7. ASSUME NEW j \in 1..Len(rows), rows[j] \in Q
      PROVE  \E k \in 1..Len(bars) : bars[k] = rows[j]
  <2>1. j \in DOMAIN payload /\ payload[j] = rows[j]
    BY <1>4, <1>5
  <2>2. j \in P
    BY <2>1, <1>2, <1>7
  <2>3. PICK k \in DOMAIN bars : bars[k] = payload[j]
    BY <2>2, <1>3
  <2>4. QED
    BY <2>1, <2>3, <1>3
<1>8. QED
  BY <1>1, <1>3, <1>6, <1>7 DEF Kept

(* An answer of which some days are kept shows these days.                 *)
LEMMA KeptDays ==
  ASSUME NEW S, NEW T \in SUBSET S, NEW t, NEW rows, NEW bars, NEW Q, Kept(bars, rows, Q),
         Shows(rows, S, t), \A d \in S : d \in T <=> BarAt(d, t) \in Q
  PROVE  Shows(bars, T, t)
<1>1. ASSUME NEW k \in 1..Len(bars) PROVE \E d \in T : bars[k] = BarAt(d, t)
  <2>1. PICK j \in 1..Len(rows) : rows[j] \in Q /\ bars[k] = rows[j]
    BY DEF Kept
  <2>2. PICK d \in S : rows[j] = BarAt(d, t)
    BY DEF Shows
  <2>3. QED
    BY <2>1, <2>2
<1>2. ASSUME NEW d \in T PROVE \E k \in 1..Len(bars) : bars[k] = BarAt(d, t)
  <2>1. PICK j \in 1..Len(rows) : rows[j] = BarAt(d, t)
    BY DEF Shows
  <2>2. rows[j] \in Q
    BY <2>1
  <2>3. PICK k \in 1..Len(bars) : bars[k] = rows[j]
    BY <2>2 DEF Kept
  <2>4. QED
    BY <2>1, <2>3
<1>3. QED
  BY <1>1, <1>2 DEF Shows, Kept

(* An accepted klines answer stems from its request.                       *)
LEMMA KlinesStem ==
  ASSUME MarketInv, feed.kind = "BINANCE", NEW c \in call, NEW rows \in c.rows,
         NEW payload \in Payloads(rows), NEW bars \in Accepted(c, payload)
  PROVE  \E o : Stems(Answered(c, bars), o) /\ o.parsed = now
<1>1. PICK P : P = {i \in DOMAIN payload : payload[i].close < now}
  OBVIOUS
<1>2. bars = Only(payload, P)
  BY <1>1 DEF Accepted, ParseKlines
<1>3. PICK t \in Nat : t = c.begun /\ t <= now /\ now \in Nat
  BY CallFacts
<1>4. rows = Klines(t)
  BY <1>3 DEF MarketInv, CallInv
<1>5. PICK o : o = [begun |-> t, read |-> t, parsed |-> now, contract |-> "none"]
  OBVIOUS
<1>6. o.begun = t /\ o.read = t /\ o.parsed = now
  BY <1>5
<1> DEFINE B == Begun(t)
           S == {d \in B : Late(B, d)}
           T == {d \in B : Late(B, d) /\ CloseOf(d) < now}
           Q == {b \in Bars : b.close < now}
<1>7. Shows(rows, S, t)
  BY <1>4, KlineDays
<1>8. rows \in Seq(Bars)
  BY <1>7 DEF Shows
<1>9. payload \in Seq(Bars)
  BY <1>8, PayloadRows
<1>10. \A i \in DOMAIN payload : i \in P <=> payload[i] \in Q
  <2>1. \A i \in DOMAIN payload : payload[i] \in Bars
    BY <1>9, Members
  <2>2. QED
    BY <2>1, <1>1
<1>11. Filters(P, payload, Q)
  <2>1. P \in SUBSET DOMAIN payload
    BY <1>1
  <2> HIDE DEF Q
  <2>2. QED
    BY <2>1, <1>10 DEF Filters
<1>12. Kept(bars, rows, Q)
  <2> HIDE DEF Q
  <2> QED BY <1>2, <1>8, <1>11, KeptRows
<1>13. T \in SUBSET S /\ \A d \in S : d \in T <=> BarAt(d, t) \in Q
  <2>1. T \in SUBSET S
    OBVIOUS
  <2>2. ASSUME NEW d \in S PROVE d \in T <=> BarAt(d, t) \in Q
    <3>1. d \in 0..(Days - 1) /\ d \in B /\ Late(B, d)
      BY DEF Begun
    <3>2. BarAt(d, t) \in Bars /\ BarAt(d, t).close = CloseOf(d)
      BY <3>1, BarOfDay
    <3>3. QED
      BY <3>1, <3>2
  <2>3. QED
    BY <2>1, <2>2
<1>14. Shows(bars, T, t)
  <2> HIDE DEF Q, S, T
  <2> QED BY <1>7, <1>12, <1>13, KeptDays
<1>15. Shown(o) = T
  BY <1>6 DEF Shown
<1>16. feed.kind # "FUTURES"
  OBVIOUS
<1>17. Answered(c, bars).begun = t /\ Answered(c, bars).bars = bars
  BY <1>3 DEF Answered
<1> HIDE DEF T
<1>18. Stems(Answered(c, bars), o)
  BY <1>3, <1>6, <1>14, <1>15, <1>16, <1>17 DEF Stems
<1>19. QED
  BY <1>6, <1>18

(* An accepted answer of the standard aggregates stems from its request.   *)
LEMMA AggregatesStem ==
  ASSUME MarketInv, feed.kind = "STANDARD", NEW c \in call, NEW rows \in c.rows,
         NEW payload \in Payloads(rows), NEW bars \in Accepted(c, payload)
  PROVE  \E o : Stems(Answered(c, bars), o) /\ o.parsed = now
<1>1. bars = payload /\ Increasing(payload)
  BY DEF Accepted
<1>2. PICK t \in Nat : t = c.begun /\ t <= now /\ now \in Nat /\ DayOf(t) \in Nat
  BY CallFacts
<1>3. PICK o : o = [begun |-> t, read |-> t, parsed |-> now, contract |-> "none"]
  OBVIOUS
<1>4. o.begun = t /\ o.read = t /\ o.parsed = now
  BY <1>3
<1>5. PICK today \in Nat : today = DayOf(t)
  BY <1>2
<1> DEFINE S == {d \in (today - 1 - History)..(today - 1) : HasBar(d)}
           T == {d \in 0..(Days - 1) : HasBar(d) /\ today - 1 - History <= d /\ d <= today - 1}
<1>6. rows = BarsOf(InOrder(S), t)
  BY <1>2, <1>5 DEF MarketInv, CallInv, StandardRange
<1>7. \A d \in 0..(Days - 1) : d \in S <=> d \in T
  BY Constants
<1>8. T \subseteq 0..(Days - 1)
  OBVIOUS
<1>9. Shown(o) = T
  BY <1>4, <1>5 DEF Shown
<1> HIDE DEF S, T
<1>10. /\ rows \in Seq(Bars)
       /\ \A i \in 1..Len(rows) : \E d \in 0..(Days - 1) : d \in S /\ rows[i] = BarAt(d, t)
       /\ \A d \in 0..(Days - 1) : d \in S => \E i \in 1..Len(rows) : rows[i] = BarAt(d, t)
  BY <1>6, ListedBars
<1>11. /\ payload \in Seq(Bars)
       /\ \A i \in 1..Len(payload) : \E j \in 1..Len(rows) : payload[i] = rows[j]
       /\ \A j \in 1..Len(rows) : j \in 1..Len(payload) /\ payload[j] = rows[j]
  BY <1>10, PayloadRows
<1>12. Shows(bars, T, t)
  <2>1. ASSUME NEW i \in 1..Len(bars) PROVE \E d \in T : bars[i] = BarAt(d, t)
    <3>1. PICK j \in 1..Len(rows) : bars[i] = rows[j]
      BY <1>1, <1>11
    <3>2. PICK d \in 0..(Days - 1) : d \in S /\ rows[j] = BarAt(d, t)
      BY <1>10
    <3>3. QED
      BY <3>1, <3>2, <1>7
  <2>2. ASSUME NEW d \in T PROVE \E i \in 1..Len(bars) : bars[i] = BarAt(d, t)
    BY <1>1, <1>7, <1>8, <1>10, <1>11
  <2>3. QED
    BY <2>1, <2>2, <1>1, <1>11 DEF Shows
<1>13. Answered(c, bars).begun = t /\ Answered(c, bars).bars = bars
  BY <1>2 DEF Answered
<1>14. feed.kind # "FUTURES"
  OBVIOUS
<1>15. Stems(Answered(c, bars), o)
  BY <1>2, <1>4, <1>9, <1>12, <1>13, <1>14 DEF Stems
<1>16. QED
  BY <1>4, <1>15

(* Accepted futures sessions stem from their request.                      *)
LEMMA SessionsStem ==
  ASSUME MarketInv, feed.kind = "FUTURES", NEW c \in call, NEW rows \in c.rows,
         NEW payload \in Payloads(rows), NEW bars \in Accepted(c, payload)
  PROVE  \E o : Stems(Answered(c, bars), o) /\ o.parsed = now
<1>1. PICK P : P = {i \in DOMAIN payload : DayOf(payload[i].close) < DayOf(c.begun)}
  OBVIOUS
<1>2. bars = Only(payload, P)
  BY <1>1 DEF Accepted, ParseSessions
<1>3. PICK begun \in Nat : begun = c.begun /\ begun <= now /\ now \in Nat
  BY CallFacts
<1>4. PICK contract \in Contracts, t \in begun..now :
        contract.ticker = c.contract /\ rows = FuturesSessions(contract, t)
  BY <1>3 DEF MarketInv, CallInv
<1>5. PICK o : o = [begun |-> begun, read |-> t, parsed |-> now, contract |-> contract]
  OBVIOUS
<1>6. o.begun = begun /\ o.read = t /\ o.parsed = now /\ o.contract = contract
  BY <1>5
<1>7. t \in Nat /\ begun <= t /\ t <= now
  BY <1>3
<1> DEFINE B == Listed(contract, t)
           S == {d \in B : Early(B, d)}
           T == {d \in B : Early(B, d) /\ DayOf(CloseOf(d)) < DayOf(begun)}
           Q == {b \in Bars : DayOf(b.close) < DayOf(begun)}
<1>8. Shows(rows, S, t)
  BY <1>4, <1>7, SessionDays
<1>9. rows \in Seq(Bars)
  BY <1>8 DEF Shows
<1>10. payload \in Seq(Bars)
  BY <1>9, PayloadRows
<1>11. \A i \in DOMAIN payload : i \in P <=> payload[i] \in Q
  <2>1. \A i \in DOMAIN payload : payload[i] \in Bars
    BY <1>10, Members
  <2>2. QED
    BY <2>1, <1>1, <1>3
<1>12. Filters(P, payload, Q)
  <2>1. P \in SUBSET DOMAIN payload
    BY <1>1
  <2> HIDE DEF Q
  <2>2. QED
    BY <2>1, <1>11 DEF Filters
<1>13. Kept(bars, rows, Q)
  <2> HIDE DEF Q
  <2> QED BY <1>2, <1>9, <1>12, KeptRows
<1>14. T \in SUBSET S /\ \A d \in S : d \in T <=> BarAt(d, t) \in Q
  <2>1. T \in SUBSET S
    OBVIOUS
  <2>2. ASSUME NEW d \in S PROVE d \in T <=> BarAt(d, t) \in Q
    <3>1. d \in 0..(Days - 1) /\ d \in B /\ Early(B, d)
      BY DEF Listed
    <3>2. BarAt(d, t) \in Bars /\ BarAt(d, t).close = CloseOf(d)
      BY <3>1, <1>7, BarOfDay
    <3>3. QED
      BY <3>1, <3>2
  <2>3. QED
    BY <2>1, <2>2
<1>15. Shows(bars, T, t)
  <2> HIDE DEF Q, S, T
  <2> QED BY <1>8, <1>13, <1>14, KeptDays
<1>16. Shown(o) = T
  BY <1>6 DEF Shown
<1>17. /\ Answered(c, bars).begun = begun /\ Answered(c, bars).bars = bars
       /\ Answered(c, bars).contract = contract.ticker
  BY <1>3, <1>4 DEF Answered
<1> HIDE DEF T
<1>18. Stems(Answered(c, bars), o)
  BY <1>3, <1>6, <1>7, <1>15, <1>16, <1>17 DEF Stems
<1>19. QED
  BY <1>6, <1>18

(* The bars of a set of days show these days.                              *)
LEMMA ListedDays ==
  ASSUME NEW S \in SUBSET (0..(Days - 1)), NEW t \in Nat
  PROVE  Shows(BarsOf(InOrder(S), t), S, t)
<1>1. PICK rows : rows = BarsOf(InOrder(S), t)
  OBVIOUS
<1>2. /\ rows \in Seq(Bars)
      /\ \A i \in 1..Len(rows) : \E d \in 0..(Days - 1) : d \in S /\ rows[i] = BarAt(d, t)
      /\ \A d \in 0..(Days - 1) : d \in S => \E i \in 1..Len(rows) : rows[i] = BarAt(d, t)
  BY <1>1, ListedBars
<1>3. \A d \in S : d \in 0..(Days - 1)
  OBVIOUS
<1>4. Shows(rows, S, t)
  BY <1>2, <1>3 DEF Shows
<1>5. QED
  BY <1>1, <1>4

(* A series loaded from a file stems from its loading.                     *)
LEMMA CorpusStems ==
  ASSUME feed.kind = "CORPUS", NEW t \in Nat, NEW s, s.begun = t, s.bars = CorpusRows(t)
  PROVE  \E o : Stems(s, o) /\ o.parsed = t
<1>1. PICK o : o = [begun |-> t, read |-> t, parsed |-> t, contract |-> "none"]
  OBVIOUS
<1>2. o.begun = t /\ o.read = t /\ o.parsed = t
  BY <1>1
<1>3. PICK S : S = {d \in 0..(Days - 1) : HasBar(d) /\ (d + 1) * Day <= t}
  OBVIOUS
<1>4. Shown(o) = S
  BY <1>2, <1>3 DEF Shown
<1>5. S \in SUBSET (0..(Days - 1))
  BY <1>3
<1>6. Shows(BarsOf(InOrder(S), t), S, t)
  BY <1>5, ListedDays
<1>7. s.bars = BarsOf(InOrder(S), t)
  BY <1>3 DEF CorpusRows
<1>8. feed.kind # "FUTURES"
  OBVIOUS
<1>9. Stems(s, o)
  BY <1>2, <1>4, <1>6, <1>7, <1>8 DEF Stems
<1>10. QED
  BY <1>2, <1>9

(* Where a series comes from does not change.                              *)
LEMMA StemsKept ==
  ASSUME feed' = feed, missing' = missing, NEW s, NEW o, Stems(s, o)
  PROVE  Stems(s, o)'
<1>1. \A d : HasBar(d)' = HasBar(d) /\ OpenOf(d)' = OpenOf(d) /\ CloseOf(d)' = CloseOf(d)
  BY DEF HasBar, Trades, OpenOf, CloseOf
<1>2. \A t : Begun(t)' = Begun(t)
  BY <1>1 DEF Begun
<1>3. \A contract, t : Listed(contract, t)' = Listed(contract, t)
  BY <1>1 DEF Listed
<1>4. Shown(o)' = Shown(o)
  BY <1>1, <1>2, <1>3 DEF Shown, Late, Early, UpTo
<1>5. \A d, t : BarAt(d, t)' = BarAt(d, t)
  BY <1>1 DEF BarAt
<1>6. Shows(s.bars, Shown(o), o.read)' = Shows(s.bars, Shown(o), o.read)
  BY <1>4, <1>5 DEF Shows
<1>7. QED
  BY <1>6 DEF Stems

(* The origins stay while the series do, and no call begins but now.       *)
LEMMA OriginsKept ==
  ASSUME MarketInv, OriginInv, feed' = feed, missing' = missing, now' \in Nat, now <= now',
         series' = series, \A c \in call' : c.begun = now \/ \E b \in call : c.begun = b.begun
  PROVE  OriginInv'
<1> SUFFICES ASSUME NEW s \in series
             PROVE  \E o : /\ Stems(s, o)' /\ o.parsed <= now'
                           /\ \A c \in call' : o.parsed <= c.begun
  BY DEF OriginInv
<1>1. PICK o : Stems(s, o) /\ o.parsed <= now /\ \A c \in call : o.parsed <= c.begun
  BY DEF OriginInv
<1>2. Stems(s, o)'
  BY <1>1, StemsKept
<1>3. o.parsed \in Nat /\ now \in Nat
  BY <1>1, Clock DEF Stems
<1>4. o.parsed <= now' /\ \A c \in call' : o.parsed <= c.begun
  BY <1>1, <1>3
<1>5. QED
  BY <1>2, <1>4

(* A delivered series stems from the call that it answers.                 *)
LEMMA DeliverOrigins == MarketInv /\ OriginInv /\ Deliver => OriginInv'
<1> SUFFICES ASSUME MarketInv, OriginInv, Deliver PROVE OriginInv'
  OBVIOUS
<1>1. PICK c \in call, rows \in UNION {call0.rows : call0 \in call} :
        \E payload \in {rows} \cup {Append(rows, rows[i]) : i \in DOMAIN rows} :
          /\ call' = {}
          /\ series' = IF Accepted(c, payload) = {} THEN series
                       ELSE {[begun |-> c.begun, contract |-> c.contract, bars |-> bars] :
                               bars \in Accepted(c, payload)}
          /\ UNCHANGED <<feed, missing, now>>
  BY DEF Deliver
<1>2. PICK payload \in Payloads(rows) :
        /\ call' = {}
        /\ series' = IF Accepted(c, payload) = {} THEN series
                     ELSE {Answered(c, bars) : bars \in Accepted(c, payload)}
        /\ feed' = feed /\ missing' = missing /\ now' = now
  BY <1>1 DEF Payloads, Answered
<1>3. rows \in c.rows
  BY <1>1 DEF MarketInv, CallInv
<1>4. now \in Nat
  BY Clock
<1>5. CASE series' = series
  BY <1>2, <1>4, <1>5, OriginsKept
<1>6. CASE series' # series
  <2> SUFFICES ASSUME NEW s \in series' PROVE \E o : Stems(s, o)' /\ o.parsed <= now'
    BY <1>2 DEF OriginInv
  <2>1. PICK bars \in Accepted(c, payload) : s = Answered(c, bars)
    BY <1>2, <1>6
  <2>2. feed.kind \in {"BINANCE", "STANDARD", "FUTURES"}
    BY SeriesAssumption DEF MarketInv, CallInv, Kinds
  <2>3. PICK o : Stems(s, o) /\ o.parsed = now
    BY <2>1, <2>2, <1>3, KlinesStem, AggregatesStem, SessionsStem
  <2>4. Stems(s, o)'
    BY <2>3, <1>2, StemsKept
  <2>5. QED
    BY <2>3, <2>4, <1>2, <1>4
<1>7. QED
  BY <1>5, <1>6

(* A file is loaded when no request is in flight.                          *)
LEMMA LoadCorpusOrigins == MarketInv /\ OriginInv /\ LoadCorpus => OriginInv'
<1> SUFFICES ASSUME MarketInv, OriginInv, LoadCorpus PROVE OriginInv'
  OBVIOUS
<1>1. PICK new : new = [begun |-> now, contract |-> "none", bars |-> CorpusRows(now)]
  OBVIOUS
<1>2. /\ series' = {new} /\ feed.kind = "CORPUS"
      /\ now' = now /\ feed' = feed /\ missing' = missing /\ call' = call
  BY <1>1 DEF LoadCorpus
<1>3. new.begun = now /\ new.bars = CorpusRows(now) /\ now \in Nat
  BY <1>1, Clock
<1>4. PICK o : Stems(new, o) /\ o.parsed = now
  BY <1>2, <1>3, CorpusStems
<1>5. Stems(new, o)'
  BY <1>2, <1>4, StemsKept
<1>6. call' = {}
  BY <1>2 DEF MarketInv, CallInv
<1>7. QED
  BY <1>2, <1>3, <1>4, <1>5, <1>6 DEF OriginInv

(* Every step keeps the origins of the series.                             *)
LEMMA OriginStep == MarketInv /\ OriginInv /\ [Next]_vars => OriginInv'
<1> SUFFICES ASSUME MarketInv, OriginInv, [Next]_vars PROVE OriginInv'
  OBVIOUS
<1>1. now \in Nat
  BY Clock
<1>2. CASE Tick
  <2>1. /\ feed' = feed /\ missing' = missing /\ call' = call /\ series' = series
        /\ now' = now + 1
    BY <1>2 DEF Tick
  <2>2. now' \in Nat /\ now <= now'
    BY <2>1, <1>1
  <2>3. QED
    BY <2>1, <2>2, OriginsKept
<1>3. CASE Ask
  <2>1. /\ feed' = feed /\ missing' = missing /\ series' = series /\ now' = now
        /\ \A c \in call' : c.begun = now
    BY <1>3 DEF Ask
  <2>2. QED
    BY <2>1, <1>1, OriginsKept
<1>4. CASE SelectContract
  <2>1. /\ feed' = feed /\ missing' = missing /\ series' = series /\ now' = now
        /\ \A c \in call' : c.begun = now
    BY <1>4 DEF SelectContract
  <2>2. QED
    BY <2>1, <1>1, OriginsKept
<1>5. CASE FetchSessions
  <2>1. PICK c \in call, contract \in Contracts :
          /\ call' = {[c EXCEPT !.rows = {FuturesSessions(contract, now)}]}
          /\ UNCHANGED <<feed, missing, now, series>>
    BY <1>5 DEF FetchSessions
  <2>2. c \in Asked
    BY CallFacts
  <2>3. \A b \in call' : b.begun = c.begun
    BY <2>1, <2>2 DEF Asked
  <2>4. QED
    BY <2>1, <2>3, <1>1, OriginsKept
<1>6. CASE Deliver
  BY <1>6, DeliverOrigins
<1>7. CASE GiveUp
  <2>1. /\ feed' = feed /\ missing' = missing /\ now' = now /\ series' = series /\ call' = {}
    BY <1>7 DEF GiveUp
  <2>2. QED
    BY <2>1, <1>1, OriginsKept
<1>8. CASE LoadCorpus
  BY <1>8, LoadCorpusOrigins
<1>9. CASE UNCHANGED vars
  <2>1. /\ feed' = feed /\ missing' = missing /\ now' = now /\ series' = series /\ call' = call
    BY <1>9 DEF vars
  <2>2. QED
    BY <2>1, <1>1, OriginsKept
<1>10. QED
  BY <1>2, <1>3, <1>4, <1>5, <1>6, <1>7, <1>8, <1>9 DEF Next

(* In every reachable state every series has an origin.                    *)
LEMMA SpecOriginInv == Spec => [](MarketInv /\ OriginInv)
<1>1. Init => OriginInv
  BY DEF Init, OriginInv
<1>2. QED
  BY <1>1, InitMarketInv, MarketInvStep, OriginStep, PTL DEF Spec

(* What a source shows are days of its calendar.                           *)
LEMMA ShownDays ==
  ASSUME feed \in Feeds, NEW o
  PROVE  \A d \in Shown(o) : d \in 0..(Days - 1) /\ HasBar(d)
<1>1. feed.kind \in Kinds
  BY SeriesAssumption
<1>2. QED
  BY <1>1 DEF Shown, Begun, Listed, Kinds

(* A series with an origin is one of days.                                 *)
LEMMA StemsOfDays ==
  ASSUME feed \in Feeds, NEW s, NEW o, Stems(s, o), Increasing(s.bars)
  PROVE  OfDays(s.bars)
<1>1. o.read \in Nat /\ Shows(s.bars, Shown(o), o.read)
  BY DEF Stems
<1>2. \A d \in Shown(o) : d \in 0..(Days - 1) /\ HasBar(d)
  BY ShownDays
<1>3. ASSUME NEW i \in 1..Len(s.bars)
      PROVE  \E d \in 0..(Days - 1) : OfDay(s.bars[i], d)
  <2>1. PICK d \in Shown(o) : s.bars[i] = BarAt(d, o.read)
    BY <1>1 DEF Shows
  <2>2. d \in 0..(Days - 1) /\ HasBar(d)
    BY <1>2
  <2>3. BarAt(d, o.read).open = OpenOf(d) /\ BarAt(d, o.read).close = CloseOf(d)
    BY <2>2, <1>1, BarOfDay
  <2>4. QED
    BY <2>1, <2>2, <2>3 DEF OfDay
<1>4. s.bars \in Seq(Bars)
  BY <1>1 DEF Shows
<1>5. QED
  BY <1>3, <1>4 DEF OfDays

(* The bars of an accepted series are those of days with a bar.            *)
LEMMA SeriesOfDays ==
  ASSUME MarketInv, OriginInv, NEW s \in series
  PROVE  OfDays(s.bars)
<1>1. Typed(s) /\ feed \in Feeds
  BY DEF MarketInv, SeriesInv
<1>2. PICK o : Stems(s, o)
  BY DEF OriginInv
<1>3. QED
  BY <1>1, <1>2, StemsOfDays DEF Typed

(* A series that the cadence report is content with has every week between *)
(* its first and its last one, and full ones where the market never closes *)
(* (historical.rs:155): the report is all that looks for holes, because    *)
(* loading and aggregating take every series that ascends.                 *)
THEOREM HolesAreReported == Spec => []NoAnomalyNoHole
<1>1. MarketInv /\ OriginInv => NoAnomalyNoHole
  <2> SUFFICES ASSUME MarketInv, OriginInv, NEW s \in series,
                      s.bars # <<>>, CadenceAnomalies(s.bars) = {}
               PROVE  LET buckets == Buckets(s.bars)
                      IN  /\ \A i \in 1..(Len(buckets) - 1) :
                               WeekOf(buckets[i + 1][1].open) = WeekOf(buckets[i][1].open) + 1
                          /\ feed.continuous =>
                               \A i \in 2..(Len(buckets) - 1) : Len(buckets[i]) = WeekDays
    BY DEF NoAnomalyNoHole
  <2>1. PICK bars : bars = s.bars
    OBVIOUS
  <2>2. bars # <<>> /\ CadenceAnomalies(bars) = {} /\ Spaced(bars)
    BY <2>1, SeriesOfDays, DaysAreSpaced
  <2>3. bars \in Seq(Bars)
    BY <2>2 DEF Spaced
  <2>4. PICK g : Grouping(bars, g)
    BY <2>2, <2>3, Grouped
  <2>5. PICK n \in Nat \ {0} : n = g.n
    BY <2>4 DEF Grouping
  <2>6. PICK buckets : buckets = Buckets(bars)
    OBVIOUS
  <2>7. \A k \in 1..n : /\ Len(buckets) = n
                        /\ Len(buckets[k]) = g.z[k] - g.a[k] + 1
                        /\ buckets[k][1] = bars[g.a[k]]
    BY <2>3, <2>4, <2>5, <2>6, BucketIs
  <2>8. Len(buckets) = n
    BY <2>5, <2>7
  <2>9. ASSUME NEW i \in 1..(n - 1)
        PROVE  WeekOf(buckets[i + 1][1].open) = WeekOf(buckets[i][1].open) + 1
    <3>1. i \in 1..n /\ i + 1 \in 1..n
      BY <2>5
    <3>2. WeekOf(bars[g.a[i + 1]].open) = WeekOf(bars[g.a[i]].open) + 1
      BY <2>2, <2>4, <2>5, NoWeekMissing
    <3>3. QED
      BY <3>1, <3>2, <2>7
  <2>10. ASSUME feed.continuous, NEW i \in 2..(n - 1) PROVE Len(buckets[i]) = WeekDays
    <3>1. g.z[i] - g.a[i] + 1 = WeekDays
      BY <2>2, <2>4, <2>5, <2>10, WeeksFull
    <3>2. i \in 1..n
      BY <2>5
    <3>3. QED
      BY <3>1, <3>2, <2>7
  <2>11. QED
    BY <2>1, <2>6, <2>8, <2>9, <2>10
<1>2. QED
  BY <1>1, SpecOriginInv, PTL

-----------------------------------------------------------------------------
(* The join with an earlier week                                           *)

Aggregates == [open : Int, close : Int, parts : Seq(Bars)]

(* Frames are all but the first two bars, of which there are three at      *)
(* least.                                                                  *)
FramesOf(x, frames) ==
  /\ Len(x) < 3 => Len(frames) = 0
  /\ Len(x) >= 3 => Len(frames) = Len(x) - 2
  /\ DOMAIN frames = 1..Len(frames)
  /\ \A i \in 1..Len(frames) : i + 2 \in 1..Len(x) /\ frames[i] = x[i + 2]

(* What the adapter and the kernel leave of a series of bars.              *)
LEMMA FramesAre ==
  ASSUME NEW A, NEW x \in Seq(A)
  PROVE  FramesOf(x, ReplayFrames(AdaptClosedBars(x)))
<1>1. Len(x) \in Nat
  OBVIOUS
<1>2. CASE Len(x) < 3
  <2>1. ReplayFrames(AdaptClosedBars(x)) = <<>>
    BY <1>2 DEF ReplayFrames, AdaptClosedBars
  <2>2. QED
    BY <2>1, <1>1, <1>2 DEF FramesOf
<1>3. CASE Len(x) >= 3
  <2>1. PICK y : y = Tail(x)
    OBVIOUS
  <2>2. y \in Seq(A) /\ Len(y) = Len(x) - 1 /\ \A i \in 1..(Len(x) - 1) : y[i] = x[i + 1]
    BY <2>1, <1>3
  <2>3. PICK z : z = Tail(y)
    OBVIOUS
  <2>4. z \in Seq(A) /\ Len(z) = Len(y) - 1 /\ \A i \in 1..(Len(y) - 1) : z[i] = y[i + 1]
    BY <2>2, <2>3, <1>3
  <2>5. ReplayFrames(AdaptClosedBars(x)) = z
    <3>1. AdaptClosedBars(x) = y
      BY <2>1, <1>1, <1>3 DEF AdaptClosedBars
    <3>2. y # <<>>
      BY <2>2, <1>3
    <3>3. QED
      BY <3>1, <3>2, <2>3 DEF ReplayFrames
  <2>6. Len(z) = Len(x) - 2 /\ DOMAIN z = 1..Len(z)
    BY <2>2, <2>4, <1>1
  <2>7. ASSUME NEW i \in 1..Len(z) PROVE i + 2 \in 1..Len(x) /\ z[i] = x[i + 2]
    <3>1. i \in 1..(Len(y) - 1) /\ i + 1 \in 1..(Len(x) - 1) /\ i + 2 \in 1..Len(x)
          /\ i + 1 + 1 = i + 2
      BY <2>2, <2>6, <1>1
    <3>2. z[i] = y[i + 1] /\ y[i + 1] = x[i + 1 + 1]
      BY <3>1, <2>2, <2>4
    <3>3. QED
      BY <3>1, <3>2
  <2>8. QED
    BY <2>5, <2>6, <2>7, <1>3 DEF FramesOf
<1>4. QED
  BY <1>1, <1>2, <1>3

(* The emitted weeks are the buckets, the last one only if it is closed.   *)
WeeksOf(bars, g, c) ==
  /\ c \in Nat /\ c \in {g.n - 1, g.n}
  /\ c = g.n <=> WeeklyBucketIsClosed(SubSeq(bars, g.a[g.n], g.z[g.n]), FALSE)
  /\ Len(Weekly(bars)) = c /\ Weekly(bars) \in Seq(Aggregates)
  /\ \A k \in 1..c :
       /\ Weekly(bars)[k] = [open |-> bars[g.a[k]].open, close |-> bars[g.z[k]].close,
                             parts |-> SubSeq(bars, g.a[k], g.z[k])]
       /\ Weekly(bars)[k].open = bars[g.a[k]].open
       /\ Weekly(bars)[k].close = bars[g.z[k]].close

(* The emitted weeks of a series are its buckets.                          *)
LEMMA WeeksAre ==
  ASSUME NEW bars \in Seq(Bars), bars # <<>>, Spaced(bars), NEW g, Grouping(bars, g)
  PROVE  \E c : WeeksOf(bars, g, c)
<1>1. PICK n \in Nat \ {0} : n = g.n
  BY DEF Grouping
<1>2. PICK buckets : buckets = Buckets(bars)
  OBVIOUS
<1>3. ASSUME NEW k \in 1..n
      PROVE  /\ Len(buckets) = n /\ buckets[k] = SubSeq(bars, g.a[k], g.z[k])
             /\ buckets[k] \in Seq(Bars)
             /\ buckets[k][1] = bars[g.a[k]] /\ Final(buckets[k]) = bars[g.z[k]]
             /\ bars[g.a[k]].open \in Int /\ bars[g.z[k]].close \in Int
  <2>1. g.a[k] \in 1..Len(bars) /\ g.z[k] \in 1..Len(bars)
    BY <1>1 DEF Grouping
  <2>2. bars[g.a[k]].open \in Int /\ bars[g.z[k]].close \in Int
    BY <2>1 DEF Spaced
  <2>3. k \in 1..g.n
    BY <1>1
  <2>4. /\ Len(buckets) = n /\ buckets[k] = SubSeq(bars, g.a[k], g.z[k])
        /\ buckets[k] \in Seq(Bars)
        /\ buckets[k][1] = bars[g.a[k]] /\ Final(buckets[k]) = bars[g.z[k]]
    BY <2>3, <1>1, <1>2, BucketIs
  <2>5. QED
    BY <2>2, <2>4
<1>4. Len(buckets) = n /\ n \in 1..n
  BY <1>1, <1>3
<1>5. PICK c : c = IF WeeklyBucketIsClosed(buckets[n], FALSE) THEN n ELSE n - 1
  OBVIOUS
<1>6. /\ c \in Nat /\ c \in {n - 1, n} /\ \A k \in 1..c : k \in 1..n
      /\ c = n <=> WeeklyBucketIsClosed(buckets[n], FALSE)
  <2>1. CASE WeeklyBucketIsClosed(buckets[n], FALSE)
    <3>1. c = n
      BY <2>1, <1>5, Zenon
    <3>2. c \in Nat /\ c \in {n - 1, n} /\ \A k \in 1..c : k \in 1..n
      BY <3>1, <1>1
    <3>3. QED
      BY <2>1, <3>1, <3>2, Zenon
  <2>2. CASE ~WeeklyBucketIsClosed(buckets[n], FALSE)
    <3>1. c = n - 1
      BY <2>2, <1>5, Zenon
    <3>2. c \in Nat /\ c \in {n - 1, n} /\ \A k \in 1..c : k \in 1..n
      BY <3>1, <1>1
    <3>3. c # n
      BY <3>1, <1>1
    <3>4. QED
      BY <2>2, <3>2, <3>3, Zenon
  <2>3. QED
    BY <2>1, <2>2, Zenon
<1>7. Weekly(bars) = [i \in 1..c |-> Aggregate(buckets[i])]
  BY <1>2, <1>4, <1>5 DEF Weekly
<1>8. ASSUME NEW k \in 1..c
      PROVE  /\ Aggregate(buckets[k]) =
                  [open |-> bars[g.a[k]].open, close |-> bars[g.z[k]].close,
                   parts |-> SubSeq(bars, g.a[k], g.z[k])]
             /\ Aggregate(buckets[k]) \in Aggregates
             /\ Aggregate(buckets[k]).open = bars[g.a[k]].open
             /\ Aggregate(buckets[k]).close = bars[g.z[k]].close
  <2>1. Aggregate(buckets[k]) =
          [open |-> bars[g.a[k]].open, close |-> bars[g.z[k]].close,
           parts |-> SubSeq(bars, g.a[k], g.z[k])]
    BY <1>3, <1>6 DEF Aggregate
  <2>2. SubSeq(bars, g.a[k], g.z[k]) \in Seq(Bars)
    BY <1>3, <1>6
  <2>3. QED
    BY <2>1, <2>2, <1>3, <1>6 DEF Aggregates
<1>9. Len(Weekly(bars)) = c /\ Weekly(bars) \in Seq(Aggregates)
      /\ \A k \in 1..c : Weekly(bars)[k] = Aggregate(buckets[k])
  <2>1. PICK w : w = [i \in 1..c |-> Aggregate(buckets[i])]
    OBVIOUS
  <2>2. \A i \in 1..c : Aggregate(buckets[i]) \in Aggregates
    BY <1>8
  <2>3. c \in Nat
    BY <1>6
  <2>4. Len(w) = c /\ w \in Seq(Aggregates) /\ \A k \in 1..c : w[k] = Aggregate(buckets[k])
    BY <2>1, <2>2, <2>3
  <2>5. QED
    BY <2>1, <2>4, <1>7
<1>10. c = n <=> WeeklyBucketIsClosed(SubSeq(bars, g.a[n], g.z[n]), FALSE)
  <2>1. buckets[n] = SubSeq(bars, g.a[n], g.z[n])
    BY <1>3, <1>4
  <2>2. QED
    BY <2>1, <1>6
<1>11. WeeksOf(bars, g, c)
  BY <1>1, <1>6, <1>8, <1>9, <1>10 DEF WeeksOf
<1>12. QED
  BY <1>11

(* A set of which all members are the same one is that one or empty.       *)
LEMMA AtMostOne ==
  ASSUME NEW S, \A x, y \in S : x = y
  PROVE  IsFiniteSet(S) /\ Cardinality(S) <= 1
<1>1. CASE S = {}
  <2>1. IsFiniteSet({}) /\ Cardinality({}) = 0
    BY FS_EmptySet
  <2>2. QED
    BY <2>1, <1>1
<1>2. CASE S # {}
  <2>1. PICK x \in S : TRUE
    BY <1>2
  <2>2. S = {x}
    BY <2>1
  <2>3. IsFiniteSet({x}) /\ Cardinality({x}) = 1
    BY FS_Singleton
  <2>4. QED
    BY <2>2, <2>3
<1>3. QED
  BY <1>1, <1>2

(* One bar has closed when another one opens if it is an earlier one.      *)
LEMMA ClosedBefore ==
  ASSUME NEW bars, Spaced(bars), NEW p \in 1..Len(bars), NEW q \in 1..Len(bars)
  PROVE  /\ bars[q].close <= bars[p].open <=> q < p
         /\ q < p => bars[q].close < bars[p].close
         /\ q <= p => bars[q].open <= bars[p].open
<1>1. /\ bars[q].open \in Int /\ bars[q].close \in Int /\ bars[q].open < bars[q].close
      /\ bars[p].open \in Int /\ bars[p].close \in Int /\ bars[p].open < bars[p].close
  BY DEF Spaced
<1>2. q < p => bars[q].close <= bars[p].open
  BY DEF Spaced
<1>3. p < q => bars[p].close <= bars[q].open
  BY DEF Spaced
<1>4. Len(bars) \in Nat
  BY DEF Spaced
<1>5. CASE q < p
  BY <1>1, <1>2, <1>5
<1>6. CASE q = p
  BY <1>1, <1>6
<1>7. CASE p < q
  BY <1>1, <1>3, <1>7
<1>8. QED
  BY <1>4, <1>5, <1>6, <1>7

(* A week that lies strictly before the week of a bar's close was over     *)
(* when the bar opened.                                                    *)
LEMMA PriorIsOver ==
  ASSUME NEW bars, Spaced(bars), NEW p \in 1..Len(bars), NEW q \in 1..Len(bars),
         WeekOf(bars[q].close) < WeekOf(bars[p].close)
  PROVE  bars[q].close <= bars[p].open
<1>1. bars[q].close \in Int /\ bars[p].close \in Int /\ Len(bars) \in Nat
  BY DEF Spaced
<1>2. ~(bars[p].close <= bars[q].close)
  <2>1. /\ WeekOf(bars[p].close) \in Int /\ WeekOf(bars[q].close) \in Int
        /\ bars[p].close <= bars[q].close => WeekOf(bars[p].close) <= WeekOf(bars[q].close)
    BY <1>1, WeeksOrdered
  <2>2. QED
    BY <2>1
<1>3. ~(p < q) /\ p # q
  BY <1>1, <1>2, ClosedBefore
<1>4. QED
  BY <1>1, <1>3, ClosedBefore

(* Of two weeks that were over when a bar opened the earlier one closed    *)
(* strictly before the week of the bar's close: a whole week lies between. *)
LEMMA WeekBetween ==
  ASSUME NEW bars, Spaced(bars), NEW g, Grouping(bars, g), NEW k \in 1..g.n, NEW l \in 1..g.n,
         k < l, NEW p \in 1..Len(bars), bars[g.z[l]].close <= bars[p].open
  PROVE  WeekOf(bars[g.z[k]].close) < WeekOf(bars[p].close)
<1>1. PICK n \in Nat : n = g.n
  BY DEF Grouping
<1>2. PICK q \in 1..Len(bars), a \in 1..Len(bars), z \in 1..Len(bars) :
        q = g.z[k] /\ a = g.a[l] /\ z = g.z[l] /\ a <= z
  BY DEF Grouping
<1>3. q < a
  BY <1>2, BucketsAscend
<1>4. z < p
  BY <1>2, ClosedBefore
<1>5. l \in 1..(g.n - 1) /\ l + 1 \in 1..g.n /\ l < l + 1
  <2>1. l # n
    <3>1. SUFFICES ASSUME l = n PROVE FALSE
      OBVIOUS
    <3>2. z = Len(bars) /\ Len(bars) \in Nat
      BY <3>1, <1>1, <1>2 DEF Grouping, Spaced
    <3>3. QED
      BY <3>2, <1>4
  <2>2. QED
    BY <2>1, <1>1
<1>6. PICK b \in 1..Len(bars) : b = g.a[l + 1] /\ b = z + 1
  BY <1>2, <1>5 DEF Grouping
<1>7. WeekOf(bars[a].open) < WeekOf(bars[b].open)
  BY <1>2, <1>5, <1>6, BucketsAscend
<1>8. PICK t \in Int, u \in Int, v \in Int, w \in Int, x \in Int :
        /\ t = bars[q].close /\ u = bars[a].open /\ v = bars[b].open /\ w = bars[p].close
        /\ x = bars[p].open
  BY DEF Spaced
<1>9. t <= u
  BY <1>3, <1>8, ClosedBefore
<1>10. v <= x /\ x < w
  <2>1. b <= p
    BY <1>4, <1>6
  <2>2. v <= x
    BY <2>1, <1>8, ClosedBefore
  <2>3. QED
    BY <2>2, <1>8 DEF Spaced
<1>11. v <= w
  BY <1>10
<1>12. PICK wt \in Int, wu \in Int, wv \in Int, ww \in Int :
         wt = WeekOf(t) /\ wu = WeekOf(u) /\ wv = WeekOf(v) /\ ww = WeekOf(w)
  BY WeeksOrdered
<1>13. wt <= wu /\ wv <= ww
  BY <1>9, <1>11, <1>12, WeeksOrdered
<1>14. wu < wv
  BY <1>7, <1>8, <1>12
<1>15. wt < ww
  BY <1>13, <1>14
<1>16. QED
  BY <1>2, <1>8, <1>12, <1>15

(* What is said of the week that a daily row f is compared with.           *)
Lagging(f, weekly) ==
  LET over   == {i \in DOMAIN weekly : weekly[i].close <= f.open}
      joined == LatestStrictlyPriorWeek(f, weekly)
  IN  /\ \A w \in joined : \E i \in over : w = weekly[i]
      /\ Cardinality(over) > 1 => joined # {}
      /\ \A w \in joined : Cardinality({i \in over : weekly[i].open > w.open}) <= 1

(* The week a daily row is compared with is one that was over when the     *)
(* row's bar opened, and at most one such week is later (dynamics.rs:343). *)
THEOREM JoinLagsAtMostAWeek == Spec => []JoinLagBounded
<1>1. MarketInv /\ OriginInv => JoinLagBounded
  <2> SUFFICES ASSUME MarketInv, OriginInv, NEW s \in series
               PROVE  \A f \in {DailyFrames(s.bars)[i] : i \in DOMAIN DailyFrames(s.bars)} :
                        Lagging(f, WeeklyFrames(s.bars))
    BY DEF JoinLagBounded, Lagging
  <2>1. PICK bars : bars = s.bars
    OBVIOUS
  <2>2. Spaced(bars) /\ bars \in Seq(Bars)
    BY <2>1, SeriesOfDays, DaysAreSpaced DEF Spaced
  <2>3. PICK daily : daily = DailyFrames(bars)
    OBVIOUS
  <2>4. PICK weekly : weekly = WeeklyFrames(bars)
    OBVIOUS
  <2> SUFFICES ASSUME NEW j \in DOMAIN daily, NEW f, f = daily[j] PROVE Lagging(f, weekly)
    BY <2>1, <2>3, <2>4
  <2>over. PICK over : over = {i \in DOMAIN weekly : weekly[i].close <= f.open}
    OBVIOUS
  <2>joined. PICK joined : joined = LatestStrictlyPriorWeek(f, weekly)
    OBVIOUS
  <2>5. PICK p \in 1..Len(bars) : f = bars[p]
    BY <2>2, <2>3, FramesAre DEF FramesOf, DailyFrames
  <2>6. bars # <<>>
    BY <2>5
  <2>7. PICK g : Grouping(bars, g)
    BY <2>2, <2>6, Grouped
  <2>8. PICK c : WeeksOf(bars, g, c)
    BY <2>2, <2>6, <2>7, WeeksAre
  <2>9. PICK n \in Nat : n = g.n
    BY <2>7 DEF Grouping
  <2>10. PICK m \in Nat : m = Len(weekly) /\ DOMAIN weekly = 1..m
    <3>1. Weekly(bars) \in Seq(Aggregates)
      BY <2>8 DEF WeeksOf
    <3>2. FramesOf(Weekly(bars), weekly)
      BY <3>1, <2>4, FramesAre DEF WeeklyFrames
    <3>3. Len(weekly) \in Nat
      BY <3>1, <3>2 DEF FramesOf
    <3>4. QED
      BY <3>2, <3>3 DEF FramesOf
  <2>11. ASSUME NEW i \in 1..m
         PROVE  /\ i + 2 \in 1..n /\ g.z[i + 2] \in 1..Len(bars) /\ g.a[i + 2] \in 1..Len(bars)
                /\ weekly[i].open = bars[g.a[i + 2]].open
                /\ weekly[i].close = bars[g.z[i + 2]].close
    <3>1. Weekly(bars) \in Seq(Aggregates) /\ Len(Weekly(bars)) = c /\ c \in Nat /\ c \in {n - 1, n}
      BY <2>8, <2>9 DEF WeeksOf
    <3>2. FramesOf(Weekly(bars), weekly)
      BY <3>1, <2>4, FramesAre DEF WeeklyFrames
    <3>3. i + 2 \in 1..c /\ weekly[i] = Weekly(bars)[i + 2]
      BY <3>1, <3>2, <2>10 DEF FramesOf
    <3>4. /\ weekly[i].open = bars[g.a[i + 2]].open
          /\ weekly[i].close = bars[g.z[i + 2]].close
      BY <3>3, <2>8 DEF WeeksOf
    <3>5. i + 2 \in 1..n
      BY <3>1, <3>3
    <3>6. g.z[i + 2] \in 1..Len(bars) /\ g.a[i + 2] \in 1..Len(bars)
      BY <3>5, <2>7, <2>9 DEF Grouping
    <3>7. QED
      BY <3>4, <3>5, <3>6
  <2>12. PICK prior : prior = {i \in 1..m : WeekOf(weekly[i].close) < WeekOf(f.close)}
    OBVIOUS
  <2>13. joined = {weekly[i] : i \in {l \in prior : \A k \in prior : k <= l}}
    BY <2>10, <2>12, <2>joined DEF LatestStrictlyPriorWeek
  <2>14. ASSUME NEW i \in prior PROVE i \in over
    <3>1. i \in 1..m /\ WeekOf(weekly[i].close) < WeekOf(f.close)
      BY <2>12
    <3>2. bars[g.z[i + 2]].close <= bars[p].open
      BY <3>1, <2>2, <2>5, <2>11, PriorIsOver
    <3>3. QED
      BY <3>1, <3>2, <2>5, <2>10, <2>11, <2>over
  <2>15. ASSUME NEW i \in over, NEW l \in over, i < l PROVE i \in prior
    <3>1. i \in 1..m /\ l \in 1..m /\ weekly[l].close <= f.open
      BY <2>10, <2>over
    <3>2. i + 2 \in 1..g.n /\ l + 2 \in 1..g.n /\ i + 2 < l + 2
      BY <3>1, <2>9, <2>11, <2>15
    <3>3. bars[g.z[l + 2]].close <= bars[p].open
      BY <3>1, <2>5, <2>11
    <3>4. WeekOf(bars[g.z[i + 2]].close) < WeekOf(bars[p].close)
      BY <3>2, <3>3, <2>2, <2>7, WeekBetween
    <3>5. QED
      BY <3>1, <3>4, <2>5, <2>11, <2>12
  <2>16. \A i \in over : i \in 1..m /\ i \in Nat
    BY <2>10, <2>over
  <2>17. ASSUME NEW w \in joined PROVE \E i \in over : w = weekly[i]
    BY <2>13, <2>14
  <2>18. ASSUME Cardinality(over) > 1 PROVE joined # {}
    <3>1. PICK i \in over, l \in over : i # l
      <4>1. SUFFICES ASSUME \A x, y \in over : x = y PROVE FALSE
        OBVIOUS
      <4>2. IsFiniteSet(over) /\ Cardinality(over) <= 1
        BY <4>1, AtMostOne
      <4>3. Cardinality(over) \in Nat
        BY <4>2, FS_CardinalityType
      <4>4. QED
        BY <4>2, <4>3, <2>18
    <3>2. prior # {}
      <4>1. i < l \/ l < i
        BY <3>1, <2>16
      <4>2. QED
        BY <3>1, <4>1, <2>15
    <3>3. PICK h \in prior : \A k \in prior : k <= h
      <4>1. IsFiniteSet(1..m)
        BY FS_Interval
      <4>2. prior \in SUBSET (1..m) /\ prior \in SUBSET Nat
        BY <2>12
      <4>3. IsFiniteSet(prior)
        BY <4>1, <4>2, FS_Subset
      <4>4. QED
        BY <4>2, <4>3, <3>2, FiniteGreatest
    <3>4. QED
      BY <3>3, <2>13
  <2>19. ASSUME NEW w \in joined
         PROVE  Cardinality({i \in over : weekly[i].open > w.open}) <= 1
    <3>1. PICK h \in prior : w = weekly[h] /\ \A k \in prior : k <= h
      BY <2>13
    <3>2. ASSUME NEW i \in over, NEW l \in over, weekly[i].open > w.open, i < l PROVE FALSE
      <4>1. i \in prior
        BY <3>2, <2>15
      <4>2. i <= h /\ i \in 1..m /\ h \in 1..m
        BY <4>1, <3>1, <2>12
      <4>3. i = h \/ i + 2 < h + 2
        BY <4>2
      <4>4. PICK x \in 1..Len(bars), y \in 1..Len(bars) : x = g.a[i + 2] /\ y = g.a[h + 2]
        BY <4>2, <2>11
      <4>5. x <= y
        <5>1. CASE i = h
          BY <5>1, <4>4
        <5>2. CASE i + 2 < h + 2
          <6>1. i + 2 \in 1..g.n /\ h + 2 \in 1..g.n
            BY <4>2, <2>9, <2>11
          <6>2. g.z[i + 2] < g.a[h + 2]
            BY <6>1, <5>2, <2>2, <2>7, BucketsAscend
          <6>3. g.z[i + 2] \in Nat /\ g.a[i + 2] <= g.z[i + 2]
            BY <6>1, <2>7 DEF Grouping
          <6>4. QED
            BY <6>2, <6>3, <4>4
        <5>3. QED
          BY <5>1, <5>2, <4>3
      <4>6. bars[x].open <= bars[y].open /\ bars[x].open \in Int /\ bars[y].open \in Int
        BY <4>5, <2>2, ClosedBefore DEF Spaced
      <4>7. weekly[i].open = bars[x].open /\ w.open = bars[y].open
        BY <4>2, <4>4, <2>11, <3>1
      <4>8. QED
        BY <4>6, <4>7, <3>2
    <3>3. ASSUME NEW i \in over, NEW l \in over, weekly[i].open > w.open, weekly[l].open > w.open
          PROVE  i = l
      <4>1. ~(i < l) /\ ~(l < i)
        BY <3>2, <3>3
      <4>2. QED
        BY <4>1, <2>16
    <3>4. PICK S : S = {i \in over : weekly[i].open > w.open}
      OBVIOUS
    <3>5. \A x, y \in S : x = y
      BY <3>3, <3>4
    <3>6. QED
      BY <3>4, <3>5, AtMostOne
  <2>20. QED
    BY <2>17, <2>18, <2>19, <2>over, <2>joined DEF Lagging
<1>2. QED
  BY <1>1, SpecOriginInv, PTL

-----------------------------------------------------------------------------
(* Later series                                                            *)

(* A subset has no more members.                                           *)
LEMMA FewerDays ==
  ASSUME NEW S \in SUBSET (0..(Days - 1)), NEW T \in SUBSET S
  PROVE  /\ IsFiniteSet(S) /\ IsFiniteSet(T)
         /\ Cardinality(S) \in Nat /\ Cardinality(T) \in Nat /\ Cardinality(T) <= Cardinality(S)
<1>1. IsFiniteSet(0..(Days - 1))
  <2>1. Days - 1 \in Int
    BY Constants
  <2>2. QED
    BY <2>1, FS_Interval
<1>2. IsFiniteSet(S)
  BY <1>1, FS_Subset
<1>3. IsFiniteSet(T) /\ Cardinality(T) <= Cardinality(S)
  BY <1>2, FS_Subset
<1>4. QED
  BY <1>2, <1>3, FS_CardinalityType

(* The days up to an earlier one are days up to a later one.               *)
LEMMA EarlierDays ==
  ASSUME NEW S \in SUBSET (0..(Days - 1)), NEW d \in Nat, NEW e \in Nat, d <= e
  PROVE  UpTo(S, d) \in SUBSET UpTo(S, e) /\ UpTo(S, e) \in SUBSET (0..(Days - 1))
<1>1. ASSUME NEW x \in S, x <= d PROVE x <= e
  <2>1. x \in Nat
    BY Constants
  <2>2. QED
    BY <2>1, <1>1
<1>2. UpTo(S, d) = {x \in S : x <= d} /\ UpTo(S, e) = {x \in S : x <= e}
  BY DEF UpTo
<1>3. QED
  BY <1>1, <1>2

(* What a later answer shows of the days that an earlier one knew: from    *)
(* its first day on all that the earlier one showed, and nothing else.     *)
Continuing(o, p) ==
  \A d \in Shown(p), e \in Shown(o) : d <= e => d \in Shown(o) /\ e \in Shown(p)

(* Klines asked for later continue the earlier ones.                       *)
LEMMA KlinesContinue ==
  ASSUME feed.kind = "BINANCE", NEW o, NEW p, o.begun \in Nat, o.parsed \in Nat,
         p.begun \in Nat, p.parsed \in Nat, o.begun <= p.begun, o.parsed <= p.parsed
  PROVE  Continuing(o, p)
<1>1. PICK S : S = Begun(o.begun)
  OBVIOUS
<1>2. PICK T : T = Begun(p.begun)
  OBVIOUS
<1>3. /\ Shown(o) = {d \in S : Late(S, d) /\ CloseOf(d) < o.parsed}
      /\ Shown(p) = {d \in T : Late(T, d) /\ CloseOf(d) < p.parsed}
  BY <1>1, <1>2 DEF Shown
<1>4. /\ T \in SUBSET (0..(Days - 1)) /\ S \in SUBSET T
      /\ \A d \in T : d \in S <=> d * Day <= o.begun
  <2>1. \A d \in 0..(Days - 1) : d * Day \in Int
    BY Constants DEF Day
  <2>2. QED
    BY <2>1, <1>1, <1>2 DEF Begun
<1>5. PICK m \in Nat, n \in Nat : m = Cardinality(S) /\ n = Cardinality(T) /\ m <= n
  BY <1>4, FewerDays
<1> SUFFICES ASSUME NEW d \in T, Late(T, d), CloseOf(d) < p.parsed,
                    NEW e \in S, Late(S, e), CloseOf(e) < o.parsed, d <= e
             PROVE  /\ d \in S /\ Late(S, d) /\ CloseOf(d) < o.parsed
                    /\ e \in T /\ Late(T, e) /\ CloseOf(e) < p.parsed
  BY <1>3 DEF Continuing
<1>6. d \in 0..(Days - 1) /\ e \in 0..(Days - 1) /\ d \in Nat /\ e \in Nat /\ e \in T
  BY <1>4, Constants
<1>7. d \in S
  <2>1. e * Day <= o.begun
    BY <1>4, <1>6
  <2>2. d * Day <= o.begun
    BY <2>1, <1>6 DEF Day
  <2>3. QED
    BY <2>2, <1>4
<1>8. CloseOf(d) <= CloseOf(e) /\ CloseOf(d) \in Nat /\ CloseOf(e) \in Nat
  BY <1>6 DEF CloseOf, Day
<1>9. UpTo(S, d) = UpTo(T, d)
  <2>1. \A x \in T : x <= d => x \in S
    <3>1. \A x \in T : x \in Nat
      BY <1>4, Constants
    <3>2. d * Day <= o.begun
      BY <1>4, <1>7
    <3>3. QED
      BY <3>1, <3>2, <1>4, <1>6 DEF Day
  <2>2. QED
    BY <2>1, <1>4 DEF UpTo
<1>10. UpTo(T, d) \in SUBSET UpTo(T, e) /\ UpTo(T, e) \in SUBSET (0..(Days - 1))
  BY <1>4, <1>6, EarlierDays
<1>11. PICK x \in Nat, y \in Nat :
         x = Cardinality(UpTo(T, d)) /\ y = Cardinality(UpTo(T, e)) /\ x <= y
  BY <1>10, FewerDays
<1>12. x >= n - KlineLimit + 1
  BY <1>5, <1>11 DEF Late
<1>13. x >= m - KlineLimit + 1 /\ y >= n - KlineLimit + 1
  BY <1>5, <1>11, <1>12, Constants
<1>14. Late(S, d)
  BY <1>5, <1>9, <1>11, <1>13 DEF Late
<1>15. Late(T, e)
  BY <1>5, <1>11, <1>13 DEF Late
<1>16. QED
  BY <1>6, <1>7, <1>8, <1>14, <1>15

(* So do the sessions of the same contract.                                *)
LEMMA SessionsContinue ==
  ASSUME feed.kind = "FUTURES", NEW o, NEW p, NEW contract \in Contracts,
         o.contract = contract, p.contract = contract,
         o.begun \in Nat, p.begun \in Nat, o.begun <= p.begun,
         o.read \in Nat, p.read \in Nat, o.read <= p.read
  PROVE  Continuing(o, p)
<1>1. PICK S : S = Listed(contract, o.read)
  OBVIOUS
<1>2. PICK T : T = Listed(contract, p.read)
  OBVIOUS
<1>3. /\ Shown(o) = {d \in S : Early(S, d) /\ DayOf(CloseOf(d)) < DayOf(o.begun)}
      /\ Shown(p) = {d \in T : Early(T, d) /\ DayOf(CloseOf(d)) < DayOf(p.begun)}
  BY <1>1, <1>2 DEF Shown
<1>4. /\ T \in SUBSET (0..(Days - 1)) /\ S \in SUBSET T
      /\ \A d \in T : d \in S <=> OpenOf(d) <= o.read
  <2>1. \A d \in 0..(Days - 1) : OpenOf(d) \in Int
    BY Constants DEF Day, OpenOf
  <2>2. QED
    BY <2>1, <1>1, <1>2 DEF Listed
<1>5. DayOf(o.begun) \in Nat /\ DayOf(p.begun) \in Nat /\ DayOf(o.begun) <= DayOf(p.begun)
  BY DEF DayOf, Day
<1> SUFFICES ASSUME NEW d \in T, Early(T, d), DayOf(CloseOf(d)) < DayOf(p.begun),
                    NEW e \in S, Early(S, e), DayOf(CloseOf(e)) < DayOf(o.begun), d <= e
             PROVE  /\ d \in S /\ Early(S, d) /\ DayOf(CloseOf(d)) < DayOf(o.begun)
                    /\ e \in T /\ Early(T, e) /\ DayOf(CloseOf(e)) < DayOf(p.begun)
  BY <1>3 DEF Continuing
<1>6. \A x \in T : x \in Nat /\ OpenOf(x) = x * Day - 1
  BY <1>4, Constants DEF OpenOf
<1>7. d \in Nat /\ e \in Nat /\ e \in T /\ OpenOf(e) <= o.read
  BY <1>4, <1>6
<1>8. \A x \in T : x <= e => x \in S
  <2>1. \A x \in T : x <= e => OpenOf(x) <= o.read
    BY <1>6, <1>7 DEF Day
  <2>2. QED
    BY <2>1, <1>4
<1>9. UpTo(S, e) = UpTo(T, e)
  BY <1>4, <1>8 DEF UpTo
<1>10. UpTo(S, d) \in SUBSET UpTo(S, e) /\ UpTo(S, e) \in SUBSET (0..(Days - 1))
  <2>1. S \in SUBSET (0..(Days - 1))
    BY <1>4
  <2>2. QED
    BY <2>1, <1>7, EarlierDays
<1>11. PICK x \in Nat, y \in Nat :
         x = Cardinality(UpTo(S, d)) /\ y = Cardinality(UpTo(S, e)) /\ x <= y
  BY <1>10, FewerDays
<1>12. Early(S, d) /\ Early(T, e)
  BY <1>9, <1>11, Constants DEF Early
<1>13. /\ DayOf(CloseOf(d)) \in Nat /\ DayOf(CloseOf(e)) \in Nat
       /\ DayOf(CloseOf(d)) <= DayOf(CloseOf(e))
  <2>1. CloseOf(d) = d * 2 + 1 /\ CloseOf(e) = e * 2 + 1
    BY <1>7 DEF CloseOf, Day
  <2>2. QED
    BY <2>1, <1>7 DEF DayOf, Day
<1>14. QED
  BY <1>5, <1>7, <1>8, <1>12, <1>13

(* The order of requests makes an answer continue an earlier one.          *)
LEMMA LaterContinues ==
  ASSUME feed \in Feeds, NEW s, NEW t, NEW o, NEW p, Stems(s, o), Stems(t, p),
         o.parsed <= p.begun, s.contract = t.contract
  PROVE  Continuing(o, p)
<1>1. /\ o.begun \in Nat /\ o.read \in Nat /\ o.parsed \in Nat
      /\ p.begun \in Nat /\ p.read \in Nat /\ p.parsed \in Nat
      /\ o.begun <= o.read /\ o.read <= o.parsed /\ p.begun <= p.read /\ p.read <= p.parsed
  BY DEF Stems
<1>2. o.begun <= p.begun /\ o.parsed <= p.parsed /\ o.read <= p.read
  BY <1>1
<1>3. CASE feed.kind = "BINANCE"
  BY <1>1, <1>2, <1>3, KlinesContinue
<1>4. CASE feed.kind = "STANDARD"
  <2>1. PICK m \in Nat, n \in Nat : m = DayOf(o.begun) /\ n = DayOf(p.begun) /\ m <= n
    BY <1>1, <1>2 DEF DayOf, Day
  <2>2. \A d \in 0..(Days - 1) : d \in Nat
    BY Constants
  <2>3. /\ Shown(o) = {d \in 0..(Days - 1) : HasBar(d) /\ m - 1 - History <= d /\ d <= m - 1}
        /\ Shown(p) = {d \in 0..(Days - 1) : HasBar(d) /\ n - 1 - History <= d /\ d <= n - 1}
    BY <1>4, <2>1 DEF Shown
  <2>4. QED
    BY <2>1, <2>2, <2>3, Constants DEF Continuing
<1>5. CASE feed.kind = "FUTURES"
  <2>1. /\ o.contract \in Contracts /\ o.contract.ticker = s.contract
        /\ p.contract \in Contracts /\ p.contract.ticker = t.contract
    BY <1>5 DEF Stems
  <2>2. o.contract = p.contract
    BY <2>1, ContractAssumption
  <2>3. QED
    BY <2>1, <2>2, <1>1, <1>2, <1>5, SessionsContinue
<1>6. CASE feed.kind = "CORPUS"
  <2>1. /\ Shown(o) = {d \in 0..(Days - 1) : HasBar(d) /\ (d + 1) * Day <= o.begun}
        /\ Shown(p) = {d \in 0..(Days - 1) : HasBar(d) /\ (d + 1) * Day <= p.begun}
    BY <1>6 DEF Shown
  <2>2. \A d \in 0..(Days - 1) : d \in Nat
    BY Constants
  <2>3. QED
    BY <2>1, <2>2, <1>1, <1>2 DEF Continuing, Day
<1>7. feed.kind \in Kinds
  BY SeriesAssumption
<1>8. QED
  BY <1>3, <1>4, <1>5, <1>6, <1>7 DEF Kinds

(* The bars of a later series: those of the earlier one that it reaches    *)
(* back to, and later ones.                                                *)
Follows(old, new) ==
  /\ Spaced(old) /\ Spaced(new)
  /\ \A i \in 1..Len(old), j \in 1..Len(new) :
       /\ new[j].open <= old[i].open => /\ \E h \in 1..Len(old) : old[h] = new[j]
                                        /\ \E l \in 1..Len(new) : new[l] = old[i]
       /\ old[i].close = new[j].close => old[i].open = new[j].open

(* A bar read after its day does not change.                               *)
LEMMA WholeBar ==
  ASSUME NEW d \in 0..(Days - 1), NEW r \in Nat, NEW t \in Nat, r <= t, BarAt(d, r).whole
  PROVE  BarAt(d, t) = BarAt(d, r)
<1>1. r >= (d + 1) * Day /\ (d + 1) * Day \in Int
  BY BarOfDay, Constants DEF Day
<1>2. t >= (d + 1) * Day
  BY <1>1
<1>3. (t >= (d + 1) * Day) = (r >= (d + 1) * Day)
  BY <1>1, <1>2
<1>4. QED
  BY <1>3 DEF BarAt

(* Days are ordered as the opening of their bars, and are known by their   *)
(* close.                                                                  *)
LEMMA DaysByTimes ==
  ASSUME NEW d \in 0..(Days - 1), NEW e \in 0..(Days - 1)
  PROVE  /\ d \in Nat /\ e \in Nat
         /\ OpenOf(d) <= OpenOf(e) <=> d <= e
         /\ CloseOf(d) = CloseOf(e) => d = e
<1>1. d \in Nat /\ e \in Nat
  BY Constants
<1>2. OpenOf(d) <= OpenOf(e) <=> d <= e
  BY <1>1 DEF OpenOf, Day
<1>3. CloseOf(d) = CloseOf(e) => d = e
  BY <1>1 DEF CloseOf, Day
<1>4. QED
  BY <1>1, <1>2, <1>3

(* The series of a later request follows one without an open bar.          *)
LEMMA SeriesFollows ==
  ASSUME feed \in Feeds, NEW s, NEW t, NEW o, NEW p, Stems(s, o), Stems(t, p),
         o.parsed <= p.begun, s.contract = t.contract, Increasing(s.bars), Increasing(t.bars),
         \A i \in DOMAIN s.bars : s.bars[i].whole
  PROVE  Follows(s.bars, t.bars)
<1>1. PICK old, new : old = s.bars /\ new = t.bars
  OBVIOUS
<1>2. /\ o.read \in Nat /\ p.read \in Nat /\ o.parsed \in Nat /\ p.begun \in Nat
      /\ o.read <= o.parsed /\ p.begun <= p.read
      /\ Shows(old, Shown(o), o.read) /\ Shows(new, Shown(p), p.read)
  BY <1>1 DEF Stems
<1>3. o.read <= p.read
  BY <1>2
<1>4. Spaced(old) /\ Spaced(new)
  BY <1>1, StemsOfDays, DaysAreSpaced
<1>5. \A i \in 1..Len(old) : old[i].whole
  BY <1>1, <1>4 DEF Spaced
<1>6. Continuing(o, p)
  BY LaterContinues
<1>7. /\ \A d \in Shown(o) : d \in 0..(Days - 1)
      /\ \A d \in Shown(p) : d \in 0..(Days - 1)
  BY ShownDays
<1>8. ASSUME NEW i \in 1..Len(old), NEW j \in 1..Len(new)
      PROVE  /\ new[j].open <= old[i].open => /\ \E h \in 1..Len(old) : old[h] = new[j]
                                              /\ \E l \in 1..Len(new) : new[l] = old[i]
             /\ old[i].close = new[j].close => old[i].open = new[j].open
  <2>1. PICK e \in Shown(o) : old[i] = BarAt(e, o.read)
    BY <1>2 DEF Shows
  <2>2. PICK d \in Shown(p) : new[j] = BarAt(d, p.read)
    BY <1>2 DEF Shows
  <2>3. d \in 0..(Days - 1) /\ e \in 0..(Days - 1)
    BY <1>7
  <2>4. /\ old[i].open = OpenOf(e) /\ old[i].close = CloseOf(e)
        /\ new[j].open = OpenOf(d) /\ new[j].close = CloseOf(d)
    BY <2>1, <2>2, <2>3, <1>2, BarOfDay
  <2>5. old[i].close = new[j].close => old[i].open = new[j].open
    BY <2>3, <2>4, DaysByTimes
  <2>6. ASSUME new[j].open <= old[i].open
        PROVE  /\ \E h \in 1..Len(old) : old[h] = new[j]
               /\ \E l \in 1..Len(new) : new[l] = old[i]
    <3>1. d <= e
      BY <2>3, <2>4, <2>6, DaysByTimes
    <3>2. d \in Shown(o) /\ e \in Shown(p)
      BY <3>1, <1>6 DEF Continuing
    <3>3. PICK h \in 1..Len(old) : old[h] = BarAt(d, o.read)
      BY <3>2, <1>2 DEF Shows
    <3>4. PICK l \in 1..Len(new) : new[l] = BarAt(e, p.read)
      BY <3>2, <1>2 DEF Shows
    <3>5. BarAt(d, p.read) = BarAt(d, o.read)
      BY <3>3, <2>3, <1>2, <1>3, <1>5, WholeBar
    <3>6. BarAt(e, p.read) = BarAt(e, o.read)
      BY <2>1, <2>3, <1>2, <1>3, <1>5, WholeBar
    <3>7. QED
      BY <3>3, <3>4, <3>5, <3>6, <2>1, <2>2
  <2>7. QED
    BY <2>5, <2>6
<1>9. QED
  BY <1>1, <1>4, <1>8 DEF Follows

(* The later series is the earlier one without its first k bars, and with  *)
(* later bars.                                                             *)
Shifted(old, new, k) ==
  /\ k \in 0..Len(old)
  /\ \A i \in (k + 1)..Len(old) : i - k \in 1..Len(new) /\ new[i - k] = old[i]
  /\ \A i \in 1..k : old[i].open < new[1].open
  /\ \A i \in 1..Len(old), j \in 1..Len(new) : j > Len(old) - k => old[i].open < new[j].open

(* Places of a series are ordered as the openings of its bars.             *)
LEMMA PlacesByOpen ==
  ASSUME NEW bars, Spaced(bars), NEW i \in 1..Len(bars), NEW j \in 1..Len(bars)
  PROVE  /\ bars[i].open \in Int /\ bars[j].open \in Int
         /\ bars[i].open < bars[j].open <=> i < j
<1>1. ASSUME NEW x \in 1..Len(bars), NEW y \in 1..Len(bars), x < y
      PROVE  bars[x].open < bars[y].open
  <2>1. bars[x].open < bars[x].close /\ bars[x].close <= bars[y].open
    BY <1>1 DEF Spaced
  <2>2. bars[x].open \in Int /\ bars[x].close \in Int /\ bars[y].open \in Int
    BY DEF Spaced
  <2>3. QED
    BY <2>1, <2>2
<1>2. bars[i].open \in Int /\ bars[j].open \in Int /\ Len(bars) \in Nat
  BY DEF Spaced
<1>3. i < j \/ i = j \/ j < i
  BY <1>2
<1>4. QED
  BY <1>1, <1>2, <1>3

(* A series that follows another one is the other one shifted.             *)
LEMMA Shift ==
  ASSUME NEW old, NEW new, Follows(old, new), new # <<>>
  PROVE  \E k : Shifted(old, new, k)
<1>1. Spaced(old) /\ Spaced(new)
  BY DEF Follows
<1>2. Len(old) \in Nat /\ Len(new) \in Nat \ {0} /\ 1 \in 1..Len(new)
  BY <1>1 DEF Spaced
<1>3. PICK K : K = {i \in 0..Len(old) : \A h \in 1..i : old[h].open < new[1].open}
  OBVIOUS
<1>4. PICK k \in K : \A x \in K : x <= k
  <2>1. K \in SUBSET Nat /\ 0 \in K /\ IsFiniteSet(K)
    <3>1. IsFiniteSet(0..Len(old))
      BY <1>2, FS_Interval
    <3>2. K \in SUBSET (0..Len(old))
      BY <1>3
    <3>3. 0 \in K
      BY <1>2, <1>3
    <3>4. IsFiniteSet(K)
      BY <3>1, <3>2, FS_Subset
    <3>5. K \in SUBSET Nat
      BY <3>2
    <3>6. QED
      BY <3>3, <3>4, <3>5
  <2>2. QED
    BY <2>1, FiniteGreatest
<1>5. k \in 0..Len(old) /\ \A h \in 1..k : old[h].open < new[1].open
  BY <1>3, <1>4
<1>6. \A i \in 1..Len(old), j \in 1..Len(new) :
        new[j].open <= old[i].open => /\ \E h \in 1..Len(old) : old[h] = new[j]
                                      /\ \E l \in 1..Len(new) : new[l] = old[i]
  BY DEF Follows
<1>7. ASSUME NEW i \in (k + 1)..Len(old) PROVE i \in 1..Len(old) /\ new[1].open <= old[i].open
  <2>1. k + 1 \in 1..Len(old) /\ i \in 1..Len(old) /\ k + 1 \in 0..Len(old)
    BY <1>2, <1>5
  <2>2. k + 1 \notin K
    BY <2>1, <1>4, <1>5
  <2>3. ~(old[k + 1].open < new[1].open)
    <3>1. PICK h \in 1..(k + 1) : ~(old[h].open < new[1].open)
      BY <2>1, <2>2, <1>3
    <3>2. h = k + 1
      BY <3>1, <1>5
    <3>3. QED
      BY <3>1, <3>2
  <2>4. old[k + 1].open <= old[i].open
    BY <2>1, <1>1, ClosedBefore
  <2>5. /\ old[k + 1].open \in Int /\ old[i].open \in Int /\ new[1].open \in Int
    BY <2>1, <1>1, <1>2, PlacesByOpen
  <2>6. QED
    BY <2>1, <2>3, <2>4, <2>5
<1> DEFINE P == {i \in (k + 1)..Len(old) : i - k \in 1..Len(new) /\ new[i - k] = old[i]}
<1>8. k + 1 <= Len(old) => k + 1 \in P
  <2> SUFFICES ASSUME k + 1 <= Len(old) PROVE k + 1 \in P
    OBVIOUS
  <2>1. k + 1 \in (k + 1)..Len(old) /\ k + 1 \in 1..Len(old) /\ k + 1 - k = 1
    BY <1>2, <1>5
  <2>2. new[1].open <= old[k + 1].open
    BY <2>1, <1>7
  <2>3. PICK h \in 1..Len(old) : old[h] = new[1]
    BY <2>1, <2>2, <1>2, <1>6
  <2>4. ~(h \in 1..k)
    <3>1. new[1].open \in Int
      BY <1>1, <1>2, PlacesByOpen
    <3>2. QED
      BY <3>1, <2>3, <1>5
  <2>5. ~(k + 1 < h)
    <3>1. SUFFICES ASSUME k + 1 < h PROVE FALSE
      OBVIOUS
    <3>2. old[k + 1].open < old[h].open /\ old[k + 1].open \in Int /\ old[h].open \in Int
      BY <3>1, <2>1, <1>1, PlacesByOpen
    <3>3. QED
      BY <3>2, <2>2, <2>3
  <2>6. h = k + 1
    BY <2>4, <2>5, <1>5
  <2>7. PICK x \in 1..Len(old) : x = k + 1
    BY <2>1
  <2>8. x \in (k + 1)..Len(old) /\ x - k = 1 /\ new[1] = old[x]
    <3>1. x \in (k + 1)..Len(old)
      BY <2>1, <2>7
    <3>2. x - k = 1
      BY <2>7, <1>5
    <3>3. new[1] = old[x]
      BY <2>3, <2>6, <2>7
    <3>4. QED
      BY <3>1, <3>2, <3>3
  <2>9. x - k \in 1..Len(new) /\ new[x - k] = old[x]
    BY <2>8, <1>2
  <2>10. x \in P
    BY <2>8, <2>9
  <2>11. QED
    BY <2>7, <2>10
<1>9. ASSUME NEW i \in (k + 1)..Len(old), i # k + 1, i - 1 \in P PROVE i \in P
  <2>1. i - 1 \in 1..Len(old) /\ i \in 1..Len(old) /\ i - 1 < i
    BY <1>2, <1>5, <1>9
  <2>2. PICK b \in 1..Len(new) : b = i - 1 - k /\ new[b] = old[i - 1]
    BY <1>9
  <2>3. new[1].open <= old[i].open
    BY <1>7
  <2>4. PICK l \in 1..Len(new) : new[l] = old[i]
    BY <2>1, <2>3, <1>2, <1>6
  <2>5. b < l
    <3>1. old[i - 1].open < old[i].open
      BY <2>1, <1>1, PlacesByOpen
    <3>2. new[b].open < new[l].open
      BY <3>1, <2>2, <2>4
    <3>3. QED
      BY <3>2, <1>1, PlacesByOpen
  <2>6. ~(b + 1 < l)
    <3>1. SUFFICES ASSUME b + 1 < l PROVE FALSE
      OBVIOUS
    <3>2. b + 1 \in 1..Len(new) /\ b < b + 1
      BY <3>1, <1>2
    <3>3. /\ new[b].open < new[b + 1].open /\ new[b + 1].open < new[l].open
          /\ new[b + 1].open \in Int /\ new[l].open \in Int
      BY <3>1, <3>2, <1>1, PlacesByOpen
    <3>4. new[b + 1].open <= old[i].open
      BY <3>3, <2>4
    <3>5. PICK h \in 1..Len(old) : old[h] = new[b + 1]
      BY <3>2, <3>4, <2>1, <1>6
    <3>6. old[i - 1].open < old[h].open /\ old[h].open < old[i].open
      BY <3>3, <3>5, <2>2, <2>4
    <3>7. i - 1 < h /\ h < i
      BY <3>6, <2>1, <1>1, PlacesByOpen
    <3>8. QED
      BY <3>7, <1>2, <1>5
  <2>7. l = i - k
    BY <2>2, <2>5, <2>6, <1>2, <1>5
  <2>8. QED
    BY <2>4, <2>7
<1>10. \A i \in (k + 1)..Len(old) : i \in P
  <2> HIDE DEF P
  <2>1. k + 1 \in Int /\ Len(old) \in Int
    BY <1>2, <1>5
  <2>2. QED
    BY <2>1, <1>8, <1>9, IntervalInduction
<1>11. ASSUME NEW i \in 1..Len(old), NEW j \in 1..Len(new), j > Len(old) - k
       PROVE  old[i].open < new[j].open
  <2>1. SUFFICES ASSUME new[j].open <= old[i].open PROVE FALSE
    BY <1>1, PlacesByOpen
  <2>2. PICK h \in 1..Len(old) : old[h] = new[j]
    BY <2>1, <1>6
  <2>3. ~(h \in 1..k)
    <3>1. SUFFICES ASSUME h \in 1..k PROVE FALSE
      OBVIOUS
    <3>2. new[j].open < new[1].open
      BY <3>1, <2>2, <1>5
    <3>3. j < 1
      BY <3>2, <1>1, <1>2, PlacesByOpen
    <3>4. QED
      BY <3>3, <1>2
  <2>4. h \in (k + 1)..Len(old)
    BY <2>3, <1>2, <1>5
  <2>5. PICK b \in 1..Len(new) : b = h - k /\ new[b] = old[h]
    BY <2>4, <1>10
  <2>6. b = j
    <3>1. new[b].open = new[j].open /\ new[b].open \in Int /\ new[j].open \in Int
      BY <2>2, <2>5, <1>1, PlacesByOpen
    <3>2. ~(b < j) /\ ~(j < b)
      BY <3>1, <1>1, PlacesByOpen
    <3>3. QED
      BY <3>2, <1>2
  <2>7. QED
    BY <2>5, <2>6, <1>2, <1>5, <1>11
<1>12. Shifted(old, new, k)
  <2>1. \A i \in (k + 1)..Len(old) : i - k \in 1..Len(new) /\ new[i - k] = old[i]
    BY <1>10
  <2>2. QED
    BY <2>1, <1>5, <1>11 DEF Shifted
<1>13. QED
  BY <1>12

-----------------------------------------------------------------------------
(* Weeks of a later series                                                 *)

(* A longest stretch of bars of one week.                                  *)
Run(bars, x, y) ==
  /\ x \in 1..Len(bars) /\ y \in 1..Len(bars) /\ x <= y
  /\ \A i \in x..y : WeekOf(bars[i].open) = WeekOf(bars[x].open)
  /\ x = 1 \/ WeekOf(bars[x - 1].open) # WeekOf(bars[x].open)
  /\ y = Len(bars) \/ WeekOf(bars[y + 1].open) # WeekOf(bars[y].open)

(* The buckets are the runs.                                               *)
LEMMA RunOfBucket ==
  ASSUME NEW bars, Spaced(bars), NEW g, Grouping(bars, g), NEW k \in 1..g.n
  PROVE  Run(bars, g.a[k], g.z[k])
<1>1. PICK n \in Nat \ {0} : n = g.n
  BY DEF Grouping
<1>2. PICK x \in 1..Len(bars), y \in 1..Len(bars) : x = g.a[k] /\ y = g.z[k] /\ x <= y
  BY DEF Grouping
<1>3. \A i \in x..y : WeekOf(bars[i].open) = WeekOf(bars[x].open)
  BY <1>2 DEF Grouping
<1>4. x = 1 \/ WeekOf(bars[x - 1].open) # WeekOf(bars[x].open)
  <2>1. CASE k = 1
    BY <2>1, <1>2 DEF Grouping
  <2>2. CASE k # 1
    <3>1. PICK l \in 1..(g.n - 1) : l = k - 1 /\ l + 1 = k /\ l \in 1..g.n
      <4>1. k - 1 \in 1..(g.n - 1) /\ k - 1 + 1 = k /\ k - 1 \in 1..g.n
        BY <2>2, <1>1
      <4>2. QED
        BY <4>1
    <3>2. PICK z \in 1..Len(bars) : z = g.z[l]
      BY <3>1 DEF Grouping
    <3>3. g.a[l + 1] = z + 1 /\ WeekOf(bars[z + 1].open) # WeekOf(bars[z].open)
      BY <3>1, <3>2 DEF Grouping
    <3>4. x = z + 1 /\ x - 1 = z
      BY <3>1, <3>3, <1>2
    <3>5. QED
      BY <3>3, <3>4
  <2>3. QED
    BY <2>1, <2>2
<1>5. y = Len(bars) \/ WeekOf(bars[y + 1].open) # WeekOf(bars[y].open)
  <2>1. CASE k = n
    BY <2>1, <1>1, <1>2 DEF Grouping
  <2>2. CASE k # n
    <3>1. k \in 1..(g.n - 1)
      BY <2>2, <1>1
    <3>2. QED
      BY <3>1, <1>2 DEF Grouping
  <2>3. QED
    BY <2>1, <2>2
<1>6. QED
  BY <1>2, <1>3, <1>4, <1>5 DEF Run

(* Every run is a bucket: the one that begins last among those that begin  *)
(* no later than it does.                                                  *)
LEMMA BucketOfRun ==
  ASSUME NEW bars, Spaced(bars), NEW g, Grouping(bars, g), NEW x, NEW y, Run(bars, x, y)
  PROVE  \E k \in 1..g.n : g.a[k] = x /\ g.z[k] = y
<1>1. PICK n \in Nat \ {0} : n = g.n
  BY DEF Grouping
<1>2. x \in 1..Len(bars) /\ y \in 1..Len(bars) /\ x <= y /\ Len(bars) \in Nat
  BY DEF Run, Spaced
<1>3. \A k \in 1..n : g.a[k] \in 1..Len(bars) /\ g.z[k] \in 1..Len(bars) /\ g.a[k] <= g.z[k]
  BY <1>1 DEF Grouping
<1>4. PICK K : K = {k \in 1..n : g.a[k] <= x}
  OBVIOUS
<1>5. PICK k \in K : \A l \in K : l <= k
  <2>1. IsFiniteSet(1..n)
    BY FS_Interval
  <2>2. K \in SUBSET (1..n) /\ K \in SUBSET Nat
    BY <1>4
  <2>3. 1 \in K
    <3>1. g.a[1] = 1 /\ 1 \in 1..n
      BY <1>1 DEF Grouping
    <3>2. QED
      BY <3>1, <1>2, <1>4
  <2>4. IsFiniteSet(K)
    BY <2>1, <2>2, FS_Subset
  <2>5. QED
    BY <2>2, <2>3, <2>4, FiniteGreatest
<1>6. PICK a \in 1..Len(bars), z \in 1..Len(bars) : a = g.a[k] /\ z = g.z[k] /\ a <= z /\ a <= x
  BY <1>3, <1>4
<1>7. k \in 1..n /\ Run(bars, a, z)
  BY <1>1, <1>4, <1>6, RunOfBucket
<1>8. x <= z
  <2>1. CASE k = n
    <3>1. z = Len(bars)
      BY <2>1, <1>1, <1>6 DEF Grouping
    <3>2. QED
      BY <3>1, <1>2
  <2>2. CASE k # n
    <3>1. k \in 1..(g.n - 1) /\ k + 1 \in 1..n /\ k < k + 1
      BY <2>2, <1>1, <1>7
    <3>2. g.a[k + 1] = z + 1
      BY <3>1, <1>6 DEF Grouping
    <3>3. k + 1 \notin K
      BY <3>1, <1>5
    <3>4. ~(z + 1 <= x)
      BY <3>1, <3>2, <3>3, <1>4
    <3>5. QED
      BY <3>4, <1>2
  <2>3. QED
    BY <2>1, <2>2
<1>9. \A i \in a..z : WeekOf(bars[i].open) = WeekOf(bars[a].open)
  BY <1>7 DEF Run
<1>10. \A i \in x..y : WeekOf(bars[i].open) = WeekOf(bars[x].open)
  BY DEF Run
<1>11. a = x
  <2>1. SUFFICES ASSUME a # x PROVE FALSE
    OBVIOUS
  <2>2. x - 1 \in a..z /\ x \in a..z /\ x # 1
    BY <2>1, <1>2, <1>6, <1>8
  <2>3. WeekOf(bars[x - 1].open) = WeekOf(bars[x].open)
    BY <2>2, <1>9
  <2>4. QED
    BY <2>2, <2>3 DEF Run
<1>12. ~(z < y)
  <2>1. SUFFICES ASSUME z < y PROVE FALSE
    OBVIOUS
  <2>2. z \in x..y /\ z + 1 \in x..y /\ z # Len(bars)
    BY <2>1, <1>2, <1>8
  <2>3. WeekOf(bars[z + 1].open) = WeekOf(bars[z].open)
    BY <2>2, <1>10
  <2>4. QED
    BY <2>2, <2>3, <1>7 DEF Run
<1>13. ~(y < z)
  <2>1. SUFFICES ASSUME y < z PROVE FALSE
    OBVIOUS
  <2>2. y \in a..z /\ y + 1 \in a..z /\ y # Len(bars)
    BY <2>1, <1>2, <1>6
  <2>3. WeekOf(bars[y + 1].open) = WeekOf(bars[y].open)
    BY <2>2, <1>9
  <2>4. QED
    BY <2>2, <2>3 DEF Run
<1>14. y = z
  BY <1>2, <1>12, <1>13
<1>15. QED
  BY <1>1, <1>6, <1>7, <1>11, <1>14

(* A run that the later series reaches back to is one of it too, unless it *)
(* is the last one and goes on there.                                      *)
LEMMA RunStays ==
  ASSUME NEW old, NEW new, NEW k, Spaced(old), Spaced(new), Shifted(old, new, k),
         NEW x, NEW y, Run(old, x, y), k < x,
         y = Len(old) /\ y - k # Len(new) =>
           WeekOf(new[y - k + 1].open) # WeekOf(old[y].open)
  PROVE  Run(new, x - k, y - k)
<1>1. /\ k \in Nat /\ Len(old) \in Nat /\ Len(new) \in Nat /\ x \in 1..Len(old) /\ y \in 1..Len(old)
      /\ x <= y
  <2>1. Len(old) \in Nat /\ Len(new) \in Nat
    BY DEF Spaced
  <2>2. k \in 0..Len(old)
    BY DEF Shifted
  <2>3. x \in 1..Len(old) /\ y \in 1..Len(old) /\ x <= y
    BY DEF Run
  <2>4. QED
    BY <2>1, <2>2, <2>3
<1>2. \A i \in (k + 1)..Len(old) : i - k \in 1..Len(new) /\ new[i - k] = old[i]
  BY DEF Shifted
<1>3. PICK u \in 1..Len(new), v \in 1..Len(new) :
        u = x - k /\ v = y - k /\ new[u] = old[x] /\ new[v] = old[y] /\ u <= v
  <2>1. x \in (k + 1)..Len(old) /\ y \in (k + 1)..Len(old)
    BY <1>1
  <2>2. x - k \in 1..Len(new) /\ new[x - k] = old[x] /\ y - k \in 1..Len(new) /\ new[y - k] = old[y]
    BY <2>1, <1>2
  <2>3. x - k <= y - k
    BY <1>1
  <2>4. QED
    BY <2>2, <2>3
<1>4. ASSUME NEW i \in u..v PROVE WeekOf(new[i].open) = WeekOf(new[u].open)
  <2>1. PICK j \in (k + 1)..Len(old) : j = i + k /\ j \in x..y
    <3>1. i + k \in (k + 1)..Len(old) /\ i + k \in x..y
      BY <1>1, <1>3
    <3>2. QED
      BY <3>1
  <2>2. j - k = i
    BY <2>1, <1>1, <1>3
  <2>3. new[i] = old[j]
    BY <2>1, <2>2, <1>2
  <2>4. QED
    BY <2>1, <2>3, <1>3 DEF Run
<1>5. u = 1 \/ WeekOf(new[u - 1].open) # WeekOf(new[u].open)
  <2>1. SUFFICES ASSUME u # 1 PROVE WeekOf(new[u - 1].open) # WeekOf(new[u].open)
    OBVIOUS
  <2>2. PICK j \in (k + 1)..Len(old) : j = x - 1 /\ x # 1
    <3>1. x - 1 \in (k + 1)..Len(old) /\ x # 1
      BY <2>1, <1>1, <1>3
    <3>2. QED
      BY <3>1
  <2>3. j - k = u - 1
    BY <2>2, <1>1, <1>3
  <2>4. new[u - 1] = old[x - 1]
    BY <2>2, <2>3, <1>2
  <2>5. QED
    BY <2>2, <2>4, <1>3 DEF Run
<1>6. v = Len(new) \/ WeekOf(new[v + 1].open) # WeekOf(new[v].open)
  <2>1. CASE y = Len(old)
    BY <2>1, <1>3
  <2>2. CASE y # Len(old)
    <3>1. PICK j \in (k + 1)..Len(old) : j = y + 1
      <4>1. y + 1 \in (k + 1)..Len(old)
        BY <2>2, <1>1
      <4>2. QED
        BY <4>1
    <3>2. j - k = v + 1
      BY <3>1, <1>1, <1>3
    <3>3. new[v + 1] = old[y + 1]
      BY <3>1, <3>2, <1>2
    <3>4. QED
      BY <2>2, <3>3, <1>3 DEF Run
  <2>3. QED
    BY <2>1, <2>2
<1>7. Run(new, u, v)
  BY <1>3, <1>4, <1>5, <1>6 DEF Run
<1>8. QED
  BY <1>3, <1>7

(* A run of the later series that is neither its first one nor goes beyond *)
(* the earlier series was one of that.                                     *)
LEMMA RunWas ==
  ASSUME NEW old, NEW new, NEW k, Spaced(old), Spaced(new), Shifted(old, new, k),
         NEW u, NEW v, Run(new, u, v), u # 1, v + k < Len(old)
  PROVE  Run(old, u + k, v + k)
<1>1. /\ k \in Nat /\ Len(old) \in Nat /\ Len(new) \in Nat /\ u \in 1..Len(new) /\ v \in 1..Len(new)
      /\ u <= v
  <2>1. Len(old) \in Nat /\ Len(new) \in Nat
    BY DEF Spaced
  <2>2. k \in 0..Len(old)
    BY DEF Shifted
  <2>3. u \in 1..Len(new) /\ v \in 1..Len(new) /\ u <= v
    BY DEF Run
  <2>4. QED
    BY <2>1, <2>2, <2>3
<1>2. ASSUME NEW i \in 1..Len(new), i + k <= Len(old) PROVE old[i + k] = new[i]
  <2>1. PICK j \in (k + 1)..Len(old) : j = i + k
    <3>1. i + k \in (k + 1)..Len(old)
      BY <1>1, <1>2
    <3>2. QED
      BY <3>1
  <2>2. j - k = i
    BY <2>1, <1>1
  <2>3. QED
    BY <2>1, <2>2 DEF Shifted
<1>3. PICK x \in 1..Len(old), y \in 1..Len(old) :
        x = u + k /\ y = v + k /\ old[x] = new[u] /\ old[y] = new[v] /\ x <= y
  <2>1. u + k \in 1..Len(old) /\ v + k \in 1..Len(old) /\ u + k <= v + k /\ u + k <= Len(old)
        /\ v + k <= Len(old)
    BY <1>1
  <2>2. old[u + k] = new[u] /\ old[v + k] = new[v]
    BY <2>1, <1>1, <1>2
  <2>3. QED
    BY <2>1, <2>2
<1>4. ASSUME NEW i \in x..y PROVE WeekOf(old[i].open) = WeekOf(old[x].open)
  <2>1. PICK j \in 1..Len(new) : j = i - k /\ j \in u..v
    <3>1. i - k \in 1..Len(new) /\ i - k \in u..v
      BY <1>1, <1>3
    <3>2. QED
      BY <3>1
  <2>2. j + k = i /\ j + k <= Len(old)
    BY <2>1, <1>1, <1>3
  <2>3. old[i] = new[j]
    BY <2>1, <2>2, <1>2
  <2>4. QED
    BY <2>1, <2>3, <1>3 DEF Run
<1>5. WeekOf(old[x - 1].open) # WeekOf(old[x].open)
  <2>1. PICK j \in 1..Len(new) : j = u - 1
    <3>1. u - 1 \in 1..Len(new)
      BY <1>1
    <3>2. QED
      BY <3>1
  <2>2. j + k = x - 1 /\ j + k <= Len(old)
    BY <2>1, <1>1, <1>3
  <2>3. old[x - 1] = new[u - 1]
    BY <2>1, <2>2, <1>2
  <2>4. QED
    BY <2>3, <1>3 DEF Run
<1>6. WeekOf(old[y + 1].open) # WeekOf(old[y].open)
  <2>1. y + 1 \in (k + 1)..Len(old)
    BY <1>1, <1>3
  <2>2. PICK j \in 1..Len(new) : j = y + 1 - k /\ new[j] = old[y + 1]
    BY <2>1 DEF Shifted
  <2>3. j = v + 1 /\ v # Len(new)
    BY <2>2, <1>1, <1>3
  <2>4. QED
    BY <2>2, <2>3, <1>3 DEF Run
<1>7. Run(old, x, y)
  BY <1>3, <1>4, <1>5, <1>6 DEF Run
<1>8. QED
  BY <1>3, <1>7

(* The same segment of both series.                                        *)
LEMMA SameSegment ==
  ASSUME NEW old \in Seq(Bars), NEW new \in Seq(Bars), NEW k, Shifted(old, new, k),
         NEW x \in 1..Len(old), NEW y \in 1..Len(old), x <= y, k < x
  PROVE  SubSeq(new, x - k, y - k) = SubSeq(old, x, y)
<1>1. k \in Nat /\ Len(old) \in Nat /\ Len(new) \in Nat
  BY DEF Shifted
<1>2. \A i \in (k + 1)..Len(old) : i - k \in 1..Len(new) /\ new[i - k] = old[i]
  BY DEF Shifted
<1>3. PICK u \in 1..Len(new), v \in 1..Len(new) : u = x - k /\ v = y - k /\ u <= v
  <2>1. x \in (k + 1)..Len(old) /\ y \in (k + 1)..Len(old)
    BY <1>1
  <2>2. x - k \in 1..Len(new) /\ y - k \in 1..Len(new) /\ x - k <= y - k
    BY <2>1, <1>1, <1>2
  <2>3. QED
    BY <2>2
<1>4. PICK p : p = SubSeq(old, x, y)
  OBVIOUS
<1>5. p \in Seq(Bars) /\ Len(p) = y - x + 1 /\ \A i \in 1..(y - x + 1) : p[i] = old[x + i - 1]
  <2>1. x \in Nat \ {0} /\ y \in Nat /\ y <= Len(old) /\ x <= y + 1
    BY <1>1
  <2>2. QED
    BY <2>1, <1>4, Segment
<1>6. PICK q : q = SubSeq(new, u, v)
  OBVIOUS
<1>7. q \in Seq(Bars) /\ Len(q) = v - u + 1 /\ \A i \in 1..(v - u + 1) : q[i] = new[u + i - 1]
  <2>1. u \in Nat \ {0} /\ v \in Nat /\ v <= Len(new) /\ u <= v + 1
    BY <1>1, <1>3
  <2>2. QED
    BY <2>1, <1>6, Segment
<1>8. v - u + 1 = y - x + 1
  BY <1>1, <1>3
<1>9. ASSUME NEW i \in 1..(y - x + 1) PROVE q[i] = p[i]
  <2>1. PICK j \in (k + 1)..Len(old) : j = x + i - 1
    <3>1. x + i - 1 \in (k + 1)..Len(old)
      BY <1>1
    <3>2. QED
      BY <3>1
  <2>2. j - k = u + i - 1
    BY <2>1, <1>1, <1>3
  <2>3. new[j - k] = old[j]
    BY <2>1, <1>2
  <2>4. QED
    BY <2>1, <2>2, <2>3, <1>5, <1>7, <1>8
<1>10. q = p
  BY <1>5, <1>7, <1>8, <1>9, SeqEqual
<1>11. QED
  BY <1>3, <1>4, <1>6, <1>10

(* A bar that comes after one that reached the end of a week opens in a    *)
(* later week.                                                             *)
WeeksEnd(old, new) ==
  \A i \in 1..Len(old), j \in 1..Len(new), w \in Int :
    old[i].close + 1 >= w * Week /\ old[i].open < new[j].open => new[j].open >= w * Week

(* The day before a week begins is its last one, which an exchange does    *)
(* not trade.                                                              *)
LEMMA LastDayOfWeek ==
  ASSUME NEW w \in Int, NEW e \in Nat, e + 1 = w * WeekDays
  PROVE  e % WeekDays = WeekDays - 1
<1>1. PICK v \in Nat \ {0} : v = WeekDays
  BY Constants
<1>2. PICK q \in Int, r \in 0..(v - 1) : q = e \div v /\ r = e % v /\ e = v * q + r
  <2>1. e \div v \in Int /\ e % v \in 0..(v - 1) /\ e = v * (e \div v) + (e % v)
    OBVIOUS
  <2>2. QED
    BY <2>1
<1>3. r >= v - 1
  <2>1. SUFFICES ASSUME r + 1 < v PROVE FALSE
    BY <1>1, <1>2
  <2>2. PICK a \in Int, b \in Int, d \in Int : a = q * v /\ b = w * v /\ d = (q + 1) * v
    OBVIOUS
  <2>3. d = a + v /\ a = v * q
    BY <2>2, <1>1, <1>2
  <2>4. a < b /\ b < d
    BY <2>1, <2>2, <2>3, <1>1, <1>2
  <2>5. q < w /\ w < q + 1
    BY <2>2, <2>4, <1>1, <1>2, FactorsOrdered
  <2>6. QED
    BY <2>5, <1>2
<1>4. QED
  BY <1>1, <1>2, <1>3

(* That is so of the days of every source, by its calendar.                *)
LEMMA DaysEndWeeks ==
  ASSUME feed \in Feeds, NEW e \in 0..(Days - 1), NEW d \in 0..(Days - 1),
         HasBar(e), OpenOf(e) < OpenOf(d), NEW w \in Int, CloseOf(e) + 1 >= w * Week
  PROVE  OpenOf(d) >= w * Week
<1>1. d \in Nat /\ e \in Nat /\ e < d
  BY DaysApart, Constants
<1>2. PICK v \in Nat \ {0} : v = WeekDays
  BY Constants
<1>3. PICK q \in Int : q = w * v
  BY <1>2
<1>4. w * Week = 2 * q
  <2>1. w * (v * 2) = 2 * (w * v)
    BY <1>2
  <2>2. QED
    BY <2>1, <1>2, <1>3 DEF Week, Day
<1>5. CloseOf(e) <= 2 * e + 2
  BY <1>1 DEF CloseOf, Day
<1>6. q <= e + 1
  <2>1. CloseOf(e) \in Int
    BY <1>1 DEF CloseOf, Day
  <2>2. 2 * q <= 2 * e + 3
    BY <2>1, <1>1, <1>3, <1>4, <1>5
  <2>3. QED
    BY <2>2, <1>1, <1>3
<1>7. CASE feed.kind # "FUTURES"
  <2>1. OpenOf(d) = 2 * d
    BY <1>1, <1>7 DEF OpenOf, Day
  <2>2. QED
    BY <2>1, <1>1, <1>3, <1>4, <1>6
<1>8. CASE feed.kind = "FUTURES"
  <2>1. OpenOf(d) = 2 * d - 1
    BY <1>1, <1>8 DEF OpenOf, Day
  <2>2. e + 1 # q
    <3>1. SUFFICES ASSUME e + 1 = q PROVE FALSE
      OBVIOUS
    <3>2. e % WeekDays = WeekDays - 1
      BY <3>1, <1>1, <1>2, <1>3, LastDayOfWeek
    <3>3. ~feed.continuous /\ Sessions < WeekDays
      BY <1>8, ExchangeAssumption
    <3>4. e % WeekDays < Sessions
      BY <3>3 DEF HasBar, Trades
    <3>5. QED
      BY <3>2, <3>3, <3>4, Constants
  <2>3. q <= e
    BY <2>2, <1>1, <1>3, <1>6
  <2>4. QED
    BY <2>1, <2>3, <1>1, <1>3, <1>4
<1>9. QED
  BY <1>7, <1>8

(* And therefore of the bars of two series of it.                          *)
LEMMA SeriesEndWeeks ==
  ASSUME feed \in Feeds, NEW old, NEW new, OfDays(old), OfDays(new)
  PROVE  WeeksEnd(old, new)
<1> SUFFICES ASSUME NEW i \in 1..Len(old), NEW j \in 1..Len(new), NEW w \in Int,
                    old[i].close + 1 >= w * Week, old[i].open < new[j].open
             PROVE  new[j].open >= w * Week
  BY DEF WeeksEnd
<1>1. PICK e \in 0..(Days - 1) : OfDay(old[i], e)
  BY DEF OfDays
<1>2. PICK d \in 0..(Days - 1) : OfDay(new[j], d)
  BY DEF OfDays
<1>3. /\ HasBar(e) /\ old[i].open = OpenOf(e) /\ old[i].close = CloseOf(e)
      /\ new[j].open = OpenOf(d)
  BY <1>1, <1>2 DEF OfDay
<1>4. OpenOf(e) < OpenOf(d) /\ CloseOf(e) + 1 >= w * Week
  BY <1>3
<1>5. OpenOf(d) >= w * Week
  BY <1>3, <1>4, DaysEndWeeks
<1>6. QED
  BY <1>3, <1>5

(* A series and a later one, with their weeks.                             *)
Later(old, new, k, g, h, c, e) ==
  /\ old \in Seq(Bars) /\ new \in Seq(Bars)
  /\ Follows(old, new) /\ Shifted(old, new, k) /\ WeeksEnd(old, new)
  /\ Grouping(old, g) /\ Grouping(new, h) /\ WeeksOf(old, g, c) /\ WeeksOf(new, h, e)

(* A week that was emitted is emitted again where the series reaches back  *)
(* to it.                                                                  *)
LEMMA WeekStays ==
  ASSUME NEW old, NEW new, NEW k, NEW g, NEW h, NEW c, NEW e, Later(old, new, k, g, h, c, e),
         NEW i \in 1..c, k < g.a[i]
  PROVE  \E l \in 1..e : /\ h.a[l] = g.a[i] - k /\ h.z[l] = g.z[i] - k
                         /\ Weekly(new)[l] = Weekly(old)[i]
<1>1. /\ old \in Seq(Bars) /\ new \in Seq(Bars) /\ Spaced(old) /\ Spaced(new)
      /\ Shifted(old, new, k) /\ WeeksEnd(old, new) /\ Grouping(old, g) /\ Grouping(new, h)
      /\ WeeksOf(old, g, c) /\ WeeksOf(new, h, e)
  BY DEF Later, Follows
<1>2. PICK n \in Nat \ {0}, m \in Nat \ {0} : n = g.n /\ m = h.n
  BY <1>1 DEF Grouping
<1>3. c \in {n - 1, n} /\ c \in Nat /\ e \in {m - 1, m} /\ e \in Nat /\ i \in 1..n
  <2>1. c \in {n - 1, n} /\ c \in Nat /\ e \in {m - 1, m} /\ e \in Nat
    BY <1>1, <1>2 DEF WeeksOf
  <2>2. QED
    BY <2>1
<1>4. PICK x \in 1..Len(old), y \in 1..Len(old) : x = g.a[i] /\ y = g.z[i] /\ x <= y
  BY <1>1, <1>2, <1>3 DEF Grouping
<1>5. Run(old, x, y)
  BY <1>1, <1>2, <1>3, <1>4, RunOfBucket
<1>6. k \in Nat /\ Len(old) \in Nat /\ Len(new) \in Nat
  BY <1>1 DEF Shifted
<1>7. ASSUME y = Len(old) PROVE i = n /\ c = n
  <2>1. CASE i = n
    BY <2>1, <1>3
  <2>2. CASE i # n
    <3>1. i \in 1..(g.n - 1) /\ i + 1 \in 1..g.n
      BY <2>2, <1>2, <1>3
    <3>2. g.a[i + 1] = y + 1 /\ g.a[i + 1] \in 1..Len(old)
      BY <3>1, <1>1, <1>4 DEF Grouping
    <3>3. QED
      BY <3>2, <1>6, <1>7
  <2>3. QED
    BY <2>1, <2>2
<1>8. PICK w \in Int : w = WeekOf(old[x].open) /\ w = WeekOf(old[y].open) /\ old[x].open \in Int
  <2>1. y \in x..y
    BY <1>4
  <2>2. WeekOf(old[y].open) = WeekOf(old[x].open)
    BY <2>1, <1>5 DEF Run
  <2>3. old[x].open \in Int
    BY <1>1 DEF Spaced
  <2>4. QED
    BY <2>2, <2>3, WeeksOrdered
<1>9. ASSUME y = Len(old) PROVE old[y].close + 1 >= (w + 1) * Week
  <2>1. WeeklyBucketIsClosed(SubSeq(old, x, y), FALSE)
    BY <1>1, <1>2, <1>4, <1>7, <1>9 DEF WeeksOf
  <2>2. /\ Final(SubSeq(old, x, y)) = old[y] /\ SubSeq(old, x, y)[1] = old[x]
    <3>1. old \in Seq(Bars) /\ Grouping(old, g) /\ i \in 1..g.n
      BY <1>1, <1>2, <1>3
    <3>2. /\ Buckets(old)[i] = SubSeq(old, g.a[i], g.z[i])
          /\ Buckets(old)[i][1] = old[g.a[i]] /\ Final(Buckets(old)[i]) = old[g.z[i]]
      BY <3>1, BucketIs
    <3>3. QED
      BY <3>2, <1>4
  <2>3. old[y].close + 1 >= (w + 1) * WeekDays * Day
    BY <2>1, <2>2, <1>8 DEF WeeklyBucketIsClosed
  <2>4. (w + 1) * WeekDays * Day = (w + 1) * Week
    <3>1. PICK v \in Nat : v = WeekDays
      BY Constants
    <3>2. (w + 1) * v * 2 = (w + 1) * (v * 2)
      BY <3>1
    <3>3. QED
      BY <3>1, <3>2 DEF Week, Day
  <2>5. QED
    BY <2>3, <2>4
<1>10. ASSUME y = Len(old), y - k # Len(new)
       PROVE  WeekOf(new[y - k + 1].open) # WeekOf(old[y].open)
  <2>1. y - k \in 1..Len(new)
    <3>1. y \in (k + 1)..Len(old)
      BY <1>4, <1>6
    <3>2. QED
      BY <3>1, <1>1 DEF Shifted
  <2>2. PICK j \in 1..Len(new) : j = y - k + 1 /\ j > Len(old) - k
    <3>1. y - k + 1 \in 1..Len(new) /\ y - k + 1 > Len(old) - k
      BY <2>1, <1>6, <1>10
    <3>2. QED
      BY <3>1
  <2>3. old[y].open < new[j].open
    BY <2>2, <1>1 DEF Shifted
  <2>4. new[j].open >= (w + 1) * Week
    BY <2>3, <1>1, <1>8, <1>9, <1>10 DEF WeeksEnd
  <2>5. PICK t \in Int, u \in Int : t = old[x].open /\ u = new[j].open
    BY <1>1 DEF Spaced
  <2>6. WeekOf(t) = w /\ (WeekOf(t) + 1) * Week <= u
    <3>1. PICK b \in Int : b = (w + 1) * Week
      BY InWeek, <1>8
    <3>2. b <= u
      BY <3>1, <2>4, <2>5
    <3>3. QED
      BY <3>1, <3>2, <2>5, <1>8
  <2>7. w < WeekOf(u)
    BY <2>5, <2>6, WeeksOrdered
  <2>8. WeekOf(u) \in Int
    BY WeeksOrdered
  <2>9. QED
    BY <2>2, <2>5, <2>7, <2>8, <1>8
<1>11. k < x
  BY <1>4
<1>12. Run(new, x - k, y - k)
  BY <1>1, <1>5, <1>10, <1>11, RunStays
<1>13. PICK l \in 1..m : h.a[l] = x - k /\ h.z[l] = y - k
  BY <1>1, <1>2, <1>12, BucketOfRun
<1>14. SubSeq(new, x - k, y - k) = SubSeq(old, x, y)
  <2>1. old \in Seq(Bars) /\ new \in Seq(Bars) /\ Shifted(old, new, k)
    BY <1>1
  <2>2. x \in 1..Len(old) /\ y \in 1..Len(old) /\ x <= y /\ k < x
    BY <1>4, <1>11
  <2>3. QED
    BY <2>1, <2>2, SameSegment, ZenonT(60)
<1>15. l \in 1..e
  <2>1. CASE l = m
    <3>1. h.z[l] = Len(new)
      BY <2>1, <1>1, <1>2 DEF Grouping
    <3>2. y = Len(old)
      <4>1. SUFFICES ASSUME y # Len(old) PROVE FALSE
        OBVIOUS
      <4>2. y + 1 \in (k + 1)..Len(old)
        BY <4>1, <1>4, <1>6
      <4>3. y + 1 - k \in 1..Len(new)
        BY <4>2, <1>1 DEF Shifted
      <4>4. QED
        BY <4>3, <3>1, <1>4, <1>6, <1>13
    <3>3. WeeklyBucketIsClosed(SubSeq(old, x, y), FALSE)
      BY <3>2, <1>1, <1>2, <1>4, <1>7 DEF WeeksOf
    <3>4. WeeklyBucketIsClosed(SubSeq(new, h.a[m], h.z[m]), FALSE)
      BY <3>3, <2>1, <1>13, <1>14
    <3>5. e = m
      BY <3>4, <1>1, <1>2 DEF WeeksOf
    <3>6. QED
      BY <3>5, <2>1
  <2>2. CASE l # m
    BY <2>2, <1>2, <1>3
  <2>3. QED
    BY <2>1, <2>2
<1>16. Weekly(new)[l] = Weekly(old)[i]
  <2>1. Weekly(old)[i] = [open |-> old[x].open, close |-> old[y].close, parts |-> SubSeq(old, x, y)]
    BY <1>1, <1>4 DEF WeeksOf
  <2>2. Weekly(new)[l] = [open |-> new[x - k].open, close |-> new[y - k].close,
                          parts |-> SubSeq(new, x - k, y - k)]
    BY <1>1, <1>13, <1>15 DEF WeeksOf
  <2>3. new[x - k] = old[x] /\ new[y - k] = old[y]
    <3>1. x \in (k + 1)..Len(old) /\ y \in (k + 1)..Len(old)
      BY <1>4, <1>6, <1>11
    <3>2. QED
      BY <3>1, <1>1 DEF Shifted
  <2>4. QED
    BY <2>1, <2>2, <2>3, <1>14
<1>17. QED
  BY <1>4, <1>13, <1>15, <1>16

(* What a step does to the series: a new one stems from a request after    *)
(* the old one was parsed.                                                 *)
LEMMA NewSeries ==
  ASSUME MarketInv, OriginInv, [Next]_vars, series' # series, NEW s \in series, NEW t \in series'
  PROVE  \E o, p : Stems(s, o) /\ Stems(t, p) /\ o.parsed <= p.begun
<1>1. PICK o : /\ Stems(s, o) /\ o.parsed <= now
               /\ \A c \in call : o.parsed <= c.begun
  BY DEF OriginInv
<1>2. Deliver \/ LoadCorpus
  BY DEF Next, vars, Tick, Ask, SelectContract, FetchSessions, GiveUp
<1>3. CASE Deliver
  <2>1. PICK c \in call, rows \in UNION {call0.rows : call0 \in call} :
          \E payload \in {rows} \cup {Append(rows, rows[i]) : i \in DOMAIN rows} :
            /\ call' = {}
            /\ series' = IF Accepted(c, payload) = {} THEN series
                         ELSE {[begun |-> c.begun, contract |-> c.contract, bars |-> bars] :
                                 bars \in Accepted(c, payload)}
            /\ UNCHANGED <<feed, missing, now>>
    BY <1>3 DEF Deliver
  <2>2. PICK payload \in Payloads(rows) :
          series' = IF Accepted(c, payload) = {} THEN series
                    ELSE {Answered(c, bars) : bars \in Accepted(c, payload)}
    BY <2>1 DEF Payloads, Answered
  <2>3. rows \in c.rows
    BY <2>1 DEF MarketInv, CallInv
  <2>4. PICK bars \in Accepted(c, payload) : t = Answered(c, bars)
    BY <2>2
  <2>5. feed.kind \in {"BINANCE", "STANDARD", "FUTURES"}
    BY SeriesAssumption DEF MarketInv, CallInv, Kinds
  <2>6. PICK p : Stems(t, p)
    BY <2>3, <2>4, <2>5, KlinesStem, AggregatesStem, SessionsStem
  <2>7. p.begun = c.begun
    BY <2>4, <2>6 DEF Stems, Answered
  <2>8. o.parsed <= p.begun
    BY <2>7, <1>1
  <2>9. QED
    BY <2>6, <2>8, <1>1
<1>4. CASE LoadCorpus
  <2>1. PICK new : new = [begun |-> now, contract |-> "none", bars |-> CorpusRows(now)]
    OBVIOUS
  <2>2. t = new /\ feed.kind = "CORPUS"
    BY <2>1, <1>4 DEF LoadCorpus
  <2>3. t.begun = now /\ t.bars = CorpusRows(now) /\ now \in Nat
    BY <2>1, <2>2, Clock
  <2>4. PICK p : Stems(t, p)
    BY <2>2, <2>3, CorpusStems
  <2>5. p.begun = now
    BY <2>3, <2>4 DEF Stems
  <2>6. QED
    BY <2>4, <2>5, <1>1
<1>5. QED
  BY <1>2, <1>3, <1>4

(* What the action properties are about: a series without an open bar, and *)
(* a later one of the same contract.                                       *)
LEMMA LaterSeries ==
  ASSUME MarketInv, MarketInv', OriginInv, [Next]_vars, series' # series,
         NEW s \in series, NEW t \in series', SameMarket(s, t)
  PROVE  /\ s.begun \in Nat /\ t.begun \in Nat /\ s.begun <= t.begun
         /\ \E k, g, h, c, e : Later(s.bars, t.bars, k, g, h, c, e)
<1>1. PICK o, p : Stems(s, o) /\ Stems(t, p) /\ o.parsed <= p.begun
  BY NewSeries
<1>2. feed \in Feeds
  BY DEF MarketInv
<1>3. Increasing(s.bars) /\ Increasing(t.bars)
  <2>1. Typed(s) /\ Typed(t)'
    BY DEF MarketInv, SeriesInv
  <2>2. QED
    BY <2>1 DEF Typed
<1>4. /\ s.contract = t.contract /\ s.bars # <<>> /\ t.bars # <<>>
      /\ \A i \in DOMAIN s.bars : s.bars[i].whole
  BY DEF SameMarket
<1>5. PICK old, new : old = s.bars /\ new = t.bars
  OBVIOUS
<1>6. OfDays(old) /\ OfDays(new)
  BY <1>1, <1>2, <1>3, <1>5, StemsOfDays
<1>7. old \in Seq(Bars) /\ new \in Seq(Bars) /\ Spaced(old) /\ Spaced(new)
  BY <1>6, DaysAreSpaced DEF OfDays
<1>8. Follows(old, new)
  BY <1>1, <1>2, <1>3, <1>4, <1>5, SeriesFollows
<1>9. WeeksEnd(old, new)
  BY <1>2, <1>6, SeriesEndWeeks
<1>10. old # <<>> /\ new # <<>>
  BY <1>4, <1>5
<1>11. PICK k : Shifted(old, new, k)
  BY <1>8, <1>10, Shift
<1>12. PICK g : Grouping(old, g)
  BY <1>7, <1>10, Grouped
<1>13. PICK h : Grouping(new, h)
  BY <1>7, <1>10, Grouped
<1>14. PICK c : WeeksOf(old, g, c)
  BY <1>7, <1>10, <1>12, WeeksAre
<1>15. PICK e : WeeksOf(new, h, e)
  BY <1>7, <1>10, <1>13, WeeksAre
<1>16. Later(old, new, k, g, h, c, e)
  BY <1>7, <1>8, <1>9, <1>11, <1>12, <1>13, <1>14, <1>15 DEF Later
<1>17. s.begun \in Nat /\ t.begun \in Nat /\ s.begun <= t.begun
  <2>1. /\ s.begun = o.begun /\ t.begun = p.begun /\ o.begun \in Nat /\ p.begun \in Nat
        /\ o.read \in Nat /\ o.parsed \in Nat /\ o.begun <= o.read /\ o.read <= o.parsed
    BY <1>1 DEF Stems
  <2>2. QED
    BY <2>1, <1>1
<1>18. QED
  BY <1>5, <1>16, <1>17

(* A week that was emitted is never changed or withdrawn by a later answer *)
(* that reaches back to it (historical.rs:173-179).                        *)
THEOREM EmittedWeeksAreFinal == Spec => ClosedWeeksFinal
<1>1. MarketInv /\ MarketInv' /\ OriginInv /\ [Next]_vars =>
        [\A s \in series, t \in series' : SameMarket(s, t) => WeeksKept(s, t)]_series
  <2> SUFFICES ASSUME MarketInv, MarketInv', OriginInv, [Next]_vars, series' # series,
                      NEW s \in series, NEW t \in series', SameMarket(s, t)
               PROVE  WeeksKept(s, t)
    OBVIOUS
  <2>1. PICK old, new : old = s.bars /\ new = t.bars
    OBVIOUS
  <2>2. PICK k, g, h, c, e : Later(old, new, k, g, h, c, e)
    BY <2>1, LaterSeries
  <2>3. /\ WeeksOf(old, g, c) /\ WeeksOf(new, h, e) /\ Shifted(old, new, k) /\ Grouping(old, g)
        /\ Spaced(old) /\ Spaced(new)
    BY <2>2 DEF Later, Follows
  <2>4. DOMAIN Weekly(old) = 1..c /\ DOMAIN Weekly(new) = 1..e /\ c \in Nat /\ c <= g.n
    <3>1. /\ Weekly(old) \in Seq(Aggregates) /\ Len(Weekly(old)) = c
          /\ Weekly(new) \in Seq(Aggregates) /\ Len(Weekly(new)) = e
          /\ c \in Nat /\ c \in {g.n - 1, g.n}
      BY <2>3 DEF WeeksOf
    <3>2. g.n \in Nat
      BY <2>3 DEF Grouping
    <3>3. QED
      BY <3>1, <3>2, Members
  <2>5. ASSUME NEW i \in 1..c, Weekly(old)[i].open >= new[1].open
        PROVE  \E j \in 1..e : Weekly(new)[j] = Weekly(old)[i]
    <3>1. Weekly(old)[i].open = old[g.a[i]].open
      BY <2>3 DEF WeeksOf
    <3>2. PICK x \in 1..Len(old) : x = g.a[i]
      <4>1. i \in 1..g.n
        BY <2>4, <2>3 DEF Grouping
      <4>2. QED
        BY <4>1, <2>3 DEF Grouping
    <3>3. ~(old[x].open < new[1].open)
      <4>1. old[x].open \in Int /\ Len(new) \in Nat
        BY <2>3 DEF Spaced
      <4>2. Len(new) # 0
        BY <2>2 DEF Later, Grouping
      <4>3. 1 \in 1..Len(new)
        BY <4>1, <4>2
      <4>4. new[1].open \in Int
        BY <4>3, <2>3 DEF Spaced
      <4>5. QED
        BY <4>1, <4>4, <3>1, <3>2, <2>5
    <3>4. k < x
      <4>1. ~(x \in 1..k) /\ k \in 0..Len(old)
        BY <3>3, <2>3 DEF Shifted
      <4>2. QED
        BY <4>1
    <3>5. QED
      BY <3>2, <3>4, <2>2, WeekStays
  <2>6. QED
    BY <2>1, <2>4, <2>5 DEF WeeksKept
<1>2. QED
  BY <1>1, SpecOriginInv, PTL DEF Spec, ClosedWeeksFinal

-----------------------------------------------------------------------------
(* Joins of a later series                                                 *)

(* Buckets are ordered as the places where they begin.                     *)
LEMMA BucketsByStart ==
  ASSUME NEW bars, Spaced(bars), NEW g, Grouping(bars, g), NEW k \in 1..g.n, NEW l \in 1..g.n
  PROVE  /\ g.a[k] \in 1..Len(bars) /\ g.a[l] \in 1..Len(bars)
         /\ g.a[k] <= g.a[l] <=> k <= l
<1>1. ASSUME NEW i \in 1..g.n, NEW j \in 1..g.n, i < j PROVE g.a[i] < g.a[j]
  <2>1. g.z[i] < g.a[j]
    BY <1>1, BucketsAscend
  <2>2. g.a[i] \in 1..Len(bars) /\ g.z[i] \in 1..Len(bars) /\ g.a[j] \in 1..Len(bars)
        /\ g.a[i] <= g.z[i]
    BY DEF Grouping
  <2>3. QED
    BY <2>1, <2>2
<1>2. g.n \in Nat /\ g.a[k] \in 1..Len(bars) /\ g.a[l] \in 1..Len(bars)
  BY DEF Grouping
<1>3. k < l \/ k = l \/ l < k
  BY <1>2
<1>4. CASE k < l
  <2>1. g.a[k] < g.a[l]
    BY <1>1, <1>4
  <2>2. QED
    BY <2>1, <1>2, <1>4
<1>5. CASE k = l
  BY <1>2, <1>5
<1>6. CASE l < k
  <2>1. g.a[l] < g.a[k]
    BY <1>1, <1>6
  <2>2. QED
    BY <2>1, <1>2, <1>6
<1>7. QED
  BY <1>3, <1>4, <1>5, <1>6

(* The places of one bar in both series.                                   *)
LEMMA SamePlace ==
  ASSUME NEW old, NEW new, NEW k, Follows(old, new), Shifted(old, new, k),
         NEW p \in 1..Len(old), NEW q \in 1..Len(new), old[p].close = new[q].close
  PROVE  p = q + k
<1>1. old[p].open = new[q].open /\ Spaced(old) /\ Spaced(new)
  BY DEF Follows
<1>2. k \in Nat /\ Len(old) \in Nat /\ Len(new) \in Nat
  BY <1>1 DEF Shifted, Spaced
<1>3. ~(q > Len(old) - k)
  <2>1. old[p].open \in Int
    BY <1>1 DEF Spaced
  <2>2. SUFFICES ASSUME q > Len(old) - k PROVE FALSE
    OBVIOUS
  <2>3. old[p].open < new[q].open
    BY <2>2 DEF Shifted
  <2>4. QED
    BY <2>1, <2>3, <1>1
<1>4. PICK j \in (k + 1)..Len(old) : j = q + k /\ j \in 1..Len(old)
  <2>1. q + k \in (k + 1)..Len(old) /\ q + k \in 1..Len(old)
    BY <1>2, <1>3
  <2>2. QED
    BY <2>1
<1>5. j - k = q
  BY <1>2, <1>4
<1>6. new[q] = old[j]
  BY <1>5 DEF Shifted
<1>7. ~(j < p) /\ ~(p < j)
  <2>1. old[j].open = old[p].open /\ old[p].open \in Int
    BY <1>1, <1>6 DEF Spaced
  <2>2. QED
    BY <2>1, <1>1, <1>4, PlacesByOpen
<1>8. QED
  BY <1>4, <1>7

(* A week of the later series that is neither its first one nor goes       *)
(* beyond the earlier series was emitted then.                             *)
LEMMA WeekWas ==
  ASSUME NEW old, NEW new, NEW k, NEW g, NEW h, NEW c, NEW e, Later(old, new, k, g, h, c, e),
         NEW l \in 2..e, h.z[l] + k < Len(old)
  PROVE  \E i \in 1..c : g.a[i] = h.a[l] + k /\ Weekly(old)[i] = Weekly(new)[l]
<1>1. /\ Spaced(old) /\ Spaced(new) /\ Shifted(old, new, k) /\ Grouping(old, g) /\ Grouping(new, h)
      /\ WeeksOf(old, g, c) /\ WeeksOf(new, h, e)
  BY DEF Later, Follows
<1>2. PICK n \in Nat \ {0}, m \in Nat \ {0} : n = g.n /\ m = h.n
  BY <1>1 DEF Grouping
<1>3. c \in {n - 1, n} /\ c \in Nat /\ e \in {m - 1, m} /\ e \in Nat /\ l \in 1..m /\ 1 \in 1..m
  <2>1. c \in {n - 1, n} /\ c \in Nat /\ e \in {m - 1, m} /\ e \in Nat
    BY <1>1, <1>2 DEF WeeksOf
  <2>2. QED
    BY <2>1
<1>4. PICK u \in 1..Len(new), v \in 1..Len(new) : u = h.a[l] /\ v = h.z[l] /\ u <= v
  BY <1>1, <1>2, <1>3 DEF Grouping
<1>5. u # 1
  <2>1. h.a[1] = 1
    BY <1>1 DEF Grouping
  <2>2. ~(h.a[l] <= h.a[1])
    BY <1>1, <1>2, <1>3, BucketsByStart
  <2>3. QED
    BY <2>1, <2>2, <1>4
<1>6. Run(new, u, v)
  BY <1>1, <1>2, <1>3, <1>4, RunOfBucket
<1>7. v + k < Len(old) /\ k \in Nat /\ Len(old) \in Nat
  BY <1>1, <1>4 DEF Shifted, Spaced
<1>8. Run(old, u + k, v + k)
  BY <1>1, <1>5, <1>6, <1>7, RunWas
<1>9. PICK i \in 1..n : g.a[i] = u + k /\ g.z[i] = v + k
  BY <1>1, <1>2, <1>8, BucketOfRun
<1>10. i \in 1..c
  <2>1. i # n
    <3>1. SUFFICES ASSUME i = n PROVE FALSE
      OBVIOUS
    <3>2. g.z[i] = Len(old)
      BY <3>1, <1>1, <1>2 DEF Grouping
    <3>3. QED
      BY <3>2, <1>7, <1>9
  <2>2. QED
    BY <2>1, <1>2, <1>3
<1>11. k < g.a[i]
  BY <1>7, <1>9
<1>12. PICK j \in 1..e : h.a[j] = g.a[i] - k /\ Weekly(new)[j] = Weekly(old)[i]
  BY <1>10, <1>11, WeekStays
<1>13. j = l
  <2>1. h.a[j] = u /\ j \in 1..m
    BY <1>3, <1>7, <1>9, <1>12
  <2>2. h.a[j] <= h.a[l] /\ h.a[l] <= h.a[j]
    BY <2>1, <1>4
  <2>3. j <= l /\ l <= j
    BY <2>1, <2>2, <1>1, <1>2, <1>3, BucketsByStart
  <2>4. QED
    BY <2>3, <1>3
<1>14. QED
  BY <1>4, <1>9, <1>10, <1>12, <1>13

(* The weeks that a row closing at x may be compared with.                 *)
Prior(bars, c, x) == {i \in 3..c : WeekOf(Weekly(bars)[i].close) < WeekOf(x)}

(* It is compared with the latest of them.                                 *)
LEMMA LatestPrior ==
  ASSUME NEW bars, NEW g, NEW c, Grouping(bars, g), WeeksOf(bars, g, c), NEW f
  PROVE  /\ IsFiniteSet(Prior(bars, c, f.close)) /\ Prior(bars, c, f.close) \in SUBSET Nat
         /\ Prior(bars, c, f.close) = {} => LatestStrictlyPriorWeek(f, WeeklyFrames(bars)) = {}
         /\ \A i \in Prior(bars, c, f.close) :
              (\A j \in Prior(bars, c, f.close) : j <= i) =>
                LatestStrictlyPriorWeek(f, WeeklyFrames(bars)) = {Weekly(bars)[i]}
<1>1. PICK S : S = Prior(bars, c, f.close)
  OBVIOUS
<1>2. PICK weekly : weekly = WeeklyFrames(bars)
  OBVIOUS
<1>3. Weekly(bars) \in Seq(Aggregates) /\ Len(Weekly(bars)) = c /\ c \in Nat
  BY DEF WeeksOf
<1>4. FramesOf(Weekly(bars), weekly)
  BY <1>2, <1>3, FramesAre DEF WeeklyFrames
<1>5. PICK m \in Nat : m = Len(weekly) /\ DOMAIN weekly = 1..m /\ (c >= 3 => m = c - 2)
                       /\ (c < 3 => m = 0)
  <2>1. /\ c < 3 => Len(weekly) = 0
        /\ c >= 3 => Len(weekly) = c - 2
        /\ DOMAIN weekly = 1..Len(weekly)
    BY <1>3, <1>4 DEF FramesOf
  <2>2. Len(weekly) \in Nat
    BY <2>1, <1>3
  <2>3. QED
    BY <2>1, <2>2
<1>6. \A i \in 1..m : i + 2 \in 3..c /\ weekly[i] = Weekly(bars)[i + 2]
  BY <1>3, <1>4, <1>5 DEF FramesOf
<1>7. PICK T : T = {i \in 1..m : WeekOf(weekly[i].close) < WeekOf(f.close)}
  OBVIOUS
<1>8. LatestStrictlyPriorWeek(f, weekly) = {weekly[i] : i \in {j \in T : \A k \in T : k <= j}}
  BY <1>5, <1>7 DEF LatestStrictlyPriorWeek
<1>9. \A i \in 1..m : i \in T <=> i + 2 \in S
  BY <1>1, <1>6, <1>7 DEF Prior
<1>10. ASSUME NEW i \in S PROVE i - 2 \in 1..m /\ i - 2 \in T /\ weekly[i - 2] = Weekly(bars)[i]
  <2>1. i \in 3..c
    BY <1>1 DEF Prior
  <2>2. i - 2 \in 1..m /\ i - 2 + 2 = i
    BY <2>1, <1>3, <1>5
  <2>3. QED
    BY <2>2, <1>6, <1>9
<1>11. IsFiniteSet(S) /\ S \in SUBSET Nat
  <2>1. IsFiniteSet(3..c)
    BY <1>3, FS_Interval
  <2>2. S \in SUBSET (3..c)
    BY <1>1 DEF Prior
  <2>3. IsFiniteSet(S)
    BY <2>1, <2>2, FS_Subset
  <2>4. QED
    BY <2>2, <2>3, <1>3
<1>12. ASSUME S = {} PROVE LatestStrictlyPriorWeek(f, weekly) = {}
  <2>1. T = {}
    BY <1>7, <1>9, <1>12
  <2>2. QED
    BY <2>1, <1>8
<1>13. ASSUME NEW i \in S, \A j \in S : j <= i
       PROVE  LatestStrictlyPriorWeek(f, weekly) = {Weekly(bars)[i]}
  <2>1. PICK l \in T : l = i - 2 /\ weekly[l] = Weekly(bars)[i]
    BY <1>10
  <2>2. \A k \in T : k \in 1..m /\ k + 2 \in S
    BY <1>7, <1>9
  <2>3. \A k \in T : k <= l
    <3>1. i \in Nat
      BY <1>11
    <3>2. \A k \in T : k + 2 <= i /\ k \in 1..m
      BY <2>2, <1>13
    <3>3. QED
      BY <3>1, <3>2, <2>1
  <2>4. ASSUME NEW k \in T, \A o \in T : o <= k PROVE k = l
    <3>1. k <= l /\ l <= k /\ k \in Nat /\ l \in Nat
      BY <2>1, <2>2, <2>3, <2>4
    <3>2. QED
      BY <3>1
  <2>5. {j \in T : \A k \in T : k <= j} = {l}
    BY <2>1, <2>3, <2>4
  <2>6. QED
    BY <2>1, <2>5, <1>8
<1>14. QED
  BY <1>1, <1>2, <1>11, <1>12, <1>13

(* Of weeks that a row of the later series may be compared with the        *)
(* earlier series had them all.                                            *)
LEMMA PriorWas ==
  ASSUME NEW old, NEW new, NEW k, NEW g, NEW h, NEW c, NEW e, Later(old, new, k, g, h, c, e),
         NEW p \in 1..Len(old), NEW q \in 1..Len(new), p = q + k,
         NEW x, x = old[p].close, x = new[q].close, NEW l \in Prior(new, e, x)
  PROVE  \E i \in Prior(old, c, x) : g.a[i] = h.a[l] + k /\ Weekly(old)[i] = Weekly(new)[l]
<1>1. /\ Spaced(old) /\ Spaced(new) /\ Shifted(old, new, k) /\ Grouping(old, g) /\ Grouping(new, h)
      /\ WeeksOf(old, g, c) /\ WeeksOf(new, h, e)
  BY DEF Later, Follows
<1>2. PICK n \in Nat \ {0}, m \in Nat \ {0} : n = g.n /\ m = h.n
  BY <1>1 DEF Grouping
<1>3. c \in Nat /\ c <= n /\ e \in Nat /\ e <= m
  BY <1>1, <1>2 DEF WeeksOf
<1>4. l \in 3..e /\ l \in 1..m /\ 2 \in 2..e /\ 2 \in 1..m /\ l \in 2..e /\ 1 \in 1..m
  <2>1. l \in 3..e
    BY DEF Prior
  <2>2. QED
    BY <2>1, <1>3
<1>5. k \in Nat /\ Len(old) \in Nat /\ Len(new) \in Nat
  BY <1>1 DEF Shifted, Spaced
<1>6. PICK v \in 1..Len(new) : v = h.z[l]
  BY <1>1, <1>2, <1>4 DEF Grouping
<1>7. Weekly(new)[l].close = new[v].close /\ WeekOf(Weekly(new)[l].close) < WeekOf(x)
  <2>1. Weekly(new)[l].close = new[v].close
    <3>1. l \in 1..e
      BY <1>3, <1>4
    <3>2. QED
      BY <3>1, <1>1, <1>6 DEF WeeksOf
  <2>2. WeekOf(Weekly(new)[l].close) < WeekOf(x)
    BY DEF Prior
  <2>3. QED
    BY <2>1, <2>2
<1>8. v < q
  <2>1. WeekOf(new[v].close) < WeekOf(new[q].close)
    BY <1>7
  <2>2. new[v].close <= new[q].open
    BY <2>1, <1>1, PriorIsOver
  <2>3. QED
    BY <2>2, <1>1, ClosedBefore
<1>9. v + k < Len(old)
  BY <1>5, <1>8
<1>10. PICK i \in 1..c : g.a[i] = h.a[l] + k /\ Weekly(old)[i] = Weekly(new)[l]
  BY <1>4, <1>6, <1>9, WeekWas
<1>11. PICK w \in 1..Len(new) : w = h.z[2] /\ w < v
  <2>1. h.z[2] < h.a[l] /\ h.a[l] <= h.z[l]
    <3>1. 2 < l
      BY <1>4, <1>3
    <3>2. h.z[2] < h.a[l]
      BY <3>1, <1>1, <1>2, <1>4, BucketsAscend
    <3>3. QED
      BY <3>2, <1>1, <1>2, <1>4 DEF Grouping
  <2>2. h.z[2] \in 1..Len(new) /\ h.a[l] \in 1..Len(new)
    BY <1>1, <1>2, <1>4 DEF Grouping
  <2>3. QED
    BY <2>1, <2>2, <1>6
<1>12. w + k < Len(old)
  BY <1>5, <1>9, <1>11
<1>13. PICK j \in 1..c : g.a[j] = h.a[2] + k
  BY <1>4, <1>11, <1>12, WeekWas
<1>14. i \in 1..n /\ j \in 1..n /\ 1 \in 1..n
  BY <1>2, <1>3
<1>15. ~(h.a[2] <= h.a[1]) /\ ~(h.a[l] <= h.a[2]) /\ h.a[1] = 1
  <2>1. PICK one, two : one = 1 /\ two = 2
    OBVIOUS
  <2>2. h.a[two] <= h.a[one] <=> two <= one
    <3>1. one \in 1..h.n /\ two \in 1..h.n
      BY <2>1, <1>2, <1>4
    <3>2. QED
      BY <3>1, <1>1, BucketsByStart
  <2>3. h.a[l] <= h.a[two] <=> l <= two
    <3>1. two \in 1..h.n /\ l \in 1..h.n
      BY <2>1, <1>2, <1>4
    <3>2. QED
      BY <3>1, <1>1, BucketsByStart
  <2>4. h.a[1] = 1
    BY <1>1 DEF Grouping
  <2>5. l > 2
    BY <1>4, <1>3
  <2>6. QED
    BY <2>1, <2>2, <2>3, <2>4, <2>5, <1>3, <1>4
<1>16. g.a[1] = 1
  BY <1>1 DEF Grouping
<1>17. h.a[2] \in Nat /\ h.a[l] \in Nat
  BY <1>1, <1>2, <1>4 DEF Grouping
<1>18. ~(g.a[j] <= g.a[1]) /\ ~(g.a[i] <= g.a[j])
  <2>1. PICK s \in Nat, t \in Nat : s = h.a[2] /\ t = h.a[l]
    BY <1>17
  <2>2. 1 < s /\ s < t
    BY <2>1, <1>15
  <2>3. g.a[1] = 1 /\ g.a[j] = s + k /\ g.a[i] = t + k
    BY <2>1, <1>10, <1>13, <1>16
  <2>4. k \in Nat
    BY <1>5
  <2>5. ~(s + k <= 1) /\ ~(t + k <= s + k)
    BY <2>2, <2>4
  <2>6. QED
    BY <2>3, <2>5
<1>19. ~(j <= 1) /\ ~(i <= j)
  BY <1>1, <1>2, <1>14, <1>18, BucketsByStart
<1>20. i \in 3..c
  BY <1>3, <1>14, <1>19
<1>21. i \in Prior(old, c, x)
  BY <1>7, <1>10, <1>20 DEF Prior
<1>22. QED
  BY <1>10, <1>21

(* A later series that begins with the earlier one has its weeks at the    *)
(* same numbers or later ones.                                             *)
LEMMA PriorStays ==
  ASSUME NEW old, NEW new, NEW k, NEW g, NEW h, NEW c, NEW e, Later(old, new, k, g, h, c, e),
         NEW x, NEW i \in Prior(old, c, x), k = 0
  PROVE  \E l \in Prior(new, e, x) : TRUE
<1>1. /\ Spaced(old) /\ Spaced(new) /\ Grouping(old, g) /\ Grouping(new, h)
      /\ WeeksOf(old, g, c) /\ WeeksOf(new, h, e)
  BY DEF Later, Follows
<1>2. PICK n \in Nat \ {0}, m \in Nat \ {0} : n = g.n /\ m = h.n
  BY <1>1 DEF Grouping
<1>3. c \in Nat /\ c <= n /\ e \in Nat /\ e <= m
  BY <1>1, <1>2 DEF WeeksOf
<1>4. i \in 1..c /\ 2 \in 1..c /\ i \in 1..n /\ 2 \in 1..n /\ 1 \in 1..n /\ ~(i <= 2) /\ 1 \in 1..m
  <2>1. i \in 3..c
    BY DEF Prior
  <2>2. QED
    BY <2>1, <1>2, <1>3
<1>5. PICK u \in Nat, v \in Nat : /\ u = g.a[2] /\ v = g.a[i] /\ 1 < u /\ u < v
  <2>1. ~(g.a[2] <= g.a[1]) /\ ~(g.a[i] <= g.a[2]) /\ g.a[1] = 1
    <3>1. PICK one, two : one = 1 /\ two = 2
      OBVIOUS
    <3>2. g.a[two] <= g.a[one] <=> two <= one
      <4>1. one \in 1..g.n /\ two \in 1..g.n
        BY <3>1, <1>2, <1>4
      <4>2. QED
        BY <4>1, <1>1, BucketsByStart
    <3>3. g.a[i] <= g.a[two] <=> i <= two
      <4>1. two \in 1..g.n /\ i \in 1..g.n
        BY <3>1, <1>2, <1>4
      <4>2. QED
        BY <4>1, <1>1, BucketsByStart
    <3>4. g.a[1] = 1
      BY <1>1 DEF Grouping
    <3>5. QED
      BY <3>1, <3>2, <3>3, <3>4, <1>4
  <2>2. g.a[2] \in Nat /\ g.a[i] \in Nat
    BY <1>1, <1>2, <1>4 DEF Grouping
  <2>3. QED
    BY <2>1, <2>2
<1>6. PICK l \in 1..e : h.a[l] = g.a[i] - k /\ Weekly(new)[l] = Weekly(old)[i]
  <2>1. k < g.a[i]
    BY <1>5
  <2>2. QED
    BY <2>1, <1>4, WeekStays
<1>7. PICK j \in 1..e : h.a[j] = g.a[2] - k
  <2>1. k < g.a[2]
    BY <1>5
  <2>2. QED
    BY <2>1, <1>4, WeekStays
<1>8. h.a[l] = v /\ h.a[j] = u /\ h.a[1] = 1
  BY <1>1, <1>5, <1>6, <1>7 DEF Grouping
<1>9. ~(h.a[j] <= h.a[1]) /\ ~(h.a[l] <= h.a[j]) /\ j \in 1..m /\ l \in 1..m
  BY <1>2, <1>3, <1>5, <1>8
<1>10. ~(j <= 1) /\ ~(l <= j)
  BY <1>1, <1>2, <1>4, <1>9, BucketsByStart
<1>11. l \in 3..e
  BY <1>3, <1>10
<1>12. WeekOf(Weekly(old)[i].close) < WeekOf(x)
  BY DEF Prior
<1>13. l \in Prior(new, e, x)
  BY <1>6, <1>11, <1>12 DEF Prior
<1>14. QED
  BY <1>13

(* A row of both series is compared with the same week.                    *)
LEMMA JoinStays ==
  ASSUME NEW old, NEW new, NEW k, NEW g, NEW h, NEW c, NEW e, Later(old, new, k, g, h, c, e),
         NEW p \in 1..Len(old), NEW q \in 1..Len(new), old[p].close = new[q].close
  PROVE  LET then  == LatestStrictlyPriorWeek(old[p], WeeklyFrames(old))
             later == LatestStrictlyPriorWeek(new[q], WeeklyFrames(new))
         IN  \/ then = later
             \/ old[1] # new[1] /\ (then = {} \/ later = {})
<1>1. /\ Spaced(old) /\ Spaced(new) /\ Follows(old, new) /\ Shifted(old, new, k)
      /\ Grouping(old, g) /\ Grouping(new, h) /\ WeeksOf(old, g, c) /\ WeeksOf(new, h, e)
  BY DEF Later, Follows
<1>2. p = q + k
  BY <1>1, SamePlace
<1>3. PICK x : x = old[p].close /\ x = new[q].close
  OBVIOUS
<1>4. PICK then, later : /\ then = LatestStrictlyPriorWeek(old[p], WeeklyFrames(old))
                         /\ later = LatestStrictlyPriorWeek(new[q], WeeklyFrames(new))
  OBVIOUS
<1>5. PICK S : S = Prior(old, c, x)
  OBVIOUS
<1>6. PICK T : T = Prior(new, e, x)
  OBVIOUS
<1>7. /\ IsFiniteSet(S) /\ S \in SUBSET Nat
      /\ S = {} => then = {}
      /\ \A i \in S : (\A j \in S : j <= i) => then = {Weekly(old)[i]}
  BY <1>1, <1>3, <1>4, <1>5, LatestPrior
<1>8. /\ IsFiniteSet(T) /\ T \in SUBSET Nat
      /\ T = {} => later = {}
      /\ \A i \in T : (\A j \in T : j <= i) => later = {Weekly(new)[i]}
  BY <1>1, <1>3, <1>4, <1>6, LatestPrior
<1>9. k \in Nat /\ Len(old) \in Nat /\ Len(new) \in Nat
  BY <1>1 DEF Shifted, Spaced
<1>10. CASE T = {}
  <2>1. CASE k = 0
    <3>1. S = {}
      BY <2>1, <1>5, <1>6, <1>10, PriorStays
    <3>2. QED
      BY <3>1, <1>4, <1>7, <1>8, <1>10
  <2>2. CASE k # 0
    <3>1. old[1].open < new[1].open
      BY <2>2, <1>1, <1>9 DEF Shifted
    <3>2. old[1].open \in Int
      BY <1>1, <1>9 DEF Spaced
    <3>3. old[1] # new[1]
      BY <3>1, <3>2
    <3>4. QED
      BY <3>3, <1>4, <1>8, <1>10
  <2>3. QED
    BY <2>1, <2>2
<1>11. CASE T # {}
  <2>1. PICK l \in T : \A j \in T : j <= l
    BY <1>8, <1>11, FiniteGreatest
  <2>2. PICK b \in S : g.a[b] = h.a[l] + k
    BY <2>1, <1>2, <1>3, <1>5, <1>6, PriorWas
  <2>3. PICK i \in S : \A j \in S : j <= i
    BY <2>2, <1>7, FiniteGreatest
  <2>4. PICK n \in Nat \ {0}, m \in Nat \ {0} : n = g.n /\ m = h.n
    BY <1>1 DEF Grouping
  <2>5. c \in Nat /\ c <= n /\ e \in Nat /\ e <= m
    BY <1>1, <2>4 DEF WeeksOf
  <2>6. i \in 3..c /\ b \in 3..c /\ l \in 3..e /\ WeekOf(Weekly(old)[i].close) < WeekOf(x)
    BY <1>5, <1>6 DEF Prior
  <2>7. i \in 1..c /\ i \in 1..n /\ b \in 1..n /\ l \in 1..m /\ b <= i
    BY <2>3, <2>5, <2>6
  <2>8. PICK u \in Nat, v \in Nat, w \in Nat \ {0} :
          u = g.a[b] /\ v = g.a[i] /\ w = h.a[l] /\ u <= v /\ u = w + k
    <3>1. g.a[b] <= g.a[i] /\ g.a[b] \in Nat /\ g.a[i] \in Nat
      BY <1>1, <2>4, <2>7, BucketsByStart
    <3>2. h.a[l] \in Nat \ {0}
      BY <1>1, <2>4, <2>7 DEF Grouping
    <3>3. QED
      BY <3>1, <3>2, <2>2
  <2>9. k < g.a[i]
    BY <2>8, <1>9
  <2>10. PICK j \in 1..e : h.a[j] = g.a[i] - k /\ Weekly(new)[j] = Weekly(old)[i]
    BY <2>7, <2>9, WeekStays
  <2>11. h.a[l] <= h.a[j] /\ j \in 1..m
    BY <2>5, <2>8, <2>10, <1>9
  <2>12. l <= j
    BY <2>4, <2>7, <2>11, <1>1, BucketsByStart
  <2>13. j \in T
    <3>1. j \in 3..e
      BY <2>5, <2>6, <2>10, <2>12
    <3>2. QED
      BY <3>1, <2>6, <2>10, <1>6 DEF Prior
  <2>14. j = l
    <3>1. j <= l
      BY <2>1, <2>13
    <3>2. QED
      BY <3>1, <2>12, <2>6, <2>10, <2>5
  <2>15. then = {Weekly(old)[i]} /\ later = {Weekly(new)[l]}
    BY <2>1, <2>3, <1>7, <1>8
  <2>16. then = later
    BY <2>10, <2>14, <2>15
  <2>17. QED
    BY <2>16, <1>4
<1>12. QED
  BY <1>10, <1>11

(* A row keeps the week it is compared with in every longer replay, unless *)
(* a window that has moved on has too few weeks (dynamics.rs:84-87).       *)
THEOREM JoinsAreCausal == Spec => JoinIsCausal
<1>1. MarketInv /\ MarketInv' /\ OriginInv /\ [Next]_vars =>
        [\A s \in series, t \in series' : SameMarket(s, t) => JoinsKept(s, t)]_series
  <2> SUFFICES ASSUME MarketInv, MarketInv', OriginInv, [Next]_vars, series' # series,
                      NEW s \in series, NEW t \in series', SameMarket(s, t)
               PROVE  JoinsKept(s, t)
    OBVIOUS
  <2>1. PICK old, new : old = s.bars /\ new = t.bars
    OBVIOUS
  <2>2. PICK k, g, h, c, e : Later(old, new, k, g, h, c, e)
    BY <2>1, LaterSeries
  <2>3. old \in Seq(Bars) /\ new \in Seq(Bars)
    BY <2>2 DEF Later
  <2>4. FramesOf(old, DailyFrames(old)) /\ FramesOf(new, DailyFrames(new))
    BY <2>3, FramesAre DEF DailyFrames
  <2> SUFFICES ASSUME NEW i \in DOMAIN DailyFrames(old), NEW j \in DOMAIN DailyFrames(new),
                      DailyFrames(old)[i].close = DailyFrames(new)[j].close
               PROVE  LET then  == LatestStrictlyPriorWeek(DailyFrames(old)[i], WeeklyFrames(old))
                          later == LatestStrictlyPriorWeek(DailyFrames(new)[j], WeeklyFrames(new))
                      IN  \/ then = later
                          \/ old[1] # new[1] /\ (then = {} \/ later = {})
    BY <2>1 DEF JoinsKept
  <2>5. PICK p \in 1..Len(old), q \in 1..Len(new) :
          DailyFrames(old)[i] = old[p] /\ DailyFrames(new)[j] = new[q]
    BY <2>4 DEF FramesOf
  <2>6. old[p].close = new[q].close
    BY <2>5
  <2>7. PICK then, later : /\ then = LatestStrictlyPriorWeek(old[p], WeeklyFrames(old))
                           /\ later = LatestStrictlyPriorWeek(new[q], WeeklyFrames(new))
    OBVIOUS
  <2>8. \/ then = later
        \/ old[1] # new[1] /\ (then = {} \/ later = {})
    BY <2>2, <2>6, <2>7, JoinStays
  <2>9. QED
    BY <2>5, <2>7, <2>8
<1>2. QED
  BY <1>1, SpecOriginInv, PTL DEF Spec, JoinIsCausal

-----------------------------------------------------------------------------
(* The alignment with another instrument                                   *)

(* y begins with x.                                                        *)
Begins(x, y) ==
  /\ Len(x) \in Nat /\ Len(y) \in Nat /\ Len(x) <= Len(y)
  /\ \A i \in 1..Len(x) : x[i] = y[i]

(* A series of frames that close.                                          *)
Frames(x) == Len(x) \in Nat /\ \A i \in 1..Len(x) : x[i].close \in Int

Positions == [i : Nat \ {0}, j : Nat \ {0}, pairs : Seq([primary : Int, reference : Int])]

WalkRule(primary, reference, f, n) ==
  IF n = 0 THEN [i |-> 1, j |-> 1, pairs |-> <<>>] ELSE Advance(primary, reference, f[n - 1])

(* The walk, by its rule.                                                  *)
LEMMA WalkIs ==
  ASSUME NEW primary, NEW reference
  PROVE  Walk(primary, reference)
           = CHOOSE walk : walk = [n \in 0..(Len(primary) + Len(reference)) |->
                                     WalkRule(primary, reference, walk, n)]
BY DEF Walk, WalkRule

(* The walk is well founded.                                               *)
LEMMA WalkDefined ==
  ASSUME NEW primary, NEW reference, Len(primary) \in Nat, Len(reference) \in Nat,
         NEW a, a = Walk(primary, reference)
  PROVE  \A n \in 0..(Len(primary) + Len(reference)) : a[n] = WalkRule(primary, reference, a, n)
<1> DEFINE Rule(f, n) == WalkRule(primary, reference, f, n)
           defined == {l \in Nat : \E f : f = [n \in 0..l |-> Rule(f, n)]}
<1>1. 0 \in defined
  <2>1. PICK f : f = [n \in 0..0 |-> [i |-> 1, j |-> 1, pairs |-> <<>>]]
    OBVIOUS
  <2>2. \A n \in 0..0 : Rule(f, n) = [i |-> 1, j |-> 1, pairs |-> <<>>]
    BY DEF WalkRule
  <2>3. f = [n \in 0..0 |-> Rule(f, n)]
    BY <2>1, <2>2
  <2>4. QED
    BY <2>3
<1>2. ASSUME NEW l \in Nat, l \in defined PROVE l + 1 \in defined
  <2>1. PICK f : f = [n \in 0..l |-> Rule(f, n)]
    BY <1>2
  <2>2. PICK g : g = [n \in 0..(l + 1) |-> IF n <= l THEN f[n] ELSE Rule(f, n)]
    OBVIOUS
  <2>3. ASSUME NEW n \in 0..(l + 1) PROVE g[n] = Rule(g, n)
    <3>1. n # 0 => n - 1 \in 0..l /\ n - 1 \in 0..(l + 1)
      OBVIOUS
    <3>2. n # 0 => g[n - 1] = f[n - 1]
      BY <2>2, <3>1
    <3>3. Rule(g, n) = Rule(f, n)
      BY <3>2 DEF WalkRule
    <3>4. n <= l => f[n] = Rule(f, n)
      BY <2>1
    <3>5. g[n] = Rule(f, n)
      BY <2>2, <3>4
    <3>6. QED
      BY <3>3, <3>5
  <2>4. g = [n \in 0..(l + 1) |-> g[n]]
    BY <2>2
  <2>5. g = [n \in 0..(l + 1) |-> Rule(g, n)]
    BY <2>3, <2>4
  <2>6. QED
    BY <2>5
<1>3. \A l \in Nat : l \in defined
  <2> HIDE DEF defined
  <2> QED BY <1>1, <1>2, NaturalInduction
<1>4. PICK length \in Nat : length = Len(primary) + Len(reference)
  OBVIOUS
<1>5. \E f : f = [n \in 0..length |-> Rule(f, n)]
  BY <1>3
<1>6. a = [n \in 0..length |-> Rule(a, n)]
  BY <1>4, <1>5, WalkIs
<1> HIDE DEF Rule
<1>7. \A n \in 0..length : a[n] = Rule(a, n)
  BY <1>6
<1>8. QED
  BY <1>4, <1>7 DEF Rule

(* A turn only adds a pair at the end.                                     *)
LEMMA TurnAdds ==
  ASSUME NEW primary, NEW reference, Frames(primary), Frames(reference), NEW at \in Positions
  PROVE  /\ Advance(primary, reference, at) \in Positions
         /\ Begins(at.pairs, Advance(primary, reference, at).pairs)
<1> DEFINE next == Advance(primary, reference, at)
           p == primary[at.i].close
           r == reference[at.j].close
           pair == [primary |-> p, reference |-> r]
<1>1. /\ at.i \in Nat \ {0} /\ at.j \in Nat \ {0}
      /\ at.pairs \in Seq([primary : Int, reference : Int])
  BY DEF Positions
<1>2. Begins(at.pairs, at.pairs)
  BY <1>1 DEF Begins
<1>3. CASE at.i > Len(primary) \/ at.j > Len(reference)
  <2>1. next = at
    BY <1>3 DEF Advance
  <2>2. QED
    BY <2>1, <1>2
<1>4. CASE ~(at.i > Len(primary) \/ at.j > Len(reference))
  <2>1. p \in Int /\ r \in Int
    BY <1>1, <1>4 DEF Frames
  <2>2. CASE Greatest(p - r, r - p) <= TemporalGap
    <3>1. next = [i |-> at.i + 1, j |-> at.j + 1, pairs |-> Append(at.pairs, pair)]
      BY <1>4, <2>2 DEF Advance
    <3>2. pair \in [primary : Int, reference : Int]
      BY <2>1
    <3>3. /\ Append(at.pairs, pair) \in Seq([primary : Int, reference : Int])
          /\ Begins(at.pairs, Append(at.pairs, pair))
      <4> HIDE DEF pair
      <4> QED BY <1>1, <3>2 DEF Begins
    <3>4. QED
      BY <1>1, <3>1, <3>3 DEF Positions
  <2>3. CASE ~(Greatest(p - r, r - p) <= TemporalGap) /\ p < r
    <3>1. next = [at EXCEPT !.i = @ + 1]
      BY <1>4, <2>3 DEF Advance
    <3>2. next \in Positions /\ next.pairs = at.pairs
      BY <1>1, <3>1 DEF Positions
    <3>3. QED
      BY <3>2, <1>2
  <2>4. CASE ~(Greatest(p - r, r - p) <= TemporalGap) /\ ~(p < r)
    <3>1. next = [at EXCEPT !.j = @ + 1]
      BY <1>4, <2>4 DEF Advance
    <3>2. next \in Positions /\ next.pairs = at.pairs
      BY <1>1, <3>1 DEF Positions
    <3>3. QED
      BY <3>2, <1>2
  <2>5. QED
    BY <2>2, <2>3, <2>4
<1>5. QED
  BY <1>3, <1>4

(* Every position of a walk is one.                                        *)
LEMMA WalkTypes ==
  ASSUME NEW primary, NEW reference, Frames(primary), Frames(reference),
         NEW a, a = Walk(primary, reference)
  PROVE  /\ a[0] = [i |-> 1, j |-> 1, pairs |-> <<>>]
         /\ \A n \in 0..(Len(primary) + Len(reference)) : a[n] \in Positions
         /\ \A n \in 1..(Len(primary) + Len(reference)) :
              a[n] = Advance(primary, reference, a[n - 1])
<1>1. PICK length \in Nat : length = Len(primary) + Len(reference)
  BY DEF Frames
<1>2. \A n \in 0..length : a[n] = WalkRule(primary, reference, a, n)
  BY <1>1, WalkDefined DEF Frames
<1>3. a[0] = [i |-> 1, j |-> 1, pairs |-> <<>>]
  <2>1. 0 \in 0..length
    OBVIOUS
  <2>2. QED
    BY <2>1, <1>2 DEF WalkRule
<1>4. \A n \in 1..length : a[n] = Advance(primary, reference, a[n - 1])
  <2>1. \A n \in 1..length : n \in 0..length /\ n # 0
    OBVIOUS
  <2>2. QED
    BY <2>1, <1>2 DEF WalkRule
<1> DEFINE P == {n \in 0..length : a[n] \in Positions}
<1>5. 0 \in P
  <2>1. <<>> \in Seq([primary : Int, reference : Int])
    OBVIOUS
  <2>2. [i |-> 1, j |-> 1, pairs |-> <<>>] \in Positions
    BY <2>1 DEF Positions
  <2>3. a[0] \in Positions /\ 0 \in 0..length
    BY <2>2, <1>3
  <2>4. QED
    BY <2>3
<1>6. ASSUME NEW n \in 0..length, n # 0, n - 1 \in P PROVE n \in P
  <2>1. n \in 1..length /\ a[n - 1] \in Positions
    BY <1>6
  <2>2. QED
    BY <2>1, <1>4, TurnAdds
<1>7. \A n \in 0..length : n \in P
  <2> HIDE DEF P
  <2> QED BY <1>5, <1>6, IntervalInduction
<1>8. QED
  BY <1>1, <1>3, <1>4, <1>7

(* What begins with what begins with x begins with x.                      *)
LEMMA BeginsOn ==
  ASSUME NEW x, NEW y, NEW z, Begins(x, y), Begins(y, z)
  PROVE  Begins(x, z)
<1>1. \A i \in 1..Len(x) : i \in 1..Len(y)
  BY DEF Begins
<1>2. QED
  BY <1>1 DEF Begins

(* A walk along longer series goes the same way until one of the shorter   *)
(* ones is exhausted, and only adds pairs from there.                      *)
LEMMA WalkExtends ==
  ASSUME NEW p, NEW r, NEW q, NEW u, Frames(q), Frames(u), Begins(p, q), Begins(r, u)
  PROVE  /\ Begins(AlignedPairs(p, r), AlignedPairs(q, u))
         /\ AlignedPairs(p, r) \in Seq([primary : Int, reference : Int])
         /\ AlignedPairs(q, u) \in Seq([primary : Int, reference : Int])
<1>1. Frames(p) /\ Frames(r)
  <2>1. /\ \A i \in 1..Len(p) : i \in 1..Len(q) /\ p[i] = q[i]
        /\ \A i \in 1..Len(r) : i \in 1..Len(u) /\ r[i] = u[i]
    BY DEF Begins
  <2>2. QED
    BY <2>1 DEF Begins, Frames
<1>2. PICK a, b : a = Walk(p, r) /\ b = Walk(q, u)
  OBVIOUS
<1>3. PICK l \in Nat, m \in Nat : l = Len(p) + Len(r) /\ m = Len(q) + Len(u) /\ l <= m
  BY DEF Begins
<1>4. /\ a[0] = [i |-> 1, j |-> 1, pairs |-> <<>>]
      /\ \A n \in 0..l : a[n] \in Positions
      /\ \A n \in 1..l : a[n] = Advance(p, r, a[n - 1])
  BY <1>1, <1>2, <1>3, WalkTypes
<1>5. /\ b[0] = [i |-> 1, j |-> 1, pairs |-> <<>>]
      /\ \A n \in 0..m : b[n] \in Positions
      /\ \A n \in 1..m : b[n] = Advance(q, u, b[n - 1])
  BY <1>2, <1>3, WalkTypes
<1> DEFINE Over(at) == at.i > Len(p) \/ at.j > Len(r)
           P == {n \in 0..l : /\ Begins(a[n].pairs, b[n].pairs)
                              /\ a[n] = b[n] \/ Over(a[n])}
           Q == {n \in l..m : Begins(a[l].pairs, b[n].pairs)}
<1>6. ASSUME NEW at \in Positions, ~Over(at) PROVE Advance(p, r, at) = Advance(q, u, at)
  <2>1. at.i \in 1..Len(p) /\ at.j \in 1..Len(r)
    BY <1>1, <1>6 DEF Positions, Frames
  <2>2. /\ p[at.i] = q[at.i] /\ r[at.j] = u[at.j]
        /\ ~(at.i > Len(q) \/ at.j > Len(u)) /\ ~(at.i > Len(p) \/ at.j > Len(r))
    BY <2>1 DEF Begins
  <2>3. QED
    BY <2>2 DEF Advance
<1>7. 0 \in P
  <2>1. a[0].pairs \in Seq([primary : Int, reference : Int]) /\ a[0] = b[0] /\ 0 \in 0..l
    BY <1>4, <1>5 DEF Positions
  <2>2. QED
    BY <2>1 DEF Begins
<1>8. ASSUME NEW n \in 0..l, n # 0, n - 1 \in P PROVE n \in P
  <2>1. n \in 1..l /\ n - 1 \in 0..l /\ n \in 1..m /\ n - 1 \in 0..m
    BY <1>3, <1>8
  <2>2. PICK c, d : c = a[n - 1] /\ d = b[n - 1]
    OBVIOUS
  <2>3. /\ c \in Positions /\ d \in Positions
        /\ a[n] = Advance(p, r, c) /\ b[n] = Advance(q, u, d)
        /\ Begins(c.pairs, d.pairs)
        /\ c = d \/ Over(c)
    BY <2>1, <2>2, <1>4, <1>5, <1>8
  <2>4. CASE Over(c)
    <3>1. a[n] = c
      BY <2>3, <2>4 DEF Advance
    <3>2. Begins(d.pairs, b[n].pairs)
      BY <2>3, TurnAdds
    <3>3. QED
      BY <3>1, <3>2, <2>3, <2>4, BeginsOn
  <2>5. CASE ~Over(c)
    <3>1. a[n] = b[n]
      BY <2>3, <2>5, <1>6
    <3>2. a[n].pairs \in Seq([primary : Int, reference : Int])
      BY <2>1, <1>4 DEF Positions
    <3>3. PICK x : x = a[n].pairs /\ x = b[n].pairs /\ x \in Seq([primary : Int, reference : Int])
      BY <3>1, <3>2
    <3>4. Begins(x, x)
      BY <3>3 DEF Begins
    <3>5. QED
      BY <3>1, <3>3, <3>4
  <2>6. QED
    BY <2>4, <2>5
<1>9. \A n \in 0..l : n \in P
  <2> HIDE DEF P
  <2> QED BY <1>7, <1>8, IntervalInduction
<1>10. l \in Q
  <2>1. l \in 0..l /\ l \in l..m
    BY <1>3
  <2>2. QED
    BY <2>1, <1>9
<1>11. ASSUME NEW n \in l..m, n # l, n - 1 \in Q PROVE n \in Q
  <2>1. n \in 1..m /\ n - 1 \in 0..m
    BY <1>3, <1>11
  <2>2. Begins(b[n - 1].pairs, b[n].pairs)
    BY <2>1, <1>5, TurnAdds
  <2>3. QED
    BY <2>2, <1>11, BeginsOn
<1>12. m \in Q
  <2>1. \A n \in l..m : n \in Q
    <3> HIDE DEF Q
    <3>1. l \in Int /\ m \in Int
      OBVIOUS
    <3> QED BY <3>1, <1>10, <1>11, IntervalInduction
  <2>2. QED
    BY <2>1, <1>3
<1>13. a[l].pairs = AlignedPairs(p, r) /\ b[m].pairs = AlignedPairs(q, u)
  BY <1>2, <1>3 DEF AlignedPairs
<1>14. l \in 0..l /\ m \in 0..m
  BY <1>3
<1>15. QED
  BY <1>4, <1>5, <1>12, <1>13, <1>14 DEF Positions

(* Frames of a series that begins with another one.                        *)
LEMMA FramesBegin ==
  ASSUME NEW A, NEW x \in Seq(A), NEW y \in Seq(A), Begins(x, y)
  PROVE  Begins(DailyFrames(x), DailyFrames(y))
<1>1. PICK f, g : f = DailyFrames(x) /\ g = DailyFrames(y)
  OBVIOUS
<1>2. FramesOf(x, f) /\ FramesOf(y, g)
  BY <1>1, FramesAre DEF DailyFrames
<1>3. Len(x) \in Nat /\ Len(y) \in Nat /\ Len(x) <= Len(y) /\ \A i \in 1..Len(x) : x[i] = y[i]
  BY DEF Begins
<1>4. Len(f) \in Nat /\ Len(g) \in Nat /\ Len(f) <= Len(g)
  BY <1>2, <1>3 DEF FramesOf
<1>5. ASSUME NEW i \in 1..Len(f) PROVE f[i] = g[i]
  <2>1. i \in 1..Len(g)
    BY <1>4
  <2>2. i + 2 \in 1..Len(x) /\ f[i] = x[i + 2] /\ g[i] = y[i + 2]
    BY <2>1, <1>2 DEF FramesOf
  <2>3. QED
    BY <2>2, <1>3
<1>6. QED
  BY <1>1, <1>4, <1>5 DEF Begins

(* The frames of bars with a close close.                                  *)
LEMMA FramesClose ==
  ASSUME NEW A, NEW x \in Seq(A), \A bar \in A : bar.close \in Int
  PROVE  Frames(DailyFrames(x))
<1>1. PICK f : f = DailyFrames(x)
  OBVIOUS
<1>2. FramesOf(x, f)
  BY <1>1, FramesAre DEF DailyFrames
<1>3. Len(x) \in Nat /\ \A i \in 1..Len(x) : x[i] \in A
  OBVIOUS
<1>4. QED
  BY <1>1, <1>2, <1>3 DEF FramesOf, Frames

(* More days of the calendar, all of them later, come after the others.    *)
LEMMA InOrderBegins ==
  ASSUME NEW S \in SUBSET (0..(Days - 1)), NEW T \in SUBSET (0..(Days - 1)), S \subseteq T,
         \A d \in S, e \in T : e <= d => e \in S
  PROVE  Begins(InOrder(S), InOrder(T))
<1>1. PICK a, b : a = InOrder(S) /\ b = InOrder(T)
  OBVIOUS
<1>2. /\ a \in Seq(S) /\ Len(a) = Cardinality(S) /\ Cardinality(S) \in Nat
      /\ \A k \in 1..Cardinality(S) : Cardinality(UpTo(S, a[k])) = k
  BY <1>1, InOrderRanks
<1>3. /\ Len(b) = Cardinality(T) /\ Cardinality(T) \in Nat /\ IsFiniteSet(T)
      /\ \A k \in 1..Cardinality(T) : Cardinality(UpTo(T, b[k])) = k
      /\ \A d \in T : \E k \in 1..Cardinality(T) : b[k] = d
  BY <1>1, InOrderRanks
<1>4. Len(a) <= Len(b)
  <2>1. S \in SUBSET T
    OBVIOUS
  <2>2. Cardinality(S) <= Cardinality(T)
    BY <2>1, <1>3, FS_Subset
  <2>3. QED
    BY <2>2, <1>2, <1>3
<1>5. ASSUME NEW k \in 1..Len(a) PROVE a[k] = b[k]
  <2>1. a[k] \in S /\ Cardinality(UpTo(S, a[k])) = k
    BY <1>2
  <2>2. PICK l \in 1..Cardinality(T) : b[l] = a[k]
    BY <2>1, <1>3
  <2>3. Cardinality(UpTo(T, a[k])) = l
    BY <2>2, <1>3
  <2>4. UpTo(S, a[k]) = UpTo(T, a[k])
    BY <2>1 DEF UpTo
  <2>5. QED
    BY <2>1, <2>2, <2>3, <2>4
<1>6. QED
  BY <1>1, <1>2, <1>3, <1>4, <1>5 DEF Begins

Quotes == [open : Int, close : Int, whole : BOOLEAN]

(* The other instrument only gets more frames.                             *)
LEMMA ReferenceBegins ==
  ASSUME NEW now0 \in Nat, NEW later \in Nat, now0 <= later
  PROVE  /\ Begins(ReferenceFrames(now0), ReferenceFrames(later))
         /\ Frames(ReferenceFrames(later))
<1> DEFINE Listing(t)  == {d \in 0..(Days - 1) : d % WeekDays < Sessions /\ (d + 1) * Day <= t}
           Sold(days) == [i \in 1..Len(days) |->
                            [open |-> days[i] * Day, close |-> (days[i] + 1) * Day - 1,
                             whole |-> TRUE]]
<1>1. PICK S, T : S = Listing(now0) /\ T = Listing(later)
  OBVIOUS
<1>2. /\ S \in SUBSET (0..(Days - 1)) /\ T \in SUBSET (0..(Days - 1)) /\ S \subseteq T
      /\ \A d \in S, e \in T : e <= d => e \in S
  <2>1. \A d \in 0..(Days - 1) : d \in Nat
    BY Constants
  <2>2. \A d \in 0..(Days - 1) : (d + 1) * Day \in Int
    BY <2>1 DEF Day
  <2>3. \A d, e \in 0..(Days - 1) : e <= d => (e + 1) * Day <= (d + 1) * Day
    BY <2>1 DEF Day
  <2>4. QED
    BY <2>2, <2>3, <1>1
<1>3. PICK x, y : x = InOrder(S) /\ y = InOrder(T)
  OBVIOUS
<1>4. Begins(x, y) /\ x \in Seq(0..(Days - 1)) /\ y \in Seq(0..(Days - 1))
  BY <1>2, <1>3, InOrderBegins, InOrderRanks
<1>5. ASSUME NEW z \in Seq(0..(Days - 1)) PROVE Sold(z) \in Seq(Quotes) /\ Len(Sold(z)) = Len(z)
  <2>1. \A i \in 1..Len(z) : z[i] \in 0..(Days - 1) /\ z[i] \in Nat
    BY Constants
  <2>2. \A i \in 1..Len(z) : [open |-> z[i] * Day, close |-> (z[i] + 1) * Day - 1,
                              whole |-> TRUE] \in Quotes
    BY <2>1 DEF Quotes, Day
  <2>3. QED
    BY <2>2
<1>6. Begins(Sold(x), Sold(y)) /\ Sold(x) \in Seq(Quotes) /\ Sold(y) \in Seq(Quotes)
  <2>1. /\ Sold(x) \in Seq(Quotes) /\ Len(Sold(x)) = Len(x)
        /\ Sold(y) \in Seq(Quotes) /\ Len(Sold(y)) = Len(y)
    BY <1>4, <1>5
  <2>2. \A i \in 1..Len(x) : i \in 1..Len(y) /\ x[i] = y[i]
    BY <1>4 DEF Begins
  <2>3. \A i \in 1..Len(x) : Sold(x)[i] = Sold(y)[i]
    BY <2>2
  <2>4. QED
    BY <2>1, <2>3, <1>4 DEF Begins
<1>7. ReferenceFrames(now0) = DailyFrames(Sold(x)) /\ ReferenceFrames(later) = DailyFrames(Sold(y))
  BY <1>1, <1>3 DEF ReferenceFrames
<1> HIDE DEF Sold
<1>8. \A bar \in Quotes : bar.close \in Int
  BY DEF Quotes
<1>9. QED
  BY <1>6, <1>7, <1>8, FramesBegin, FramesClose

(* What was aligned stays aligned as it was, and comes first.              *)
THEOREM PairsAreExtended == Spec => AlignmentExtends
<1>1. MarketInv /\ MarketInv' /\ OriginInv /\ [Next]_vars =>
        [\A s \in series, t \in series' :
           SameMarket(s, t) /\ s.bars[1] = t.bars[1] /\ Len(s.bars) >= 3 => PairsKept(s, t)]_series
  <2> SUFFICES ASSUME MarketInv, MarketInv', OriginInv, [Next]_vars, series' # series,
                      NEW s \in series, NEW t \in series', SameMarket(s, t),
                      s.bars[1] = t.bars[1], Len(s.bars) >= 3
               PROVE  PairsKept(s, t)
    OBVIOUS
  <2>1. PICK old, new : old = s.bars /\ new = t.bars
    OBVIOUS
  <2>2. /\ s.begun \in Nat /\ t.begun \in Nat /\ s.begun <= t.begun
        /\ \E k, g, h, c, e : Later(old, new, k, g, h, c, e)
    BY <2>1, LaterSeries
  <2>3. PICK k, g, h, c, e : Later(old, new, k, g, h, c, e)
    BY <2>2
  <2>4. old \in Seq(Bars) /\ new \in Seq(Bars) /\ Shifted(old, new, k) /\ Spaced(old)
    BY <2>3 DEF Later, Follows
  <2>5. k = 0
    <3>1. CASE 1 \in 1..k
      <4>1. old[1].open < new[1].open
        BY <3>1, <2>4 DEF Shifted
      <4>2. old[1].open \in Int
        BY <2>1, <2>4 DEF Spaced
      <4>3. QED
        BY <4>1, <4>2, <2>1
    <3>2. CASE 1 \notin 1..k
      <4>1. k \in 0..Len(old) /\ Len(old) \in Nat
        BY <2>4 DEF Shifted
      <4>2. QED
        BY <4>1, <3>2
    <3>3. QED
      BY <3>1, <3>2
  <2>6. Begins(old, new)
    <3>1. \A i \in 1..Len(old) : i \in (k + 1)..Len(old) /\ i - k = i
      BY <2>4, <2>5
    <3>2. \A i \in 1..Len(old) : i \in 1..Len(new) /\ new[i] = old[i]
      BY <3>1, <2>4 DEF Shifted
    <3>3. Len(old) \in Nat /\ Len(new) \in Nat /\ Len(old) \in 1..Len(old)
      BY <2>1, <2>4
    <3>4. Len(old) <= Len(new)
      BY <3>2, <3>3
    <3>5. QED
      BY <3>2, <3>3, <3>4 DEF Begins
  <2>7. \A bar \in Bars : bar.close \in Int
    BY DEF Bars
  <2>8. PICK p, q : p = DailyFrames(old) /\ q = DailyFrames(new)
    OBVIOUS
  <2>9. PICK r, u : r = ReferenceFrames(s.begun) /\ u = ReferenceFrames(t.begun)
    OBVIOUS
  <2>10. Begins(p, q) /\ Frames(q)
    BY <2>4, <2>6, <2>7, <2>8, FramesBegin, FramesClose
  <2>11. Begins(r, u) /\ Frames(u)
    BY <2>2, <2>9, ReferenceBegins
  <2>12. PICK x, y : x = AlignedPairs(p, r) /\ y = AlignedPairs(q, u)
    OBVIOUS
  <2>13. /\ Begins(x, y) /\ x \in Seq([primary : Int, reference : Int])
         /\ y \in Seq([primary : Int, reference : Int])
    BY <2>10, <2>11, <2>12, WalkExtends
  <2>14. Len(x) <= Len(y) /\ SubSeq(y, 1, Len(x)) = x
    <3>1. PICK n \in Nat : n = Len(x) /\ n <= Len(y) /\ \A i \in 1..n : x[i] = y[i]
      BY <2>13 DEF Begins
    <3>2. /\ SubSeq(y, 1, n) \in Seq([primary : Int, reference : Int])
          /\ Len(SubSeq(y, 1, n)) = n - 1 + 1
          /\ \A i \in 1..(n - 1 + 1) : SubSeq(y, 1, n)[i] = y[1 + i - 1]
      <4>1. PICK A : A = [primary : Int, reference : Int]
        OBVIOUS
      <4>2. PICK one \in Nat \ {0} : one = 1 /\ one <= n + 1
        OBVIOUS
      <4>3. y \in Seq(A) /\ n <= Len(y)
        BY <3>1, <4>1, <2>13
      <4>4. /\ SubSeq(y, one, n) \in Seq(A)
            /\ Len(SubSeq(y, one, n)) = n - one + 1
            /\ \A i \in 1..(n - one + 1) : SubSeq(y, one, n)[i] = y[one + i - 1]
        BY <4>2, <4>3, Segment
      <4>5. QED
        BY <4>1, <4>2, <4>4
    <3>3. \A i \in 1..n : SubSeq(y, 1, n)[i] = x[i]
      <4>1. \A i \in 1..n : i \in 1..(n - 1 + 1) /\ 1 + i - 1 = i
        OBVIOUS
      <4>2. QED
        BY <4>1, <3>1, <3>2
    <3>4. Len(SubSeq(y, 1, n)) = n
      BY <3>2
    <3>5. SubSeq(y, 1, n) = x
      BY <3>1, <3>2, <3>3, <3>4, <2>13, SeqEqual
    <3>6. QED
      BY <3>1, <3>5
  <2>15. QED
    BY <2>1, <2>8, <2>9, <2>12, <2>14 DEF PairsKept
<1>2. QED
  BY <1>1, SpecOriginInv, PTL DEF Spec, AlignmentExtends

=============================================================================
