----------------------------- MODULE Technical -----------------------------
(***************************************************************************)
(* The technical channel (technical.rs): indicators of a sequence of       *)
(* closed bars, the direction they vote for and the counter-reading.       *)
(*                                                                         *)
(* A bar is a record of high, low and close in ticks from a level: no      *)
(* indicator depends on the level.  Averages are counted in parts of a     *)
(* tick; DI, DX and ADX are whole percentages.                             *)
(* An AvailableValue is an Option.                                         *)
(***************************************************************************)
EXTENDS Common, Functions

CONSTANTS
  EmaFast, EmaSlow,                  \* 20 and 50
  MacdFast, MacdSlow, MacdSignal,    \* 12, 26 and 9
  WilderPeriod,                      \* 14, for RSI, ADX and ATR
  BandPeriod, BandWidth,             \* 20 and 2
  MinBars,                           \* MIN_BARS_TECHNICAL, 60
  Scale                              \* the parts of a tick

(* The bars of a head are enough for every indicator.                      *)
ASSUME WarmupAssumption ==
  /\ EmaFast \in Nat \ {0} /\ EmaFast < EmaSlow /\ EmaSlow <= MinBars
  /\ MacdFast \in Nat \ {0} /\ MacdFast < MacdSlow /\ MacdSignal \in Nat \ {0}
  /\ MacdSlow + MacdSignal <= MinBars
  /\ WilderPeriod \in Nat \ {0} /\ 2 * WilderPeriod <= MinBars
  /\ BandPeriod \in Nat \ {0} /\ BandPeriod <= MinBars
  /\ {EmaSlow, MacdSlow, MinBars, BandWidth} \subseteq Nat /\ Scale \in Nat \ {0}

The(option) == CHOOSE x \in option : TRUE

-----------------------------------------------------------------------------
(* The indicators: one value for every bar.                                *)

(* A quotient.  Where it is not exact it is rounded towards zero: like an  *)
(* f64, it does not look at the sign.                                      *)
Quotient(n, d) == IF n >= 0 THEN n \div d ELSE -((-n) \div d)

(* A running average: the seed at the first place, then "weight" parts of  *)
(* each new value and period - 1 parts of the average before it.           *)
Smoothed(x, seed, first, last, weight, period) ==
  LET avg[i \in first..last] ==
        IF i = first
        THEN seed
        ELSE Quotient(weight * x[i] + (period - 1) * avg[i - 1], period - 1 + weight)
  IN avg

(* The mean of the first period.                                           *)
FaultySeed(values, period) ==
  Quotient(SumFunctionOnSet(values, DOMAIN values), Len(values))
Seed(values, period) == Quotient(SumFunctionOnSet(values, 1..period), period)

(* compute_ema: the mean of the first period, then 2 / (period + 1) of     *)
(* each new value.                                                         *)
Ema(values, period) ==
  LET ema == Smoothed(values, Seed(values, period), period, Len(values), 2, period)
  IN [i \in DOMAIN values |-> IF i < period THEN {} ELSE {ema[i]}]

(* The bars without a value are put in front of those that have one.       *)
Padded(values, length) == [i \in 1..(length - Len(values)) |-> {}] \o values

(* Wilder's smoothing of x[from], x[from + 1], ...: the mean of a period,  *)
(* then one part in a period of each new value.                            *)
Wilder(x, from, last) ==
  LET first == from + WilderPeriod - 1
      seed  == Quotient(SumFunctionOnSet(x, from..first), WilderPeriod)
      avg   == Smoothed(x, seed, first, last, 1, WilderPeriod)
  IN Padded([k \in 1..Greatest(last - first + 1, 0) |-> {avg[first + k - 1]}], last)

Closes(bars) == [i \in DOMAIN bars |-> Scale * bars[i].close]

(* compute_rsi, as its average gain and loss.                              *)
Rsi(bars) ==
  LET Change(i) == Scale * (bars[i].close - bars[i - 1].close)
      gain == Wilder([i \in 2..Len(bars) |-> Greatest(Change(i), 0)], 2, Len(bars))
      loss == Wilder([i \in 2..Len(bars) |-> Greatest(-Change(i), 0)], 2, Len(bars))
  IN [i \in DOMAIN bars |->
        IF gain[i] = {} THEN {} ELSE {[gain |-> The(gain[i]), loss |-> The(loss[i])]}]

(* 100 - 100 / (1 + gain / loss); without a loss it is 100.                *)
RsiAtLeast(rsi, level) == rsi.loss = 0 \/ (100 - level) * rsi.gain >= level * rsi.loss
RsiAtMost(rsi, level)  == rsi.loss # 0 /\ (100 - level) * rsi.gain <= level * rsi.loss

(* The histogram of compute_macd.  The signal line starts with the mean of *)
(* the first MacdSignal values of the MACD line, but only at the bar after *)
(* them: the value of that bar never enters it.                            *)
MacdHistogram(bars) ==
  LET fast   == Ema(Closes(bars), MacdFast)
      slow   == Ema(Closes(bars), MacdSlow)
      before == MacdSlow - 1
      line   == [k \in 1..Greatest(Len(bars) - before, 0) |->
                   The(fast[before + k]) - The(slow[before + k])]
      signal == Smoothed(line, Seed(line, MacdSignal), MacdSignal + 1, Len(line), 2, MacdSignal)
  IN [i \in DOMAIN bars |->
        IF i < MacdSlow + MacdSignal THEN {}
        ELSE {line[i - before] - signal[i - before]}]

(* The true range and compute_atr.                                         *)
TrueRange(bars, i) ==
  LET previous == bars[i - 1].close
  IN Scale * (Greatest(bars[i].high, previous) - Least(bars[i].low, previous))

Atr(bars) == Wilder([i \in 2..Len(bars) |-> TrueRange(bars, i)], 2, Len(bars))

(* The directional movement of compute_adx.                                *)
UpMove(bars, i)   == bars[i].high - bars[i - 1].high
DownMove(bars, i) == bars[i - 1].low - bars[i].low
PlusDm(bars, i) ==
  IF UpMove(bars, i) > DownMove(bars, i) THEN Scale * Greatest(UpMove(bars, i), 0) ELSE 0
FaultyMinusDm(bars, i) == Scale * Greatest(DownMove(bars, i), 0)
MinusDm(bars, i) ==
  IF DownMove(bars, i) > UpMove(bars, i) THEN Scale * Greatest(DownMove(bars, i), 0) ELSE 0

(* plus_di or minus_di: {} is NaN, which a place without any range leaves  *)
(* behind for good.                                                        *)
Di(dm, bars, atr) ==
  LET first    == WilderPeriod + 1
      Share(m, parts, i) == IF atr[i] = {0} THEN 0
                            ELSE Quotient(100 * m, parts * The(atr[i]))
      share    == [i \in first..Len(bars) |-> Share(dm[i], 1, i)]
      seed     == Share(SumFunctionOnSet(dm, 2..first), WilderPeriod, first)
      smoothed == Smoothed(share, seed, first, Len(bars), 1, WilderPeriod)
  IN [i \in first..Len(bars) |->
        IF \E j \in first..i : atr[j] = {0} THEN {} ELSE {smoothed[i]}]

(* compute_adx: the smoothed DX, 0 where DI is NaN.                        *)
Adx(bars) ==
  LET atr   == Atr(bars)
      plus  == Di([i \in 2..Len(bars) |-> PlusDm(bars, i)], bars, atr)
      minus == Di([i \in 2..Len(bars) |-> MinusDm(bars, i)], bars, atr)
      dx == [i \in (WilderPeriod + 1)..Len(bars) |->
               IF plus[i] = {} \/ The(plus[i]) + The(minus[i]) = 0 THEN 0
               ELSE LET gap == The(plus[i]) - The(minus[i])
                    IN Quotient(100 * Greatest(gap, -gap), The(plus[i]) + The(minus[i]))]
  IN Wilder(dx, WilderPeriod + 1, Len(bars))

(* compute_bollinger, as the sum of the window and the square of the       *)
(* standard deviation on the scale of the sum.                             *)
Bollinger(bars) ==
  LET Window(i)  == (i - BandPeriod + 1)..i
      close      == [j \in DOMAIN bars |-> bars[j].close]
      square     == [j \in DOMAIN bars |-> bars[j].close * bars[j].close]
      Sum(i)     == SumFunctionOnSet(close, Window(i))
      Squares(i) == SumFunctionOnSet(square, Window(i))
  IN [i \in DOMAIN bars |->
        IF i < BandPeriod THEN {}
        ELSE {[sum |-> Sum(i), square |-> BandPeriod * Squares(i) - Sum(i) * Sum(i)]}]

Series(bars) ==
  [emaFast   |-> Ema(Closes(bars), EmaFast),
   emaSlow   |-> Ema(Closes(bars), EmaSlow),
   macd      |-> MacdHistogram(bars),
   rsi       |-> Rsi(bars),
   adx       |-> Adx(bars),
   atr       |-> Atr(bars),
   bollinger |-> Bollinger(bars)]

-----------------------------------------------------------------------------
(* What is read from the last bar.                                         *)

(* validate_bars: the rest of it holds of every bar there is here.         *)
ValidBars(bars) == Len(bars) >= MinBars

UpIf(condition) == IF condition THEN "UP" ELSE "DOWN"

(* The votes, the range detection and the direction of                     *)
(* compute_technical_direction.                                            *)
TechnicalDirection(bars, series) ==
  LET last == Len(bars)
      fast == The(series.emaFast[last])
      slow == The(series.emaSlow[last])
      atr  == The(series.atr[last])
      gap  == Greatest(fast - slow, slow - fast)
      step == UNION {{fast - e} : e \in series.emaFast[last - 1]}
      votes == [trend |-> UpIf(fast > slow),
                slope |-> IF step = {} THEN "UNAVAILABLE" ELSE UpIf(The(step) > 0),
                macd  |-> UpIf(The(series.macd[last]) > 0),
                rsi   |-> UpIf(RsiAtLeast(The(series.rsi[last]), 50))]
      For(d) == Cardinality({v \in DOMAIN votes : votes[v] = d})
      isRange == atr > 0 /\ The(series.adx[last]) < 20 /\ 2 * gap < atr
  IN [votes     |-> votes,
      isRange   |-> isRange,
      direction |-> CASE isRange                -> "RANGE"
                      [] ~isRange /\ For("UP") > For("DOWN") -> "UP"
                      [] ~isRange /\ For("DOWN") > For("UP") -> "DOWN"
                      [] OTHER                  -> UpIf(votes.slope = "UP")]

(* compute_counter_reading: an extreme RSI, else a close outside the       *)
(* bands, else a close more than two ranges from the average.              *)
CounterReading(bars, series) ==
  LET last  == Len(bars)
      close == bars[last].close
      rsi   == The(series.rsi[last])
      band  == The(series.bollinger[last])
      away  == BandPeriod * close - band.sum
      atr   == The(series.atr[last])
      extension == Scale * close - The(series.emaFast[last])
      outside  == away * away > BandWidth * BandWidth * band.square
      extended == atr > 0 /\ Greatest(extension, -extension) > 2 * atr
  IN CASE RsiAtLeast(rsi, 70) -> "DOWN"
       [] RsiAtMost(rsi, 30)  -> "UP"
       [] OTHER ->
            IF outside THEN (IF away > 0 THEN "DOWN" ELSE "UP")
            ELSE IF extended THEN (IF extension > 0 THEN "DOWN" ELSE "UP")
            ELSE "NONE"

(* compute_technical_structural_contrast, without the contrast.            *)
Reading(bars) ==
  LET series == Series(bars)
  IN [bars    |-> bars,
      series  |-> series,
      head    |-> TechnicalDirection(bars, series),
      counter |-> CounterReading(bars, series)]

=============================================================================
