-------------------------- MODULE FinancialSignal --------------------------
(***************************************************************************)
(* A native signal request (server.rs: native_financial_signal; signal.rs) *)
(* over a market that goes on between requests: the requested timeframes   *)
(* are read by the technical channel, each from its own bars, and their    *)
(* directions are composed into one.                                       *)
(***************************************************************************)
EXTENDS Technical, SequencesExt

CONSTANTS
  Openings,      \* bound: the days of the market at the first request
  Moves,         \* bound: the days tried after them
  MaxBars,       \* bound: the days of the market
  DaysPerWeek,   \* the days of a closed week
  Requests       \* bound: the sequences of timeframes that are asked for

ASSUME MarketAssumption ==
  /\ DaysPerWeek \in Nat \ {0}
  /\ \A opening \in Openings :
       opening \in Seq([close : Int, high : Int, low : Int]) /\ opening # << >>
  /\ Moves \subseteq [close : Int, above : Nat, below : Nat]
  /\ \A timeframes \in Requests : timeframes \in Seq(STRING)

VARIABLES
  bars,      \* the closed daily bars
  response   \* Option of the last answer of the endpoint

vars == <<bars, response>>

Supported == <<"D1", "W1">>
Directions == {"UP", "DOWN", "RANGE"}

(* A day that moves the close, with wicks above and below its body.        *)
DayAfter(close, move) ==
  [close |-> close + move.close,
   high  |-> Greatest(close, close + move.close) + move.above,
   low   |-> Least(close, close + move.close) - move.below]

(* The closed weeks of aggregate_weekly; a year of whole weeks.            *)
Week(days, k) ==
  LET of == SubSeq(days, (k - 1) * DaysPerWeek + 1, k * DaysPerWeek)
  IN [close |-> of[DaysPerWeek].close,
      high  |-> Max({of[i].high : i \in DOMAIN of}),
      low   |-> Min({of[i].low : i \in DOMAIN of})]

BarsOf(days, timeframe) ==
  IF timeframe = "D1" THEN days
  ELSE [k \in 1..(Len(days) \div DaysPerWeek) |-> Week(days, k)]

-----------------------------------------------------------------------------
(* signal.rs                                                               *)

ResolveTimeframes(timeframes) ==
  IF timeframes = << >> THEN Supported
  ELSE Only(timeframes, {i \in DOMAIN timeframes : timeframes[i] \in ToSet(Supported)})

(* determine_cross_scale, on the direction of every scale.                 *)
Dominates(count, d) == \A other \in Directions \ {d} : count[d] > count[other]

CrossScale(scales) ==
  LET count == [d \in Directions |->
                  Cardinality({i \in DOMAIN scales : scales[i].direction = d})]
      dominant == {d \in Directions : Dominates(count, d)}
      Most(d)  == \A other \in Directions : count[d] >= count[other]
      reference == CASE dominant # {}                -> The(dominant)
                     [] dominant = {} /\ Most("UP")  -> "UP"
                     [] OTHER -> IF Most("DOWN") THEN "DOWN" ELSE "RANGE"
      agreeing    == Cardinality({i \in DOMAIN scales : scales[i].direction = reference})
      disagreeing == Len(scales) - agreeing
  IN [direction |-> IF dominant = {} THEN "UNRESOLVED" ELSE The(dominant),
      agreement |-> CASE disagreeing = 0        -> "UNANIMOUS"
                      [] agreeing = disagreeing -> "SPLIT"
                      [] OTHER -> IF agreeing > disagreeing THEN "MAJORITY" ELSE "UNAVAILABLE"]

-----------------------------------------------------------------------------
(* server.rs                                                               *)

(* validate_native_request: what it says of the timeframes.                *)
FaultyValidNativeRequest(timeframes) == ToSet(timeframes) \subseteq ToSet(Supported)
ValidNativeRequest(timeframes) ==
  /\ ToSet(timeframes) \subseteq ToSet(Supported)
  /\ \A i, j \in DOMAIN timeframes : timeframes[i] = timeframes[j] => i = j

(* One scale that cannot be read fails the whole request.                  *)
Readable(timeframes) == \A i \in DOMAIN timeframes : ValidBars(BarsOf(bars, timeframes[i]))

Failed(code) == [code |-> code, readings |-> << >>, cross |-> {}]

Served(timeframes) ==
  LET technical == [i \in DOMAIN timeframes |-> Reading(BarsOf(bars, timeframes[i]))]
  IN [code     |-> 200,
      readings |-> [i \in DOMAIN timeframes |->
                      [timeframe |-> timeframes[i], technical |-> technical[i]]],
      cross    |-> {CrossScale([i \in DOMAIN timeframes |-> technical[i].head])}]

Init ==
  /\ bars \in Openings
  /\ response = {}

(* The corpus is extended by a closed day.                                 *)
Bar(move) ==
  /\ Len(bars) < MaxBars
  /\ bars' = Append(bars, DayAfter(bars[Len(bars)].close, move))
  /\ UNCHANGED response

(* native_financial_signal                                                 *)
Request(timeframes) ==
  LET requested == ResolveTimeframes(timeframes) IN
  /\ response' = {CASE ~ValidNativeRequest(timeframes) -> Failed(400)
                    [] ValidNativeRequest(timeframes) /\ ~Readable(requested) -> Failed(500)
                    [] OTHER -> Served(requested)}
  /\ UNCHANGED bars

Next ==
  \/ \E move \in Moves : Bar(move)
  \/ \E timeframes \in Requests : Request(timeframes)

Spec == Init /\ [][Next]_vars

-----------------------------------------------------------------------------
(* Properties.                                                             *)

(* Nothing is repainted: what an earlier answer read at a bar, every later *)
(* answer reads at that bar too, in every indicator.  A seed, a warm-up or *)
(* an alignment that depended on the length of the history would rewrite   *)
(* the past of a chart whenever a bar closes.                              *)
NoRepaint ==
  [][\A old \in response, new \in response' :
       \A i \in DOMAIN old.readings, j \in DOMAIN new.readings :
         old.readings[i].timeframe = new.readings[j].timeframe =>
           \A name \in DOMAIN old.readings[i].technical.series :
             IsPrefix(old.readings[i].technical.series[name],
                      new.readings[j].technical.series[name])]_vars

(* The channel has no side: of the market turned upside down it reads the  *)
(* range as a range, the opposite counter-reading and the opposite         *)
(* direction.  Only a vote that is exactly on its threshold has a side of  *)
(* its own (RSI reads UP, the others DOWN), and only a market without any  *)
(* move is overbought either way.                                          *)
Mirrored(days) ==
  [i \in DOMAIN days |-> [close |-> -days[i].close, high |-> -days[i].low, low |-> -days[i].high]]

Opposite(reading) ==
  CASE reading = "UP" -> "DOWN" [] reading = "DOWN" -> "UP" [] OTHER -> reading

OnThreshold(r) ==
  LET last == Len(r.bars)
      rsi  == The(r.series.rsi[last])
  IN \/ r.series.emaFast[last] = r.series.emaSlow[last]
     \/ r.series.emaFast[last] = r.series.emaFast[last - 1]
     \/ r.series.macd[last] = {0}
     \/ rsi.gain = rsi.loss

Motionless(r) == The(r.series.rsi[Len(r.bars)]) = [gain |-> 0, loss |-> 0]

UnbiasedReading ==
  \A answer \in response : \A i \in DOMAIN answer.readings :
    LET r      == answer.readings[i].technical
        mirror == Reading(Mirrored(r.bars))
    IN /\ mirror.head.isRange = r.head.isRange
       /\ OnThreshold(r) \/ mirror.head.direction = Opposite(r.head.direction)
       /\ Motionless(r) \/ mirror.counter = Opposite(r.counter)

(* A published direction is the direction of every timeframe that was      *)
(* asked for: two timeframes that read differently publish UNRESOLVED, and *)
(* a tie is called a split, never an agreement.                            *)
NoContradictedDirection ==
  \A answer \in response : \A cross \in answer.cross :
    LET read == {answer.readings[i].technical.head.direction : i \in DOMAIN answer.readings} IN
    /\ cross.direction # "UNRESOLVED" <=> read = {cross.direction}
    /\ cross.agreement = (IF Cardinality(read) = 1 THEN "UNANIMOUS" ELSE "SPLIT")

=============================================================================
