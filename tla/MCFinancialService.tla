------------------------- MODULE MCFinancialService -------------------------
(***************************************************************************)
(* FinancialService for TLC: the requests that are worth telling apart.    *)
(***************************************************************************)
EXTENDS FinancialService, TLC

(* Requests are interchangeable in every safety property.                  *)
RequestSymmetry == Permutations(Requests)

NativeAsk ==
  [endpoint |-> "NATIVE", timeframes |-> <<"D1", "W1">>, source |-> "SUPPLIED_CORPUS",
   accepted |-> TRUE, mapped |-> TRUE]

TelegraphAsk(timeframe, source) ==
  [endpoint |-> "TELEGRAPH", timeframes |-> <<timeframe>>, source |-> source,
   accepted |-> TRUE, mapped |-> TRUE]

(* A daily replay, a weekly live question, and one for an instrument that  *)
(* only the provider knows.                                                *)
TelegraphAsks ==
  {TelegraphAsk("D1", "SUPPLIED_CORPUS"), TelegraphAsk("W1", "AUTO"),
   [TelegraphAsk("D1", "AUTO") EXCEPT !.mapped = FALSE]}

ServedAsks == {NativeAsk} \cup TelegraphAsks

RejectedAsk == [NativeAsk EXCEPT !.accepted = FALSE]

AllAsks == ServedAsks \cup {RejectedAsk}

=============================================================================
