--------------------------- MODULE MCMarketSeries ---------------------------
(***************************************************************************)
(* MarketSeries for TLC: weeks of three days with a one-day weekend, every *)
(* source there is, and two futures contracts of which one expires.        *)
(***************************************************************************)
EXTENDS MarketSeries

Source(kind, continuous) == [kind |-> kind, continuous |-> continuous]

MCFeeds ==
  {Source("BINANCE", TRUE), Source("STANDARD", FALSE), Source("FUTURES", FALSE),
   Source("CORPUS", TRUE), Source("CORPUS", FALSE)}

(* No hole, a day, and a week of an exchange.                              *)
MCHoles == {{}, {6, 7}} \cup {{d} : d \in 0..(Days - 1)}

MCContracts == {[ticker |-> "GC1", expiry |-> 11], [ticker |-> "GC2", expiry |-> 20]}

=============================================================================
