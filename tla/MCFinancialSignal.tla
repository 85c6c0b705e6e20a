-------------------------- MODULE MCFinancialSignal --------------------------
(***************************************************************************)
(* Weeks of two days and indicators of two to six bars: days are read from *)
(* the start, weeks from twelve days on, and the last three days take      *)
(* every choice of a rise, a fall, a wide day that goes nowhere and a      *)
(* motionless one.  The average is slow against the ranges, so that after  *)
(* a strong move a quiet close is still extended: every branch of the      *)
(* counter-reading is taken.                                               *)
(***************************************************************************)
EXTENDS FinancialSignal

MCMoves == {[close |-> 2,  above |-> 1, below |-> 0], [close |-> -3, above |-> 0, below |-> 2],
            [close |-> 0,  above |-> 2, below |-> 2], [close |-> 0,  above |-> 0, below |-> 0]}

Rise  == [close |-> 1, above |-> 0, below |-> 1]
Slip  == [close |-> -1, above |-> 0, below |-> 0]
Pause == [close |-> 0, above |-> 0, below |-> 0]
Surge == [close |-> 3, above |-> 0, below |-> 0]

Upturned(m) == [close |-> -m.close, above |-> m.below, below |-> m.above]

(* A surge that has come to rest, the same upside down, a rising, a        *)
(* falling and a flat market.                                              *)
Rest   == <<Pause, Pause, Slip, Surge, Surge, Slip, Pause, Pause, Pause, Pause>>
Starts ==
  {Rest, [i \in DOMAIN Rest |-> Upturned(Rest[i])],
   <<Rise, Rise, Slip, Rise, Rise, Rise, Slip, Rise, Rise, Slip>>,
   <<Slip, Slip, Slip, Rise, Slip, Slip, Slip, Slip, Rise, Slip>>,
   [i \in 1..10 |-> Pause]}

MCOpenings ==
  {FoldLeft(LAMBDA days, m : Append(days, DayAfter(days[Len(days)].close, m)),
            <<[close |-> 0, high |-> 0, low |-> 0]>>, start) : start \in Starts}

MCRequests == {<< >>, <<"D1">>, <<"W1">>, <<"D1", "D1", "W1">>, <<"H1", "D1">>}

=============================================================================
