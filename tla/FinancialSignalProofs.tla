----------------------- MODULE FinancialSignalProofs -----------------------
(***************************************************************************)
(* Theorems about FinancialSignal: what an answer has read is never        *)
(* repainted, the channel has no side, and a published direction is that   *)
(* of every timeframe asked for, for every period of every indicator and   *)
(* every market.                                                           *)
(***************************************************************************)
EXTENDS FinancialSignal, CommonProofs

(* The assumptions about the constants, one by one.                        *)
LEMMA Periods ==
  /\ EmaFast \in Nat \ {0} /\ EmaSlow \in Nat \ {0} /\ EmaFast < EmaSlow /\ EmaSlow <= MinBars
  /\ MacdFast \in Nat \ {0} /\ MacdSlow \in Nat \ {0} /\ MacdFast < MacdSlow
  /\ MacdSignal \in Nat \ {0} /\ MacdSlow + MacdSignal <= MinBars
  /\ WilderPeriod \in Nat \ {0} /\ 2 * WilderPeriod <= MinBars
  /\ BandPeriod \in Nat \ {0} /\ BandPeriod <= MinBars
  /\ MinBars \in Nat /\ BandWidth \in Nat /\ Scale \in Nat \ {0}
BY WarmupAssumption

-----------------------------------------------------------------------------
(* Running averages                                                        *)

(* The quotient of integers is an integer, of natural numbers a natural    *)
(* number, and it does not look at the sign.                               *)
LEMMA QuotientFair ==
  ASSUME NEW n \in Int, NEW d \in Nat \ {0}
  PROVE  /\ Quotient(n, d) \in Int /\ Quotient(-n, d) = -Quotient(n, d)
         /\ n >= 0 => Quotient(n, d) \in Nat
<1>1. n \div d \in Int /\ (-n) \div d \in Int
  OBVIOUS
<1>2. n = 0 => n \div d = 0
  OBVIOUS
<1>3. n >= 0 => n \div d >= 0
  OBVIOUS
<1>4. -(-n) = n
  OBVIOUS
<1>5. CASE n > 0
  BY <1>1, <1>3, <1>4, <1>5 DEF Quotient
<1>6. CASE n = 0
  BY <1>1, <1>2, <1>6 DEF Quotient
<1>7. CASE n < 0
  BY <1>1, <1>7 DEF Quotient
<1>8. QED
  BY <1>5, <1>6, <1>7

(* One step of a running average.                                          *)
SmoothedRule(x, seed, first, weight, period, avg, i) ==
  IF i = first THEN seed
  ELSE Quotient(weight * x[i] + (period - 1) * avg[i - 1], period - 1 + weight)

(* What Smoothed is.                                                       *)
LEMMA SmoothedIs ==
  ASSUME NEW x, NEW seed, NEW first, NEW last, NEW weight, NEW period
  PROVE  Smoothed(x, seed, first, last, weight, period) =
           CHOOSE avg : avg = [i \in first..last |->
                                 SmoothedRule(x, seed, first, weight, period, avg, i)]
BY DEF Smoothed, SmoothedRule

(* The recursion of a running average is well founded.                     *)
LEMMA SmoothedDefined ==
  ASSUME NEW x, NEW seed, NEW first \in Int, NEW last \in Int, NEW weight, NEW period, NEW a,
         a = Smoothed(x, seed, first, last, weight, period)
  PROVE  \A i \in first..last : a[i] = SmoothedRule(x, seed, first, weight, period, a, i)
<1> DEFINE Rule(f, i) == SmoothedRule(x, seed, first, weight, period, f, i)
           defined == {n \in Nat : \E f : f = [i \in first..(first + n - 1) |-> Rule(f, i)]}
<1>1. 0 \in defined
  <2>1. first..(first + 0 - 1) = {}
    OBVIOUS
  <2>2. PICK f : f = [i \in {} |-> 0]
    OBVIOUS
  <2>3. f = [i \in first..(first + 0 - 1) |-> Rule(f, i)]
    BY <2>1, <2>2
  <2>4. QED
    BY <2>3
<1>2. ASSUME NEW n \in Nat, n \in defined PROVE n + 1 \in defined
  <2>1. PICK f : f = [i \in first..(first + n - 1) |-> Rule(f, i)]
    BY <1>2
  <2>2. PICK g : g = [i \in first..(first + n) |-> IF i <= first + n - 1 THEN f[i] ELSE Rule(f, i)]
    OBVIOUS
  <2>3. ASSUME NEW i \in first..(first + n) PROVE g[i] = Rule(g, i)
    <3>1. i # first => i - 1 \in first..(first + n - 1) /\ i - 1 \in first..(first + n)
      OBVIOUS
    <3>2. i # first => g[i - 1] = f[i - 1]
      BY <2>2, <3>1
    <3>3. Rule(g, i) = Rule(f, i)
      BY <3>2 DEF SmoothedRule
    <3>4. i <= first + n - 1 => f[i] = Rule(f, i)
      BY <2>1
    <3>5. g[i] = Rule(f, i)
      BY <2>2, <3>4
    <3>6. QED
      BY <3>3, <3>5
  <2>4. g = [i \in first..(first + n) |-> g[i]]
    BY <2>2
  <2>5. g = [i \in first..(first + n) |-> Rule(g, i)]
    BY <2>3, <2>4
  <2>6. first + (n + 1) - 1 = first + n
    OBVIOUS
  <2>7. QED
    BY <2>5, <2>6
<1>3. \A n \in Nat : n \in defined
  <2> HIDE DEF defined
  <2> QED BY <1>1, <1>2, NaturalInduction
<1>4. \E f : f = [i \in first..last |-> Rule(f, i)]
  <2>1. CASE last >= first
    <3>1. last - first + 1 \in Nat /\ first + (last - first + 1) - 1 = last
      BY <2>1
    <3>2. last - first + 1 \in defined
      BY <1>3, <3>1
    <3>3. QED
      BY <3>1, <3>2
  <2>2. CASE last < first
    <3>1. first..last = first..(first + 0 - 1)
      BY <2>2
    <3>2. 0 \in Nat /\ 0 \in defined
      BY <1>1
    <3>3. QED
      BY <3>1, <3>2
  <2>3. QED
    BY <2>1, <2>2
<1>5. a = [i \in first..last |-> Rule(a, i)]
  BY <1>4, SmoothedIs
<1> HIDE DEF Rule
<1>6. \A i \in first..last : a[i] = Rule(a, i)
  BY <1>5
<1>7. QED
  BY <1>6 DEF Rule

(* A longer running average begins like the shorter one.                   *)
LEMMA SmoothedAgrees ==
  ASSUME NEW x, NEW y, NEW seed, NEW first \in Int, NEW last \in Int, NEW longer \in Int,
         last <= longer, NEW weight, NEW period, Same(x, y, (first + 1)..last)
  PROVE  Same(Smoothed(x, seed, first, last, weight, period),
              Smoothed(y, seed, first, longer, weight, period), first..last)
<1>1. PICK a : a = Smoothed(x, seed, first, last, weight, period)
  OBVIOUS
<1>2. PICK b : b = Smoothed(y, seed, first, longer, weight, period)
  OBVIOUS
<1>3. \A i \in first..last : a[i] = SmoothedRule(x, seed, first, weight, period, a, i)
  BY <1>1, SmoothedDefined
<1>4. \A i \in first..longer : b[i] = SmoothedRule(y, seed, first, weight, period, b, i)
  BY <1>2, SmoothedDefined
<1> DEFINE P == {i \in first..last : a[i] = b[i]}
<1>5. first <= last => first \in P
  <2> SUFFICES ASSUME first <= last PROVE a[first] = b[first]
    OBVIOUS
  <2>1. first \in first..last /\ first \in first..longer
    OBVIOUS
  <2>2. QED
    BY <1>3, <1>4, <2>1 DEF SmoothedRule
<1>6. ASSUME NEW i \in first..last, i # first, i - 1 \in P PROVE i \in P
  <2>1. i \in first..longer /\ a[i - 1] = b[i - 1] /\ x[i] = y[i]
    BY <1>6 DEF Same
  <2>2. QED
    BY <1>3, <1>4, <1>6, <2>1 DEF SmoothedRule
<1> HIDE DEF P
<1>7. \A i \in first..last : i \in P
  BY <1>5, <1>6, IntervalInduction
<1>8. QED
  BY <1>1, <1>2, <1>7 DEF P, Same

(* The running average of integers is made of integers; that of the        *)
(* opposite values is the opposite one.                                    *)
LEMMA SmoothedOpposite ==
  ASSUME NEW x, NEW y, NEW seed \in Int, NEW first \in Int, NEW last \in Int,
         NEW weight \in Nat \ {0}, NEW period \in Nat \ {0}, Opposed(x, y, (first + 1)..last)
  PROVE  Opposed(Smoothed(x, seed, first, last, weight, period),
                 Smoothed(y, -seed, first, last, weight, period), first..last)
<1>1. PICK a : a = Smoothed(x, seed, first, last, weight, period)
  OBVIOUS
<1>2. PICK b : b = Smoothed(y, -seed, first, last, weight, period)
  OBVIOUS
<1>3. \A i \in first..last : a[i] = SmoothedRule(x, seed, first, weight, period, a, i)
  BY <1>1, SmoothedDefined
<1>4. \A i \in first..last : b[i] = SmoothedRule(y, -seed, first, weight, period, b, i)
  BY <1>2, SmoothedDefined
<1> DEFINE P == {i \in first..last : a[i] \in Int /\ b[i] = -a[i]}
<1>5. first <= last => first \in P
  <2> SUFFICES ASSUME first <= last PROVE a[first] \in Int /\ b[first] = -a[first]
    OBVIOUS
  <2>1. first \in first..last
    OBVIOUS
  <2>2. QED
    BY <1>3, <1>4, <2>1 DEF SmoothedRule
<1>6. ASSUME NEW i \in first..last, i # first, i - 1 \in P PROVE i \in P
  <2>1. PICK c \in Int, e \in Int : /\ c = a[i - 1] /\ b[i - 1] = -c
                                    /\ e = x[i] /\ y[i] = -e
    BY <1>6 DEF Opposed
  <2>2. PICK n \in Int, m \in Int, d \in Nat \ {0} :
          /\ n = weight * e + (period - 1) * c
          /\ m = weight * (-e) + (period - 1) * (-c)
          /\ d = period - 1 + weight
    OBVIOUS
  <2>3. m = -n
    <3>1. weight * (-e) = -(weight * e) /\ (period - 1) * (-c) = -((period - 1) * c)
      OBVIOUS
    <3>2. weight * e \in Int /\ (period - 1) * c \in Int
      OBVIOUS
    <3>3. QED
      BY <2>2, <3>1, <3>2
  <2>4. a[i] = Quotient(n, d) /\ b[i] = Quotient(-n, d)
    <3>1. a[i] = Quotient(weight * x[i] + (period - 1) * a[i - 1], period - 1 + weight)
      BY <1>3, <1>6 DEF SmoothedRule
    <3>2. b[i] = Quotient(weight * y[i] + (period - 1) * b[i - 1], period - 1 + weight)
      BY <1>4, <1>6 DEF SmoothedRule
    <3>3. QED
      BY <2>1, <2>2, <2>3, <3>1, <3>2
  <2>5. Quotient(n, d) \in Int /\ Quotient(-n, d) = -Quotient(n, d)
    BY QuotientFair
  <2>6. QED
    BY <2>4, <2>5
<1> HIDE DEF P
<1>7. \A i \in first..last : i \in P
  BY <1>5, <1>6, IntervalInduction
<1>8. QED
  BY <1>1, <1>2, <1>7 DEF P, Opposed

(* The running average of natural numbers is made of natural numbers.      *)
LEMMA SmoothedNatural ==
  ASSUME NEW x, NEW seed \in Nat, NEW first \in Int, NEW last \in Int,
         NEW weight \in Nat \ {0}, NEW period \in Nat \ {0}, Counts(x, (first + 1)..last)
  PROVE  Counts(Smoothed(x, seed, first, last, weight, period), first..last)
<1>1. PICK a : a = Smoothed(x, seed, first, last, weight, period)
  OBVIOUS
<1>2. \A i \in first..last : a[i] = SmoothedRule(x, seed, first, weight, period, a, i)
  BY <1>1, SmoothedDefined
<1> DEFINE P == {i \in first..last : a[i] \in Nat}
<1>3. first <= last => first \in P
  <2> SUFFICES ASSUME first <= last PROVE a[first] \in Nat
    OBVIOUS
  <2>1. first \in first..last
    OBVIOUS
  <2>2. QED
    BY <1>2, <2>1 DEF SmoothedRule
<1>4. ASSUME NEW i \in first..last, i # first, i - 1 \in P PROVE i \in P
  <2>1. PICK c \in Nat, e \in Nat : c = a[i - 1] /\ e = x[i]
    BY <1>4 DEF Counts
  <2>2. PICK n \in Nat, d \in Nat \ {0} :
          n = weight * e + (period - 1) * c /\ d = period - 1 + weight
    <3>1. weight * e \in Nat /\ (period - 1) * c \in Nat
      OBVIOUS
    <3>2. weight * e + (period - 1) * c \in Nat /\ period - 1 + weight \in Nat \ {0}
      BY <3>1
    <3>3. QED
      BY <3>2
  <2>3. a[i] = Quotient(n, d)
    <3>1. a[i] = Quotient(weight * x[i] + (period - 1) * a[i - 1], period - 1 + weight)
      BY <1>2, <1>4 DEF SmoothedRule
    <3>2. QED
      BY <2>1, <2>2, <3>1
  <2>4. n \in Int /\ n >= 0
    OBVIOUS
  <2>5. Quotient(n, d) \in Nat
    BY <2>4, QuotientFair
  <2>6. QED
    BY <2>3, <2>5
<1> HIDE DEF P
<1>5. \A i \in first..last : i \in P
  BY <1>3, <1>4, IntervalInduction
<1>6. QED
  BY <1>1, <1>5 DEF P, Counts

-----------------------------------------------------------------------------
(* The averages of the channel                                             *)

(* A list of n values.                                                     *)
Listed(v, n) == n \in Nat /\ Len(v) = n /\ v = [i \in 1..n |-> v[i]]

(* A list that continues another.                                          *)
Continues(v, w) == /\ Listed(v, Len(v)) /\ Listed(w, Len(w))
                   /\ Len(v) <= Len(w) /\ Same(v, w, 1..Len(v))

(* What is known of every place of two Options: opposite integers.         *)
Mirror(f, g, S) == \A i \in S : \E e \in Int : f[i] = {e} /\ g[i] = {-e}

(* The values of "a" from a place on, and none before it.                  *)
From(e, a, first, n) ==
  Listed(e, n) /\ \A i \in 1..n : e[i] = IF i < first THEN {} ELSE {a[i]}

(* A moving average: as long as its series, and where it has values.       *)
LEMMA EmaValues ==
  ASSUME NEW v, NEW n, Listed(v, n), NEW period
  PROVE  From(Ema(v, period), Smoothed(v, Seed(v, period), period, n, 2, period), period, n)
<1>1. n \in Nat /\ Len(v) = n /\ DOMAIN v = 1..n
  BY DEF Listed
<1>2. PICK a : a = Smoothed(v, Seed(v, period), period, n, 2, period)
  OBVIOUS
<1>3. PICK e : e = Ema(v, period)
  OBVIOUS
<1>4. e = [i \in 1..n |-> IF i < period THEN {} ELSE {a[i]}]
  BY <1>1, <1>2, <1>3 DEF Ema
<1>5. Len(e) = n /\ DOMAIN e = 1..n
  BY <1>1, <1>4
<1>6. From(e, a, period, n)
  BY <1>1, <1>4, <1>5 DEF From, Listed
<1>7. QED
  BY <1>2, <1>3, <1>6

(* What two lists of values from a place on have in common.                *)
LEMMA FromCommon ==
  ASSUME NEW d, NEW e, NEW a, NEW b, NEW first \in Nat \ {0}, NEW n \in Nat, NEW m \in Nat,
         n <= m, From(d, a, first, n), From(e, b, first, m)
  PROVE  /\ Same(a, b, first..n) => Continues(d, e)
         /\ n = m /\ Opposed(a, b, first..n) => Mirror(d, e, first..n)
<1>1. Listed(d, n) /\ Listed(e, m) /\ Len(d) = n /\ Len(e) = m
  BY DEF From, Listed
<1>2. /\ \A i \in 1..n : d[i] = IF i < first THEN {} ELSE {a[i]}
      /\ \A i \in 1..m : e[i] = IF i < first THEN {} ELSE {b[i]}
  BY DEF From
<1>3. ASSUME Same(a, b, first..n) PROVE Continues(d, e)
  <2>1. ASSUME NEW i \in 1..n PROVE d[i] = e[i]
    <3>1. i \in 1..m /\ (~(i < first) => i \in first..n)
      OBVIOUS
    <3>2. ~(i < first) => a[i] = b[i]
      BY <1>3, <3>1 DEF Same
    <3>3. QED
      BY <1>2, <3>1, <3>2
  <2>2. QED
    BY <1>1, <2>1 DEF Continues, Same
<1>4. ASSUME n = m, Opposed(a, b, first..n) PROVE Mirror(d, e, first..n)
  <2>1. \A i \in first..n : /\ i \in 1..n /\ i \in 1..m /\ ~(i < first)
                            /\ a[i] \in Int /\ b[i] = -a[i]
    BY <1>4 DEF Opposed
  <2>2. \A i \in first..n : d[i] = {a[i]} /\ e[i] = {-a[i]}
    BY <1>2, <2>1
  <2>3. QED
    BY <2>1, <2>2 DEF Mirror
<1>5. QED
  BY <1>3, <1>4

(* The mean of the same values is the same.                                *)
LEMMA SeedAgrees ==
  ASSUME NEW v, NEW w, NEW period \in Nat \ {0}, Same(v, w, 1..period)
  PROVE  Seed(v, period) = Seed(w, period)
<1>1. IsFiniteSet(1..period)
  BY FS_Interval
<1>2. SumFunctionOnSet(v, 1..period) = SumFunctionOnSet(w, 1..period)
  BY <1>1, SumAgrees
<1>3. QED
  BY <1>2 DEF Seed

(* The mean of opposite values is the opposite.                            *)
LEMMA SeedOpposite ==
  ASSUME NEW v, NEW w, NEW period \in Nat \ {0}, Opposed(v, w, 1..period)
  PROVE  \E seed \in Int : Seed(v, period) = seed /\ Seed(w, period) = -seed
<1>1. IsFiniteSet(1..period)
  BY FS_Interval
<1>2. PICK s \in Int : /\ SumFunctionOnSet(v, 1..period) = s
                       /\ SumFunctionOnSet(w, 1..period) = -s
  BY <1>1, SumOpposite
<1>3. Quotient(s, period) \in Int /\ Quotient(-s, period) = -Quotient(s, period)
  BY QuotientFair
<1>4. QED
  BY <1>2, <1>3 DEF Seed

(* The moving average of a longer series begins like that of the shorter.  *)
LEMMA EmaExtends ==
  ASSUME NEW v, NEW w, Continues(v, w), NEW period \in Nat \ {0}
  PROVE  Continues(Ema(v, period), Ema(w, period))
<1>1. PICK n \in Nat : n = Len(v)
  BY DEF Continues, Listed
<1>2. PICK m \in Nat : m = Len(w)
  BY DEF Continues, Listed
<1>3. Listed(v, n) /\ Listed(w, m) /\ n <= m /\ Same(v, w, 1..n)
  BY <1>1, <1>2 DEF Continues
<1>4. PICK a : a = Smoothed(v, Seed(v, period), period, n, 2, period)
  OBVIOUS
<1>5. PICK b : b = Smoothed(w, Seed(w, period), period, m, 2, period)
  OBVIOUS
<1>6. From(Ema(v, period), a, period, n) /\ From(Ema(w, period), b, period, m)
  BY <1>3, <1>4, <1>5, EmaValues
<1>7. CASE n < period
  <2>1. Same(a, b, period..n)
    BY <1>7 DEF Same
  <2>2. QED
    BY <1>3, <1>6, <2>1, FromCommon
<1>8. CASE n >= period
  <2>1. Seed(v, period) = Seed(w, period)
    <3>1. Same(v, w, 1..period)
      BY <1>3, <1>8 DEF Same
    <3>2. QED
      BY <3>1, SeedAgrees
  <2>2. Same(v, w, (period + 1)..n)
    BY <1>3 DEF Same
  <2>3. Same(a, b, period..n)
    BY <1>3, <1>4, <1>5, <2>1, <2>2, SmoothedAgrees
  <2>4. QED
    BY <1>3, <1>6, <2>3, FromCommon
<1>9. QED
  BY <1>7, <1>8

(* The moving average of the opposite series is the opposite one.          *)
LEMMA EmaOpposite ==
  ASSUME NEW v, NEW w, NEW n, Listed(v, n), Listed(w, n), Opposed(v, w, 1..n),
         NEW period \in Nat \ {0}
  PROVE  Mirror(Ema(v, period), Ema(w, period), period..n)
<1>1. n \in Nat
  BY DEF Listed
<1>2. PICK a : a = Smoothed(v, Seed(v, period), period, n, 2, period)
  OBVIOUS
<1>3. PICK b : b = Smoothed(w, Seed(w, period), period, n, 2, period)
  OBVIOUS
<1>4. From(Ema(v, period), a, period, n) /\ From(Ema(w, period), b, period, n)
  BY <1>2, <1>3, EmaValues
<1>5. CASE n < period
  BY <1>1, <1>5 DEF Mirror
<1>6. CASE n >= period
  <2>1. PICK seed \in Int : Seed(v, period) = seed /\ Seed(w, period) = -seed
    <3>1. Opposed(v, w, 1..period)
      BY <1>1, <1>6 DEF Opposed
    <3>2. QED
      BY <3>1, SeedOpposite
  <2>2. Opposed(v, w, (period + 1)..n)
    BY <1>1 DEF Opposed
  <2>3. 2 \in Nat \ {0}
    OBVIOUS
  <2>4. Opposed(a, b, period..n)
    BY <1>1, <1>2, <1>3, <2>1, <2>2, <2>3, SmoothedOpposite
  <2>5. QED
    BY <1>1, <1>4, <2>4, FromCommon
<1>7. QED
  BY <1>1, <1>5, <1>6

(* The signal line: the mean of a period of the MACD line, held back for   *)
(* one place, and averaged from there on.                                  *)
Signal(line) ==
  Smoothed(line, Seed(line, MacdSignal), MacdSignal + 1, Len(line), 2, MacdSignal)

(* The signal of a longer line begins like that of the shorter.            *)
LEMMA SignalExtends ==
  ASSUME NEW v, NEW w, Continues(v, w)
  PROVE  Same(Signal(v), Signal(w), (MacdSignal + 1)..Len(v))
<1>1. PICK n \in Nat : n = Len(v)
  BY DEF Continues, Listed
<1>2. PICK m \in Nat : m = Len(w)
  BY DEF Continues, Listed
<1>3. n <= m /\ Same(v, w, 1..n)
  BY <1>1, <1>2 DEF Continues
<1>4. PICK first \in Nat \ {0} : first = MacdSignal
  BY Periods
<1>5. CASE n < first
  BY <1>1, <1>4, <1>5 DEF Same
<1>6. CASE n >= first
  <2>1. Same(v, w, 1..first)
    BY <1>3, <1>6 DEF Same
  <2>2. Seed(v, first) = Seed(w, first)
    BY <2>1, SeedAgrees
  <2>3. first + 1 \in Int /\ Same(v, w, (first + 1 + 1)..n)
    BY <1>3 DEF Same
  <2>4. Same(Smoothed(v, Seed(v, first), first + 1, n, 2, first),
             Smoothed(w, Seed(v, first), first + 1, m, 2, first), (first + 1)..n)
    BY <1>3, <2>3, SmoothedAgrees
  <2>5. QED
    BY <1>1, <1>2, <1>4, <2>2, <2>4 DEF Signal
<1>7. QED
  BY <1>1, <1>5, <1>6

(* The signal of the opposite line is the opposite one.                    *)
LEMMA SignalOpposite ==
  ASSUME NEW v, NEW w, NEW n, Listed(v, n), Listed(w, n), Opposed(v, w, 1..n)
  PROVE  Opposed(Signal(v), Signal(w), (MacdSignal + 1)..n)
<1>1. n \in Nat /\ Len(v) = n /\ Len(w) = n
  BY DEF Listed
<1>2. PICK first \in Nat \ {0} : first = MacdSignal
  BY Periods
<1>3. CASE n < first
  BY <1>1, <1>2, <1>3 DEF Opposed
<1>4. CASE n >= first
  <2>1. Opposed(v, w, 1..first)
    BY <1>1, <1>4 DEF Opposed
  <2>2. PICK seed \in Int : Seed(v, first) = seed /\ Seed(w, first) = -seed
    BY <2>1, SeedOpposite
  <2>3. PICK from \in Int : from = first + 1
    OBVIOUS
  <2>4. n \in Int /\ 2 \in Nat \ {0} /\ Opposed(v, w, (from + 1)..n)
    BY <1>1, <2>3 DEF Opposed
  <2>5. Opposed(Smoothed(v, seed, from, n, 2, first), Smoothed(w, -seed, from, n, 2, first),
                from..n)
    BY <2>4, SmoothedOpposite
  <2>6. QED
    BY <1>1, <1>2, <2>2, <2>3, <2>5 DEF Signal
<1>5. QED
  BY <1>1, <1>3, <1>4

(* The mean that Wilder's smoothing starts with, and its averages.         *)
WilderSeed(x, from) ==
  Quotient(SumFunctionOnSet(x, from..(from + WilderPeriod - 1)), WilderPeriod)
WilderAverage(x, from, last) ==
  Smoothed(x, WilderSeed(x, from), from + WilderPeriod - 1, last, 1, WilderPeriod)

(* Padded puts the averages at the places of their bars.                   *)
LEMMA WilderValues ==
  ASSUME NEW x, NEW from \in Nat \ {0}, NEW last \in Nat
  PROVE  From(Wilder(x, from, last), WilderAverage(x, from, last), from + WilderPeriod - 1, last)
<1>1. PICK first \in Nat \ {0} : first = from + WilderPeriod - 1
  BY Periods
<1>2. PICK avg : avg = WilderAverage(x, from, last)
  OBVIOUS
<1>3. PICK n \in Nat, m \in Nat :
        /\ n = Greatest(last - first + 1, 0) /\ m = last - n
        /\ \A i \in 1..last : i <= m <=> i < first
        /\ \A i \in 1..last : i > m => first + (i - m) - 1 = i
  <2>1. CASE last - first + 1 >= 0
    BY <2>1 DEF Greatest
  <2>2. CASE last - first + 1 < 0
    BY <2>2 DEF Greatest
  <2>3. QED
    BY <2>1, <2>2
<1>4. PICK values : values = [k \in 1..n |-> {avg[first + k - 1]}]
  OBVIOUS
<1>5. PICK pad : pad = [i \in 1..m |-> {}]
  OBVIOUS
<1>6. Wilder(x, from, last) = pad \o values
  <2>1. Wilder(x, from, last) = Padded(values, last)
    BY <1>1, <1>2, <1>3, <1>4 DEF Wilder, WilderSeed, WilderAverage
  <2>2. Len(values) = n
    BY <1>4
  <2>3. QED
    BY <1>3, <1>5, <2>1, <2>2 DEF Padded
<1>7. PICK w : w = pad \o values
  OBVIOUS
<1>8. Len(w) = last /\ w = [i \in 1..last |-> IF i <= m THEN pad[i] ELSE values[i - m]]
  <2>1. PICK S : S = {{}} \cup {{avg[first + k - 1]} : k \in 1..n}
    OBVIOUS
  <2>2. pad \in [1..m -> S] /\ values \in [1..n -> S]
    BY <1>4, <1>5, <2>1
  <2>3. /\ Len(pad) = m /\ Len(values) = n /\ m \in Nat /\ n \in Nat
        /\ DOMAIN pad = 1..m /\ DOMAIN values = 1..n
    BY <1>4, <1>5
  <2>4. \A f : f \in [1..m -> S] => f \in Seq(S)
    BY <2>3
  <2>5. \A f : f \in [1..n -> S] => f \in Seq(S)
    BY <2>3
  <2>6. pad \in Seq(S) /\ values \in Seq(S)
    BY <2>2, <2>4, <2>5
  <2>7. m + n = last
    BY <1>3
  <2>8. w \in Seq(S) /\ Len(w) = m + n
    <3>1. pad \o values \in Seq(S)
      BY <2>6
    <3>2. Len(pad \o values) = Len(pad) + Len(values)
      BY <2>6
    <3>3. QED
      BY <1>7, <2>3, <3>1, <3>2
  <2>9. \A i \in 1..(m + n) : w[i] = IF i <= m THEN pad[i] ELSE values[i - m]
    BY <1>7, <2>3, <2>6
  <2>10. w = [i \in 1..(m + n) |-> w[i]]
    BY <2>8
  <2>11. QED
    BY <2>7, <2>8, <2>9, <2>10
<1>9. ASSUME NEW i \in 1..last PROVE w[i] = IF i < first THEN {} ELSE {avg[i]}
  <2>1. CASE i < first
    <3>1. i <= m /\ i \in 1..m
      BY <1>3, <2>1
    <3>2. QED
      BY <1>5, <1>8, <2>1, <3>1
  <2>2. CASE ~(i < first)
    <3>1. ~(i <= m) /\ i - m \in 1..n /\ first + (i - m) - 1 = i
      BY <1>3, <2>2
    <3>2. values[i - m] = {avg[i]}
      BY <1>4, <3>1
    <3>3. QED
      BY <1>8, <2>2, <3>1, <3>2
  <2>3. QED
    BY <2>1, <2>2
<1>10. Listed(w, last)
  BY <1>8 DEF Listed
<1>11. From(w, avg, first, last)
  BY <1>9, <1>10 DEF From
<1>12. QED
  BY <1>1, <1>2, <1>6, <1>7, <1>11

(* The averages of a longer series begin like those of the shorter.        *)
LEMMA WilderExtends ==
  ASSUME NEW x, NEW y, NEW from \in Nat \ {0}, NEW last \in Nat, NEW longer \in Nat,
         last <= longer, Same(x, y, from..last)
  PROVE  Continues(Wilder(x, from, last), Wilder(y, from, longer))
<1>1. PICK first \in Nat \ {0} : first = from + WilderPeriod - 1 /\ first >= from
  BY Periods
<1>2. PICK a : a = WilderAverage(x, from, last)
  OBVIOUS
<1>3. PICK b : b = WilderAverage(y, from, longer)
  OBVIOUS
<1>4. /\ From(Wilder(x, from, last), a, first, last)
      /\ From(Wilder(y, from, longer), b, first, longer)
  BY <1>1, <1>2, <1>3, WilderValues
<1>5. Same(a, b, first..last)
  <2>1. CASE last < first
    BY <2>1 DEF Same
  <2>2. CASE last >= first
    <3>1. WilderSeed(x, from) = WilderSeed(y, from)
      <4>1. IsFiniteSet(from..first)
        BY FS_Interval
      <4>2. Same(x, y, from..first)
        BY <2>2 DEF Same
      <4>3. SumFunctionOnSet(x, from..first) = SumFunctionOnSet(y, from..first)
        BY <4>1, <4>2, SumAgrees
      <4>4. QED
        BY <1>1, <4>3 DEF WilderSeed
    <3>2. PICK seed : seed = WilderSeed(x, from)
      OBVIOUS
    <3>3. /\ a = Smoothed(x, seed, first, last, 1, WilderPeriod)
          /\ b = Smoothed(y, seed, first, longer, 1, WilderPeriod)
      BY <1>1, <1>2, <1>3, <3>1, <3>2 DEF WilderAverage
    <3>4. Same(x, y, (first + 1)..last)
      BY <1>1 DEF Same
    <3>5. QED
      BY <3>3, <3>4, SmoothedAgrees
  <2>3. QED
    BY <2>1, <2>2
<1>6. QED
  BY <1>4, <1>5, FromCommon

(* What is known of every place of an Option: a natural number.            *)
Counted(w, S) == \A i \in S : \E a \in Nat : w[i] = {a}

(* The averages of natural numbers are natural numbers.                    *)
LEMMA WilderNatural ==
  ASSUME NEW x, NEW from \in Nat \ {0}, NEW last \in Nat, Counts(x, from..last)
  PROVE  Counted(Wilder(x, from, last), (from + WilderPeriod - 1)..last)
<1>1. PICK first \in Nat \ {0} : first = from + WilderPeriod - 1 /\ first >= from
  BY Periods
<1>2. PICK a : a = WilderAverage(x, from, last)
  OBVIOUS
<1>3. From(Wilder(x, from, last), a, first, last)
  BY <1>1, <1>2, WilderValues
<1>4. Counts(a, first..last)
  <2>1. CASE last < first
    BY <2>1 DEF Counts
  <2>2. CASE last >= first
    <3>1. PICK seed \in Nat : seed = WilderSeed(x, from)
      <4>1. IsFiniteSet(from..first)
        BY FS_Interval
      <4>2. \A j \in from..first : x[j] \in Nat
        BY <2>2 DEF Counts
      <4>3. PICK n \in Nat : n = SumFunctionOnSet(x, from..first)
        BY <4>1, <4>2, SumNatural
      <4>4. WilderPeriod \in Nat \ {0} /\ n \in Int /\ n >= 0
        BY Periods
      <4>5. Quotient(n, WilderPeriod) \in Nat
        BY <4>4, QuotientFair
      <4>6. QED
        BY <1>1, <4>3, <4>5 DEF WilderSeed
    <3>2. a = Smoothed(x, seed, first, last, 1, WilderPeriod)
      BY <1>1, <1>2, <3>1 DEF WilderAverage
    <3>3. Counts(x, (first + 1)..last) /\ 1 \in Nat \ {0} /\ WilderPeriod \in Nat \ {0}
      BY <1>1, Periods DEF Counts
    <3>4. QED
      BY <3>2, <3>3, SmoothedNatural
  <2>3. QED
    BY <2>1, <2>2
<1>5. PICK w : w = Wilder(x, from, last)
  OBVIOUS
<1>6. \A i \in 1..last : w[i] = IF i < first THEN {} ELSE {a[i]}
  BY <1>3, <1>5 DEF From
<1>7. ASSUME NEW i \in first..last PROVE \E c \in Nat : w[i] = {c}
  <2>1. i \in 1..last /\ ~(i < first) /\ a[i] \in Nat
    BY <1>4 DEF Counts
  <2>2. QED
    BY <1>6, <2>1
<1>8. QED
  BY <1>1, <1>5, <1>7 DEF Counted

-----------------------------------------------------------------------------
(* The indicators of a longer history begin like those of the shorter      *)

(* The lengths of a list and of one that continues it.                     *)
LEMMA Lengths ==
  ASSUME NEW b, NEW c, Continues(b, c)
  PROVE  \E n \in Nat, m \in Nat :
           /\ n = Len(b) /\ m = Len(c) /\ n <= m /\ Same(b, c, 1..n)
           /\ DOMAIN b = 1..n /\ DOMAIN c = 1..m
BY DEF Continues, Listed

(* A function over 1..n is a list.                                         *)
LEMMA ListedFunction ==
  ASSUME NEW f, NEW n \in Nat, f = [i \in 1..n |-> f[i]]
  PROVE  Listed(f, n)
<1>1. DOMAIN f = 1..n
  OBVIOUS
<1>2. Len(f) = n
  BY <1>1
<1>3. QED
  BY <1>2 DEF Listed

(* Two lists whose common places agree.                                    *)
LEMMA ContinuesBy ==
  ASSUME NEW f, NEW g, NEW n \in Nat, NEW m \in Nat, n <= m,
         f = [i \in 1..n |-> f[i]], g = [i \in 1..m |-> g[i]], Same(f, g, 1..n)
  PROVE  Continues(f, g)
<1>1. Listed(f, n) /\ Listed(g, m)
  BY ListedFunction
<1>2. QED
  BY <1>1 DEF Continues, Listed

(* The closes.                                                             *)
LEMMA ClosesExtend ==
  ASSUME NEW b, NEW c, Continues(b, c)
  PROVE  Continues(Closes(b), Closes(c))
<1>1. PICK n \in Nat, m \in Nat :
        /\ n = Len(b) /\ m = Len(c) /\ n <= m /\ Same(b, c, 1..n)
        /\ DOMAIN b = 1..n /\ DOMAIN c = 1..m
  BY Lengths
<1>2. PICK f : f = Closes(b)
  OBVIOUS
<1>3. PICK g : g = Closes(c)
  OBVIOUS
<1>4. f = [i \in 1..n |-> Scale * b[i].close] /\ g = [i \in 1..m |-> Scale * c[i].close]
  BY <1>1, <1>2, <1>3 DEF Closes
<1>5. f = [i \in 1..n |-> f[i]] /\ g = [i \in 1..m |-> g[i]]
  BY <1>4
<1>6. Same(f, g, 1..n)
  <2> SUFFICES ASSUME NEW i \in 1..n PROVE f[i] = g[i]
    BY DEF Same
  <2>1. i \in 1..m /\ b[i] = c[i]
    BY <1>1 DEF Same
  <2>2. QED
    BY <1>4, <2>1
<1>7. QED
  BY <1>1, <1>2, <1>3, <1>5, <1>6, ContinuesBy

(* The MACD line and its histogram.                                        *)
MacdLine(days) ==
  [k \in 1..Greatest(Len(days) - (MacdSlow - 1), 0) |->
     The(Ema(Closes(days), MacdFast)[MacdSlow - 1 + k]) -
     The(Ema(Closes(days), MacdSlow)[MacdSlow - 1 + k])]

(* The histogram is the line less its signal.                              *)
LEMMA HistogramIs ==
  ASSUME NEW b
  PROVE  MacdHistogram(b) =
           [i \in DOMAIN b |->
              IF i < MacdSlow + MacdSignal THEN {}
              ELSE {MacdLine(b)[i - (MacdSlow - 1)] - Signal(MacdLine(b))[i - (MacdSlow - 1)]}]
BY DEF MacdHistogram, MacdLine, Signal

(* The places of the MACD line.                                            *)
LEMMA LineValues ==
  ASSUME NEW b, NEW n \in Nat, Len(b) = n
  PROVE  \E size \in Nat :
           /\ size = Greatest(n - (MacdSlow - 1), 0)
           /\ Listed(MacdLine(b), size)
           /\ \A k \in 1..size :
                /\ MacdSlow - 1 + k \in MacdSlow..n
                /\ MacdLine(b)[k] = The(Ema(Closes(b), MacdFast)[MacdSlow - 1 + k]) -
                                    The(Ema(Closes(b), MacdSlow)[MacdSlow - 1 + k])
<1>1. PICK before \in Nat : before = MacdSlow - 1
  BY Periods
<1>2. PICK size \in Nat : /\ size = Greatest(n - before, 0)
                          /\ \A k \in 1..size : before + k \in MacdSlow..n
  <2>1. CASE n - before >= 0
    BY <1>1, <2>1, Periods DEF Greatest
  <2>2. CASE n - before < 0
    BY <1>1, <2>2 DEF Greatest
  <2>3. QED
    BY <2>1, <2>2
<1>3. PICK line : line = MacdLine(b)
  OBVIOUS
<1>4. PICK fast : fast = Ema(Closes(b), MacdFast)
  OBVIOUS
<1>5. PICK slow : slow = Ema(Closes(b), MacdSlow)
  OBVIOUS
<1>6. line = [k \in 1..size |-> The(fast[before + k]) - The(slow[before + k])]
  BY <1>1, <1>2, <1>3, <1>4, <1>5 DEF MacdLine
<1>7. line = [k \in 1..size |-> line[k]]
  BY <1>6
<1>8. Listed(line, size)
  BY <1>7, ListedFunction
<1>9. \A k \in 1..size : line[k] = The(fast[before + k]) - The(slow[before + k])
  BY <1>6
<1>10. QED
  BY <1>1, <1>2, <1>3, <1>4, <1>5, <1>8, <1>9

(* The histogram.                                                          *)
LEMMA MacdExtends ==
  ASSUME NEW b, NEW c, Continues(b, c)
  PROVE  Continues(MacdHistogram(b), MacdHistogram(c))
<1>1. PICK n \in Nat, m \in Nat :
        /\ n = Len(b) /\ m = Len(c) /\ n <= m /\ Same(b, c, 1..n)
        /\ DOMAIN b = 1..n /\ DOMAIN c = 1..m
  BY Lengths
<1>2. PICK before \in Nat, first \in Nat :
        /\ before = MacdSlow - 1 /\ first = MacdSlow + MacdSignal
        /\ first - before = MacdSignal + 1 /\ first > before
  BY Periods
<1>3. Continues(Closes(b), Closes(c)) /\ Len(Closes(b)) = n
  <2>1. Continues(Closes(b), Closes(c))
    BY ClosesExtend
  <2>2. Len([i \in 1..n |-> Scale * b[i].close]) = n
    OBVIOUS
  <2>3. QED
    BY <1>1, <2>1, <2>2 DEF Closes
<1>4. /\ Same(Ema(Closes(b), MacdFast), Ema(Closes(c), MacdFast), 1..n)
      /\ Same(Ema(Closes(b), MacdSlow), Ema(Closes(c), MacdSlow), 1..n)
  <2>1. /\ Continues(Ema(Closes(b), MacdFast), Ema(Closes(c), MacdFast))
        /\ Continues(Ema(Closes(b), MacdSlow), Ema(Closes(c), MacdSlow))
    BY <1>3, Periods, EmaExtends
  <2>2. Listed(Closes(b), n)
    BY <1>3 DEF Continues
  <2>3. Len(Ema(Closes(b), MacdFast)) = n /\ Len(Ema(Closes(b), MacdSlow)) = n
    BY <2>2, EmaValues DEF From, Listed
  <2>4. QED
    BY <2>1, <2>3 DEF Continues
<1>5. Continues(MacdLine(b), MacdLine(c))
  <2>1. PICK size \in Nat :
          /\ size = Greatest(n - (MacdSlow - 1), 0)
          /\ Listed(MacdLine(b), size)
          /\ \A k \in 1..size :
               /\ MacdSlow - 1 + k \in MacdSlow..n
               /\ MacdLine(b)[k] = The(Ema(Closes(b), MacdFast)[MacdSlow - 1 + k]) -
                                   The(Ema(Closes(b), MacdSlow)[MacdSlow - 1 + k])
    BY <1>1, LineValues
  <2>2. PICK more \in Nat :
          /\ more = Greatest(m - (MacdSlow - 1), 0)
          /\ Listed(MacdLine(c), more)
          /\ \A k \in 1..more :
               /\ MacdSlow - 1 + k \in MacdSlow..m
               /\ MacdLine(c)[k] = The(Ema(Closes(c), MacdFast)[MacdSlow - 1 + k]) -
                                   The(Ema(Closes(c), MacdSlow)[MacdSlow - 1 + k])
    BY <1>1, LineValues
  <2>3. size <= more
    BY <1>1, <1>2, <2>1, <2>2 DEF Greatest
  <2>4. ASSUME NEW k \in 1..size PROVE MacdLine(b)[k] = MacdLine(c)[k]
    <3>1. k \in 1..more /\ MacdSlow - 1 + k \in 1..n
      BY <1>2, <2>1, <2>3, Periods
    <3>2. PICK i : i = MacdSlow - 1 + k
      OBVIOUS
    <3>3. /\ Ema(Closes(b), MacdFast)[i] = Ema(Closes(c), MacdFast)[i]
          /\ Ema(Closes(b), MacdSlow)[i] = Ema(Closes(c), MacdSlow)[i]
      BY <1>4, <3>1, <3>2 DEF Same
    <3>4. QED
      BY <2>1, <2>2, <3>1, <3>2, <3>3
  <2>5. QED
    BY <2>1, <2>2, <2>3, <2>4 DEF Continues, Listed, Same
<1>6. PICK line : line = MacdLine(b)
  OBVIOUS
<1>7. PICK longer : longer = MacdLine(c)
  OBVIOUS
<1>8. Same(Signal(line), Signal(longer), (MacdSignal + 1)..Len(line))
  BY <1>5, <1>6, <1>7, SignalExtends
<1>9. PICK signal : signal = Signal(line)
  OBVIOUS
<1>10. PICK beyond : beyond = Signal(longer)
  OBVIOUS
<1>11. ASSUME NEW i \in 1..n, i >= first
       PROVE  line[i - before] = longer[i - before] /\ signal[i - before] = beyond[i - before]
  <2>1. PICK size \in Nat : size = Greatest(n - before, 0) /\ Listed(line, size)
    BY <1>1, <1>2, <1>6, LineValues
  <2>2. i - before \in 1..size /\ i - before \in (MacdSignal + 1)..size
    BY <1>2, <1>11, <2>1, Periods DEF Greatest
  <2>3. Len(line) = size
    BY <2>1 DEF Listed
  <2>4. QED
    BY <1>5, <1>6, <1>7, <1>8, <1>9, <1>10, <2>2, <2>3 DEF Continues, Same
<1>12. PICK f : f = MacdHistogram(b)
  OBVIOUS
<1>13. PICK g : g = MacdHistogram(c)
  OBVIOUS
<1>14. /\ f = [i \in 1..n |-> IF i < first THEN {} ELSE {line[i - before] - signal[i - before]}]
       /\ g = [i \in 1..m |-> IF i < first THEN {} ELSE {longer[i - before] - beyond[i - before]}]
  BY <1>1, <1>2, <1>6, <1>7, <1>9, <1>10, <1>12, <1>13, HistogramIs
<1>15. f = [i \in 1..n |-> f[i]] /\ g = [i \in 1..m |-> g[i]]
  BY <1>14
<1>16. Same(f, g, 1..n)
  <2> SUFFICES ASSUME NEW i \in 1..n PROVE f[i] = g[i]
    BY DEF Same
  <2>1. f[i] = IF i < first THEN {} ELSE {line[i - before] - signal[i - before]}
    BY <1>14
  <2>2. g[i] = IF i < first THEN {} ELSE {longer[i - before] - beyond[i - before]}
    <3>1. i \in 1..m
      BY <1>1
    <3>2. QED
      BY <1>14, <3>1
  <2>3. QED
    BY <1>11, <2>1, <2>2
<1>17. QED
  BY <1>1, <1>12, <1>13, <1>15, <1>16, ContinuesBy

(* The gain and the loss of every place.                                   *)
Gains(days) ==
  [i \in 2..Len(days) |-> Greatest(Scale * (days[i].close - days[i - 1].close), 0)]
Losses(days) ==
  [i \in 2..Len(days) |-> Greatest(-(Scale * (days[i].close - days[i - 1].close)), 0)]

(* The RSI is made of the two averages.                                    *)
LEMMA RsiIs ==
  ASSUME NEW b
  PROVE  Rsi(b) =
           [i \in DOMAIN b |->
              IF Wilder(Gains(b), 2, Len(b))[i] = {} THEN {}
              ELSE {[gain |-> The(Wilder(Gains(b), 2, Len(b))[i]),
                     loss |-> The(Wilder(Losses(b), 2, Len(b))[i])]}]
BY DEF Rsi, Gains, Losses

(* The RSI.                                                                *)
LEMMA RsiExtends ==
  ASSUME NEW b, NEW c, Continues(b, c)
  PROVE  Continues(Rsi(b), Rsi(c))
<1>1. PICK n \in Nat, m \in Nat :
        /\ n = Len(b) /\ m = Len(c) /\ n <= m /\ Same(b, c, 1..n)
        /\ DOMAIN b = 1..n /\ DOMAIN c = 1..m
  BY Lengths
<1>2. Same(Gains(b), Gains(c), 2..n) /\ Same(Losses(b), Losses(c), 2..n)
  <2>1. ASSUME NEW i \in 2..n PROVE Gains(b)[i] = Gains(c)[i] /\ Losses(b)[i] = Losses(c)[i]
    <3>1. i \in 2..m /\ i \in 1..n /\ i - 1 \in 1..n
      BY <1>1
    <3>2. b[i] = c[i] /\ b[i - 1] = c[i - 1]
      BY <1>1, <3>1 DEF Same
    <3>3. QED
      BY <1>1, <3>1, <3>2 DEF Gains, Losses
  <2>2. QED
    BY <2>1 DEF Same
<1>3. PICK gain : gain = Wilder(Gains(b), 2, n)
  OBVIOUS
<1>4. PICK loss : loss = Wilder(Losses(b), 2, n)
  OBVIOUS
<1>5. PICK moreGain : moreGain = Wilder(Gains(c), 2, m)
  OBVIOUS
<1>6. PICK moreLoss : moreLoss = Wilder(Losses(c), 2, m)
  OBVIOUS
<1>7. Same(gain, moreGain, 1..n) /\ Same(loss, moreLoss, 1..n)
  <2>1. 2 \in Nat \ {0}
    OBVIOUS
  <2>2. Continues(gain, moreGain) /\ Continues(loss, moreLoss)
    BY <1>1, <1>2, <1>3, <1>4, <1>5, <1>6, <2>1, WilderExtends
  <2>3. Len(gain) = n /\ Len(loss) = n
    BY <1>3, <1>4, <2>1, WilderValues DEF From, Listed
  <2>4. QED
    BY <2>2, <2>3 DEF Continues
<1>8. PICK f : f = Rsi(b)
  OBVIOUS
<1>9. PICK g : g = Rsi(c)
  OBVIOUS
<1>10. /\ f = [i \in 1..n |-> IF gain[i] = {} THEN {}
                              ELSE {[gain |-> The(gain[i]), loss |-> The(loss[i])]}]
       /\ g = [i \in 1..m |-> IF moreGain[i] = {} THEN {}
                              ELSE {[gain |-> The(moreGain[i]), loss |-> The(moreLoss[i])]}]
  BY <1>1, <1>3, <1>4, <1>5, <1>6, <1>8, <1>9, RsiIs
<1>11. f = [i \in 1..n |-> f[i]] /\ g = [i \in 1..m |-> g[i]]
  BY <1>10
<1>12. Same(f, g, 1..n)
  <2> SUFFICES ASSUME NEW i \in 1..n PROVE f[i] = g[i]
    BY DEF Same
  <2>1. i \in 1..m /\ gain[i] = moreGain[i] /\ loss[i] = moreLoss[i]
    BY <1>1, <1>7 DEF Same
  <2>2. f[i] = IF gain[i] = {} THEN {}
               ELSE {[gain |-> The(gain[i]), loss |-> The(loss[i])]}
    BY <1>10
  <2>3. g[i] = IF moreGain[i] = {} THEN {}
               ELSE {[gain |-> The(moreGain[i]), loss |-> The(moreLoss[i])]}
    BY <1>10, <2>1
  <2>4. QED
    BY <2>1, <2>2, <2>3
<1>13. QED
  BY <1>1, <1>8, <1>9, <1>11, <1>12, ContinuesBy

(* The range of every place.                                               *)
Ranges(days) == [i \in 2..Len(days) |-> TrueRange(days, i)]

(* The ATR of a longer history begins like that of the shorter.            *)
LEMMA AtrExtends ==
  ASSUME NEW b, NEW c, Continues(b, c)
  PROVE  Continues(Atr(b), Atr(c)) /\ Listed(Atr(b), Len(b))
<1>1. PICK n \in Nat, m \in Nat :
        /\ n = Len(b) /\ m = Len(c) /\ n <= m /\ Same(b, c, 1..n)
        /\ DOMAIN b = 1..n /\ DOMAIN c = 1..m
  BY Lengths
<1>2. Same(Ranges(b), Ranges(c), 2..n)
  <2>1. ASSUME NEW i \in 2..n PROVE Ranges(b)[i] = Ranges(c)[i]
    <3>1. i \in 2..m /\ i \in 1..n /\ i - 1 \in 1..n
      BY <1>1
    <3>2. b[i] = c[i] /\ b[i - 1] = c[i - 1]
      BY <1>1, <3>1 DEF Same
    <3>3. QED
      BY <1>1, <3>1, <3>2 DEF Ranges, TrueRange
  <2>2. QED
    BY <2>1 DEF Same
<1>3. 2 \in Nat \ {0}
  OBVIOUS
<1>4. Atr(b) = Wilder(Ranges(b), 2, n) /\ Atr(c) = Wilder(Ranges(c), 2, m)
  BY <1>1 DEF Atr, Ranges
<1>5. Continues(Wilder(Ranges(b), 2, n), Wilder(Ranges(c), 2, m))
  BY <1>1, <1>2, <1>3, WilderExtends
<1>6. Listed(Wilder(Ranges(b), 2, n), n)
  BY <1>3, WilderValues DEF From
<1>7. QED
  BY <1>1, <1>4, <1>5, <1>6

(* DI, as the smoothed share of the range that every bar moves.            *)
DiShare(m, parts, range) ==
  IF range = {0} THEN 0 ELSE Quotient(100 * m, parts * The(range))
DiShares(dm, atr, n) == [i \in (WilderPeriod + 1)..n |-> DiShare(dm[i], 1, atr[i])]
DiSeed(dm, atr) ==
  DiShare(SumFunctionOnSet(dm, 2..(WilderPeriod + 1)), WilderPeriod, atr[WilderPeriod + 1])
DiAverage(dm, atr, n) ==
  Smoothed(DiShares(dm, atr, n), DiSeed(dm, atr), WilderPeriod + 1, n, 1, WilderPeriod)

(* DI is the running average of the shares.                                *)
LEMMA DiIs ==
  ASSUME NEW dm, NEW b, NEW atr
  PROVE  Di(dm, b, atr) =
           [i \in (WilderPeriod + 1)..Len(b) |->
              IF \E j \in (WilderPeriod + 1)..i : atr[j] = {0} THEN {}
              ELSE {DiAverage(dm, atr, Len(b))[i]}]
BY DEF Di, DiAverage, DiSeed, DiShares, DiShare

(* The DI of a longer history begins like that of the shorter.             *)
LEMMA DiExtends ==
  ASSUME NEW b, NEW c, NEW n \in Nat, NEW m \in Nat, n = Len(b), m = Len(c), n <= m,
         NEW dm, NEW more, Same(dm, more, 2..n), NEW atr, NEW longer, Same(atr, longer, 1..n)
  PROVE  Same(Di(dm, b, atr), Di(more, c, longer), (WilderPeriod + 1)..n)
<1>1. PICK first \in Nat \ {0} : first = WilderPeriod + 1 /\ first >= 2
  BY Periods
<1>2. CASE n < first
  BY <1>1, <1>2 DEF Same
<1>3. CASE n >= first
  <2>1. PICK p : p = DiAverage(dm, atr, n)
    OBVIOUS
  <2>2. PICK q : q = DiAverage(more, longer, m)
    OBVIOUS
  <2>3. PICK seed : seed = DiSeed(dm, atr)
    OBVIOUS
  <2>4. seed = DiSeed(more, longer)
    <3>1. IsFiniteSet(2..first)
      BY FS_Interval
    <3>2. Same(dm, more, 2..first)
      BY <1>3 DEF Same
    <3>3. SumFunctionOnSet(dm, 2..first) = SumFunctionOnSet(more, 2..first)
      BY <3>1, <3>2, SumAgrees
    <3>4. atr[first] = longer[first]
      BY <1>3 DEF Same
    <3>5. QED
      BY <1>1, <2>3, <3>3, <3>4 DEF DiSeed
  <2>5. Same(DiShares(dm, atr, n), DiShares(more, longer, m), (first + 1)..n)
    <3>1. ASSUME NEW i \in (first + 1)..n
          PROVE  DiShares(dm, atr, n)[i] = DiShares(more, longer, m)[i]
      <4>1. i \in first..n /\ i \in first..m
        OBVIOUS
      <4>2. dm[i] = more[i] /\ atr[i] = longer[i]
        BY <1>1 DEF Same
      <4>3. DiShares(dm, atr, n)[i] = DiShare(dm[i], 1, atr[i])
        BY <1>1, <4>1 DEF DiShares
      <4>4. DiShares(more, longer, m)[i] = DiShare(more[i], 1, longer[i])
        BY <1>1, <4>1 DEF DiShares
      <4>5. QED
        BY <4>2, <4>3, <4>4
    <3>2. QED
      BY <3>1 DEF Same
  <2>6. /\ p = Smoothed(DiShares(dm, atr, n), seed, first, n, 1, WilderPeriod)
        /\ q = Smoothed(DiShares(more, longer, m), seed, first, m, 1, WilderPeriod)
    BY <1>1, <2>1, <2>2, <2>3, <2>4 DEF DiAverage
  <2>7. Same(p, q, first..n)
    BY <2>5, <2>6, SmoothedAgrees
  <2>8. PICK f : f = Di(dm, b, atr)
    OBVIOUS
  <2>9. PICK g : g = Di(more, c, longer)
    OBVIOUS
  <2>10. /\ f = [i \in first..n |-> IF \E j \in first..i : atr[j] = {0} THEN {} ELSE {p[i]}]
         /\ g = [i \in first..m |-> IF \E j \in first..i : longer[j] = {0} THEN {} ELSE {q[i]}]
    BY <1>1, <2>1, <2>2, <2>8, <2>9, DiIs
  <2>11. ASSUME NEW i \in first..n PROVE f[i] = g[i]
    <3>1. i \in first..m /\ p[i] = q[i]
      BY <2>7 DEF Same
    <3>2. \A j \in first..i : atr[j] = longer[j]
      BY DEF Same
    <3>3. QED
      BY <2>10, <3>1, <3>2
  <2>12. QED
    BY <1>1, <2>8, <2>9, <2>11 DEF Same
<1>4. QED
  BY <1>2, <1>3

(* DX, of the two DI.                                                      *)
Dx(plus, minus) ==
  IF plus = {} \/ The(plus) + The(minus) = 0 THEN 0
  ELSE LET gap == The(plus) - The(minus)
       IN Quotient(100 * Greatest(gap, -gap), The(plus) + The(minus))
PlusMoves(days)  == [i \in 2..Len(days) |-> PlusDm(days, i)]
MinusMoves(days) == [i \in 2..Len(days) |-> MinusDm(days, i)]
PlusDi(days)  == Di(PlusMoves(days), days, Atr(days))
MinusDi(days) == Di(MinusMoves(days), days, Atr(days))
Dxs(days) == [i \in (WilderPeriod + 1)..Len(days) |-> Dx(PlusDi(days)[i], MinusDi(days)[i])]

(* ADX is the smoothed DX.                                                 *)
LEMMA AdxIs ==
  ASSUME NEW b
  PROVE  Adx(b) = Wilder(Dxs(b), WilderPeriod + 1, Len(b))
BY DEF Adx, Dxs, Dx, PlusDi, MinusDi, PlusMoves, MinusMoves

(* The ADX.                                                                *)
LEMMA AdxExtends ==
  ASSUME NEW b, NEW c, Continues(b, c)
  PROVE  Continues(Adx(b), Adx(c))
<1>1. PICK n \in Nat, m \in Nat :
        /\ n = Len(b) /\ m = Len(c) /\ n <= m /\ Same(b, c, 1..n)
        /\ DOMAIN b = 1..n /\ DOMAIN c = 1..m
  BY Lengths
<1>2. PICK first \in Nat \ {0} : first = WilderPeriod + 1
  BY Periods
<1>3. Same(PlusMoves(b), PlusMoves(c), 2..n) /\ Same(MinusMoves(b), MinusMoves(c), 2..n)
  <2>1. ASSUME NEW i \in 2..n
        PROVE  PlusMoves(b)[i] = PlusMoves(c)[i] /\ MinusMoves(b)[i] = MinusMoves(c)[i]
    <3>1. i \in 2..m /\ i \in 1..n /\ i - 1 \in 1..n
      BY <1>1
    <3>2. b[i] = c[i] /\ b[i - 1] = c[i - 1]
      BY <1>1, <3>1 DEF Same
    <3>3. PlusDm(b, i) = PlusDm(c, i) /\ MinusDm(b, i) = MinusDm(c, i)
      BY <3>2 DEF PlusDm, MinusDm, UpMove, DownMove
    <3>4. QED
      BY <1>1, <3>1, <3>3 DEF PlusMoves, MinusMoves
  <2>2. QED
    BY <2>1 DEF Same
<1>4. Same(Atr(b), Atr(c), 1..n)
  BY <1>1, AtrExtends DEF Continues, Listed
<1>5. Same(PlusDi(b), PlusDi(c), first..n) /\ Same(MinusDi(b), MinusDi(c), first..n)
  BY <1>1, <1>2, <1>3, <1>4, DiExtends DEF PlusDi, MinusDi
<1>6. Same(Dxs(b), Dxs(c), first..n)
  <2>1. ASSUME NEW i \in first..n PROVE Dxs(b)[i] = Dxs(c)[i]
    <3>1. i \in first..m /\ PlusDi(b)[i] = PlusDi(c)[i] /\ MinusDi(b)[i] = MinusDi(c)[i]
      BY <1>1, <1>5 DEF Same
    <3>2. /\ Dxs(b)[i] = Dx(PlusDi(b)[i], MinusDi(b)[i])
          /\ Dxs(c)[i] = Dx(PlusDi(c)[i], MinusDi(c)[i])
      BY <1>1, <1>2, <3>1 DEF Dxs
    <3>3. QED
      BY <3>1, <3>2
  <2>2. QED
    BY <2>1 DEF Same
<1>7. Continues(Wilder(Dxs(b), first, n), Wilder(Dxs(c), first, m))
  BY <1>1, <1>6, WilderExtends
<1>8. QED
  BY <1>1, <1>2, <1>7, AdxIs

(* The sum and the sum of squares of a window of closes.                   *)
WindowOf(i) == (i - BandPeriod + 1)..i
CloseSum(days, i) == SumFunctionOnSet([j \in DOMAIN days |-> days[j].close], WindowOf(i))
SquareSum(days, i) ==
  SumFunctionOnSet([j \in DOMAIN days |-> days[j].close * days[j].close], WindowOf(i))

(* The bands are made of the two sums.                                     *)
LEMMA BollingerIs ==
  ASSUME NEW b
  PROVE  Bollinger(b) =
           [i \in DOMAIN b |->
              IF i < BandPeriod THEN {}
              ELSE {[sum    |-> CloseSum(b, i),
                     square |-> BandPeriod * SquareSum(b, i) - CloseSum(b, i) * CloseSum(b, i)]}]
BY DEF Bollinger, CloseSum, SquareSum, WindowOf

(* The bands.                                                              *)
LEMMA BollingerExtends ==
  ASSUME NEW b, NEW c, Continues(b, c)
  PROVE  Continues(Bollinger(b), Bollinger(c))
<1>1. PICK n \in Nat, m \in Nat :
        /\ n = Len(b) /\ m = Len(c) /\ n <= m /\ Same(b, c, 1..n)
        /\ DOMAIN b = 1..n /\ DOMAIN c = 1..m
  BY Lengths
<1>2. ASSUME NEW i \in 1..n, i >= BandPeriod
      PROVE  CloseSum(b, i) = CloseSum(c, i) /\ SquareSum(b, i) = SquareSum(c, i)
  <2>1. IsFiniteSet(WindowOf(i)) /\ \A j \in WindowOf(i) : j \in 1..n /\ j \in 1..m
    <3>1. i - BandPeriod + 1 \in Int /\ i \in Int /\ i - BandPeriod + 1 >= 1
      BY <1>2, Periods
    <3>2. IsFiniteSet((i - BandPeriod + 1)..i)
      BY <3>1, FS_Interval
    <3>3. QED
      BY <1>1, <3>1, <3>2 DEF WindowOf
  <2>2. PICK f : f = [j \in DOMAIN b |-> b[j].close]
    OBVIOUS
  <2>3. PICK g : g = [j \in DOMAIN c |-> c[j].close]
    OBVIOUS
  <2>4. PICK f2 : f2 = [j \in DOMAIN b |-> b[j].close * b[j].close]
    OBVIOUS
  <2>5. PICK g2 : g2 = [j \in DOMAIN c |-> c[j].close * c[j].close]
    OBVIOUS
  <2>6. Same(f, g, WindowOf(i)) /\ Same(f2, g2, WindowOf(i))
    <3>1. ASSUME NEW j \in WindowOf(i) PROVE f[j] = g[j] /\ f2[j] = g2[j]
      <4>1. j \in DOMAIN b /\ j \in DOMAIN c /\ b[j] = c[j]
        BY <1>1, <2>1 DEF Same
      <4>2. QED
        BY <2>2, <2>3, <2>4, <2>5, <4>1
    <3>2. QED
      BY <3>1 DEF Same
  <2>7. /\ SumFunctionOnSet(f, WindowOf(i)) = SumFunctionOnSet(g, WindowOf(i))
        /\ SumFunctionOnSet(f2, WindowOf(i)) = SumFunctionOnSet(g2, WindowOf(i))
    BY <2>1, <2>6, SumAgrees
  <2>8. QED
    BY <2>2, <2>3, <2>4, <2>5, <2>7 DEF CloseSum, SquareSum
<1>3. PICK f : f = Bollinger(b)
  OBVIOUS
<1>4. PICK g : g = Bollinger(c)
  OBVIOUS
<1>5. /\ f = [i \in 1..n |->
                IF i < BandPeriod THEN {}
                ELSE {[sum    |-> CloseSum(b, i),
                       square |-> BandPeriod * SquareSum(b, i) - CloseSum(b, i) * CloseSum(b, i)]}]
      /\ g = [i \in 1..m |->
                IF i < BandPeriod THEN {}
                ELSE {[sum    |-> CloseSum(c, i),
                       square |-> BandPeriod * SquareSum(c, i) - CloseSum(c, i) * CloseSum(c, i)]}]
  BY <1>1, <1>3, <1>4, BollingerIs
<1>6. f = [i \in 1..n |-> f[i]] /\ g = [i \in 1..m |-> g[i]]
  BY <1>5
<1>7. Same(f, g, 1..n)
  <2> SUFFICES ASSUME NEW i \in 1..n PROVE f[i] = g[i]
    BY DEF Same
  <2>1. i \in 1..m /\ (~(i < BandPeriod) => i >= BandPeriod)
    BY <1>1, Periods
  <2>2. f[i] = IF i < BandPeriod THEN {}
               ELSE {[sum    |-> CloseSum(b, i),
                      square |-> BandPeriod * SquareSum(b, i) - CloseSum(b, i) * CloseSum(b, i)]}
    BY <1>5
  <2>3. g[i] = IF i < BandPeriod THEN {}
               ELSE {[sum    |-> CloseSum(c, i),
                      square |-> BandPeriod * SquareSum(c, i) - CloseSum(c, i) * CloseSum(c, i)]}
    BY <1>5, <2>1
  <2>4. QED
    BY <1>2, <2>1, <2>2, <2>3
<1>8. QED
  BY <1>1, <1>3, <1>4, <1>6, <1>7, ContinuesBy

(* Every indicator of a longer history begins like that of the shorter.    *)
LEMMA SeriesExtend ==
  ASSUME NEW b, NEW c, Continues(b, c)
  PROVE  \A name \in DOMAIN Series(b) : Continues(Series(b)[name], Series(c)[name])
<1>1. /\ Continues(Ema(Closes(b), EmaFast), Ema(Closes(c), EmaFast))
      /\ Continues(Ema(Closes(b), EmaSlow), Ema(Closes(c), EmaSlow))
  BY ClosesExtend, EmaExtends, Periods
<1>2. Continues(MacdHistogram(b), MacdHistogram(c)) /\ Continues(Rsi(b), Rsi(c))
  BY MacdExtends, RsiExtends
<1>3. Continues(Adx(b), Adx(c)) /\ Continues(Atr(b), Atr(c))
  BY AdxExtends, AtrExtends
<1>4. Continues(Bollinger(b), Bollinger(c))
  BY BollingerExtends
<1>5. DOMAIN Series(b) = {"emaFast", "emaSlow", "macd", "rsi", "adx", "atr", "bollinger"}
  BY DEF Series
<1>6. QED
  BY <1>1, <1>2, <1>3, <1>4, <1>5 DEF Series

(* A list begins with a list that it continues.                            *)
LEMMA ContinuesPrefix ==
  ASSUME NEW v, NEW w, Continues(v, w)
  PROVE  IsPrefix(v, w)
<1>1. PICK n \in Nat, m \in Nat :
        /\ n = Len(v) /\ m = Len(w) /\ n <= m /\ Same(v, w, 1..n)
        /\ DOMAIN v = 1..n /\ DOMAIN w = 1..m
  BY Lengths
<1>2. SubSeq(v, 1, n) = [i \in 1..n |-> v[i]] /\ SubSeq(w, 1, n) = [i \in 1..n |-> w[i]]
  OBVIOUS
<1>3. SubSeq(v, 1, n) = SubSeq(w, 1, n)
  BY <1>1, <1>2 DEF Same
<1>4. QED
  BY <1>1, <1>3 DEF IsPrefix

(* The weeks of a longer history begin like those of the shorter.          *)
LEMMA BarsExtend ==
  ASSUME NEW b, NEW c, Continues(b, c), NEW timeframe
  PROVE  Continues(BarsOf(b, timeframe), BarsOf(c, timeframe))
<1>1. PICK n \in Nat, m \in Nat :
        /\ n = Len(b) /\ m = Len(c) /\ n <= m /\ Same(b, c, 1..n)
        /\ DOMAIN b = 1..n /\ DOMAIN c = 1..m
  BY Lengths
<1>2. CASE timeframe = "D1"
  BY <1>2 DEF BarsOf
<1>3. CASE timeframe # "D1"
  <2>1. PICK f : f = BarsOf(b, timeframe)
    OBVIOUS
  <2>2. PICK g : g = BarsOf(c, timeframe)
    OBVIOUS
  <2>3. DaysPerWeek \in Nat \ {0}
    BY MarketAssumption
  <2>4. PICK k \in Nat, l \in Nat :
          /\ k = n \div DaysPerWeek /\ l = m \div DaysPerWeek /\ k <= l
          /\ \A i \in 1..k : 0 <= (i - 1) * DaysPerWeek /\ i * DaysPerWeek <= n
    <3>1. PICK k \in Nat : k = n \div DaysPerWeek /\ k * DaysPerWeek <= n
      BY <2>3
    <3>2. PICK l \in Nat : l = m \div DaysPerWeek
      BY <2>3
    <3>3. k <= l
      BY <1>1, <2>3, <3>1, <3>2
    <3>4. ASSUME NEW i \in 1..k PROVE 0 <= (i - 1) * DaysPerWeek /\ i * DaysPerWeek <= n
      <4>1. i * DaysPerWeek <= k * DaysPerWeek
        BY <2>3
      <4>2. i * DaysPerWeek \in Int /\ k * DaysPerWeek \in Int /\ 0 <= (i - 1) * DaysPerWeek
        BY <2>3
      <4>3. QED
        BY <3>1, <4>1, <4>2
    <3>5. QED
      BY <3>1, <3>2, <3>3, <3>4
  <2>5. f = [i \in 1..k |-> Week(b, i)] /\ g = [i \in 1..l |-> Week(c, i)]
    BY <1>1, <1>3, <2>1, <2>2, <2>4 DEF BarsOf
  <2>6. ASSUME NEW i \in 1..k PROVE Week(b, i) = Week(c, i)
    <3>1. PICK from \in Int, to \in Int :
            /\ from = (i - 1) * DaysPerWeek + 1 /\ to = i * DaysPerWeek
            /\ from >= 1 /\ to <= n
      BY <2>3, <2>4
    <3>2. SubSeq(b, from, to) = SubSeq(c, from, to)
      <4>1. /\ SubSeq(b, from, to) = [j \in 1..(to - from + 1) |-> b[from + j - 1]]
            /\ SubSeq(c, from, to) = [j \in 1..(to - from + 1) |-> c[from + j - 1]]
        OBVIOUS
      <4>2. \A j \in 1..(to - from + 1) : b[from + j - 1] = c[from + j - 1]
        BY <1>1, <3>1 DEF Same
      <4>3. QED
        BY <4>1, <4>2
    <3>3. QED
      BY <3>1, <3>2 DEF Week
  <2>7. f = [i \in 1..k |-> f[i]] /\ g = [i \in 1..l |-> g[i]]
    BY <2>5
  <2>8. Same(f, g, 1..k)
    BY <2>4, <2>5, <2>6 DEF Same
  <2>9. QED
    BY <2>1, <2>2, <2>4, <2>7, <2>8, ContinuesBy
<1>4. QED
  BY <1>2, <1>3

-----------------------------------------------------------------------------
(* Nothing is repainted                                                    *)

Bars == [close : Int, high : Int, low : Int]

(* What was read from the first days of the market.                        *)
ReadFrom(answer, days) ==
  \A i \in DOMAIN answer.readings :
    LET r == answer.readings[i] IN
    /\ r.timeframe \in {"D1", "W1"}
    /\ r.technical = Reading(BarsOf(days, r.timeframe))
    /\ ValidBars(BarsOf(days, r.timeframe))

(* The last answer was read from the market as it was at some time.        *)
ReadFromThePast ==
  /\ bars \in Seq(Bars) /\ bars # << >>
  /\ \A answer \in response : \E days \in Seq(Bars) : Continues(days, bars) /\ ReadFrom(answer, days)
  /\ \A answer, other \in response : answer = other

(* A sequence continues itself, and an appended one continues it.          *)
LEMMA AppendContinues ==
  ASSUME NEW R, NEW s \in Seq(R), NEW x
  PROVE  Continues(s, s) /\ Continues(s, Append(s, x))
<1>1. PICK n \in Nat : n = Len(s) /\ s = [i \in 1..n |-> s[i]] /\ DOMAIN s = 1..n
  OBVIOUS
<1>2. PICK t : t = Append(s, x)
  OBVIOUS
<1>3. Len(t) = n + 1 /\ t = [i \in 1..(n + 1) |-> t[i]]
  BY <1>1, <1>2
<1>4. \A i \in 1..n : t[i] = s[i]
  BY <1>1, <1>2
<1>5. QED
  BY <1>1, <1>2, <1>3, <1>4 DEF Continues, Listed, Same

(* What continues a continuation continues the beginning.                  *)
LEMMA ContinuesFurther ==
  ASSUME NEW u, NEW v, NEW w, Continues(u, v), Continues(v, w)
  PROVE  Continues(u, w)
<1>1. Len(u) \in Nat /\ Len(v) \in Nat /\ Len(w) \in Nat /\ Len(u) <= Len(v) /\ Len(v) <= Len(w)
  BY DEF Continues, Listed
<1>2. \A i \in 1..Len(u) : u[i] = v[i] /\ v[i] = w[i]
  BY <1>1 DEF Continues, Same
<1>3. QED
  BY <1>1, <1>2 DEF Continues, Same

(* The timeframes that a valid request is served for: one or two,          *)
(* different ones.                                                         *)
LEMMA Resolved ==
  ASSUME NEW timeframes \in Requests, ValidNativeRequest(timeframes)
  PROVE  \E n \in {1, 2} :
           /\ DOMAIN ResolveTimeframes(timeframes) = 1..n
           /\ \A i \in 1..n : ResolveTimeframes(timeframes)[i] \in {"D1", "W1"}
<1>1. timeframes \in Seq(STRING)
  BY MarketAssumption
<1>2. \A i \in DOMAIN timeframes : timeframes[i] \in {"D1", "W1"}
  BY <1>1 DEF ValidNativeRequest, ToSet, Supported
<1>3. CASE timeframes = << >>
  BY <1>3 DEF ResolveTimeframes, Supported
<1>4. CASE timeframes # << >>
  <2>1. PICK P : P = {i \in DOMAIN timeframes : timeframes[i] \in ToSet(Supported)}
    OBVIOUS
  <2>2. PICK kept : kept = Only(timeframes, P)
    OBVIOUS
  <2>3. P = DOMAIN timeframes /\ P \in SUBSET DOMAIN timeframes
    BY <1>2, <2>1 DEF ToSet, Supported
  <2>4. PICK n \in Nat : /\ n = Len(kept) /\ DOMAIN kept = 1..n /\ n # 0
                         /\ \A k \in 1..n : kept[k] \in {"D1", "W1"}
    <3>1. /\ kept \in Seq(STRING)
          /\ \A k \in DOMAIN kept : \E i \in P : kept[k] = timeframes[i]
          /\ \A i \in P : \E k \in DOMAIN kept : kept[k] = timeframes[i]
      BY <1>1, <2>2, <2>3, OnlyThese
    <3>2. 1 \in P
      BY <1>1, <1>4, <2>3
    <3>3. Len(kept) \in Nat /\ DOMAIN kept = 1..Len(kept)
      BY <3>1
    <3>4. Len(kept) # 0
      BY <3>1, <3>2, <3>3
    <3>5. \A k \in DOMAIN kept : kept[k] \in {"D1", "W1"}
      BY <1>2, <2>3, <3>1
    <3>6. QED
      BY <3>3, <3>4, <3>5
  <2>5. \A k, l \in 1..n : k < l => kept[k] # kept[l]
    <3>1. \A k, l \in DOMAIN kept :
            k < l => \E i, j \in P : i < j /\ kept[k] = timeframes[i] /\ kept[l] = timeframes[j]
      BY <1>1, <2>2, <2>3, OnlyOrdered
    <3>2. \A i, j \in P : timeframes[i] = timeframes[j] => i = j
      BY <2>3 DEF ValidNativeRequest
    <3>3. P \subseteq Int
      BY <1>1, <2>3
    <3>4. QED
      BY <2>4, <3>1, <3>2, <3>3
  <2>6. n < 3
    <3>1. SUFFICES ASSUME n >= 3 PROVE FALSE
      BY <2>4
    <3>2. 1 \in 1..n /\ 2 \in 1..n /\ 3 \in 1..n
      BY <3>1
    <3>3. kept[1] # kept[2] /\ kept[1] # kept[3] /\ kept[2] # kept[3]
      BY <2>5, <3>2
    <3>4. QED
      BY <2>4, <3>2, <3>3
  <2>7. n \in {1, 2}
    BY <2>4, <2>6
  <2>8. ResolveTimeframes(timeframes) = kept
    BY <1>4, <2>1, <2>2 DEF ResolveTimeframes
  <2>9. QED
    BY <2>4, <2>7, <2>8
<1>5. QED
  BY <1>3, <1>4

(* A day is a bar.                                                         *)
LEMMA DayIsBar ==
  ASSUME bars \in Seq(Bars), bars # << >>, NEW move \in Moves
  PROVE  DayAfter(bars[Len(bars)].close, move) \in Bars
<1>1. bars[Len(bars)] \in Bars
  OBVIOUS
<1>2. PICK c \in Int : c = bars[Len(bars)].close
  BY <1>1 DEF Bars
<1>3. move.close \in Int /\ move.above \in Nat /\ move.below \in Nat
  BY MarketAssumption
<1>4. Greatest(c, c + move.close) \in Int /\ Least(c, c + move.close) \in Int
  BY <1>2, <1>3 DEF Greatest, Least
<1>5. PICK h, l \in Int : /\ h = Greatest(c, c + move.close)
                          /\ l = Least(c, c + move.close)
  BY <1>4
<1>6. DayAfter(c, move) = [close |-> c + move.close, high |-> h + move.above,
                           low |-> l - move.below]
  BY <1>5 DEF DayAfter
<1>7. c + move.close \in Int /\ h + move.above \in Int /\ l - move.below \in Int
  BY <1>3, <1>5
<1>8. DayAfter(c, move) \in Bars
  BY <1>6, <1>7 DEF Bars
<1>9. QED
  BY <1>2, <1>8

(* What an answer says was read from the market as it is.                  *)
LEMMA ServedFrom ==
  ASSUME NEW timeframes \in Requests, ValidNativeRequest(timeframes),
         Readable(ResolveTimeframes(timeframes))
  PROVE  ReadFrom(Served(ResolveTimeframes(timeframes)), bars)
<1>1. PICK asked : asked = ResolveTimeframes(timeframes)
  OBVIOUS
<1>2. PICK n \in {1, 2} : DOMAIN asked = 1..n /\ \A i \in 1..n : asked[i] \in {"D1", "W1"}
  BY <1>1, Resolved
<1>3. PICK answer : answer = Served(asked)
  OBVIOUS
<1>4. answer.readings = [i \in DOMAIN asked |->
        [timeframe |-> asked[i], technical |-> Reading(BarsOf(bars, asked[i]))]]
  BY <1>3 DEF Served
<1>5. ASSUME NEW i \in DOMAIN answer.readings
      PROVE  /\ answer.readings[i].timeframe \in {"D1", "W1"}
             /\ answer.readings[i].technical = Reading(BarsOf(bars, answer.readings[i].timeframe))
             /\ ValidBars(BarsOf(bars, answer.readings[i].timeframe))
  <2>1. i \in DOMAIN asked /\ asked[i] \in {"D1", "W1"} /\ ValidBars(BarsOf(bars, asked[i]))
    BY <1>1, <1>2, <1>4 DEF Readable
  <2>2. answer.readings[i] = [timeframe |-> asked[i], technical |-> Reading(BarsOf(bars, asked[i]))]
    BY <1>4, <2>1
  <2>3. QED
    BY <2>1, <2>2
<1>6. QED
  BY <1>1, <1>3, <1>5 DEF ReadFrom

(* A failed request has read nothing.                                      *)
LEMMA FailedFrom ==
  ASSUME NEW code PROVE ReadFrom(Failed(code), bars)
BY DEF ReadFrom, Failed

(* The market and the answer, at every step.                               *)
LEMMA ReadFromThePastKept ==
  ReadFromThePast /\ [Next]_vars => ReadFromThePast'
<1> SUFFICES ASSUME ReadFromThePast, [Next]_vars PROVE ReadFromThePast'
  OBVIOUS
<1>1. /\ bars \in Seq(Bars) /\ bars # << >>
      /\ \A answer \in response :
           \E days \in Seq(Bars) : Continues(days, bars) /\ ReadFrom(answer, days)
      /\ \A answer, other \in response : answer = other
  BY DEF ReadFromThePast
<1>2. ASSUME NEW move \in Moves, Bar(move) PROVE ReadFromThePast'
  <2>1. PICK day \in Bars : bars' = Append(bars, day)
    BY <1>1, <1>2, DayIsBar DEF Bar
  <2>2. response' = response
    BY <1>2 DEF Bar
  <2>3. bars' \in Seq(Bars) /\ bars' # << >>
    BY <1>1, <2>1
  <2>4. Continues(bars, bars')
    BY <1>1, <2>1, AppendContinues
  <2>5. ASSUME NEW answer \in response
        PROVE  \E days \in Seq(Bars) : Continues(days, bars') /\ ReadFrom(answer, days)
    <3>1. PICK days \in Seq(Bars) : Continues(days, bars) /\ ReadFrom(answer, days)
      BY <1>1
    <3>2. Continues(days, bars')
      BY <2>4, <3>1, ContinuesFurther
    <3>3. QED
      BY <3>1, <3>2
  <2>6. QED
    BY <1>1, <2>2, <2>3, <2>5 DEF ReadFromThePast
<1>3. ASSUME NEW timeframes \in Requests, Request(timeframes) PROVE ReadFromThePast'
  <2>1. PICK answer : response' = {answer} /\ ReadFrom(answer, bars)
    <3>1. PICK answer :
            /\ response' = {answer}
            /\ answer = CASE ~ValidNativeRequest(timeframes) -> Failed(400)
                          [] ValidNativeRequest(timeframes)
                             /\ ~Readable(ResolveTimeframes(timeframes)) -> Failed(500)
                          [] OTHER -> Served(ResolveTimeframes(timeframes))
      BY <1>3 DEF Request
    <3>2. CASE ~ValidNativeRequest(timeframes)
      BY <3>1, <3>2, FailedFrom
    <3>3. CASE ValidNativeRequest(timeframes) /\ ~Readable(ResolveTimeframes(timeframes))
      BY <3>1, <3>3, FailedFrom
    <3>4. CASE ValidNativeRequest(timeframes) /\ Readable(ResolveTimeframes(timeframes))
      BY <3>1, <3>4, ServedFrom
    <3>5. QED
      BY <3>2, <3>3, <3>4
  <2>2. bars' = bars
    BY <1>3 DEF Request
  <2>3. Continues(bars, bars)
    BY <1>1, AppendContinues
  <2>4. QED
    BY <1>1, <2>1, <2>2, <2>3 DEF ReadFromThePast
<1>4. CASE UNCHANGED vars
  BY <1>1, <1>4 DEF ReadFromThePast, vars
<1>5. QED
  BY <1>2, <1>3, <1>4 DEF Next

(* Whatever was answered was read from the market as it was.               *)
LEMMA ReadFromThePastAlways == Spec => []ReadFromThePast
<1>1. Init => ReadFromThePast
  BY MarketAssumption DEF Init, ReadFromThePast, Bars
<1>2. QED
  BY <1>1, ReadFromThePastKept, PTL DEF Spec

(* Readings of the same timeframe from a history and a longer one.         *)
LEMMA ReadingsContinue ==
  ASSUME NEW old, NEW new, NEW days, NEW later,
         ReadFrom(old, days), ReadFrom(new, later), Continues(days, later),
         NEW i \in DOMAIN old.readings, NEW j \in DOMAIN new.readings,
         old.readings[i].timeframe = new.readings[j].timeframe,
         NEW name \in DOMAIN old.readings[i].technical.series
  PROVE  IsPrefix(old.readings[i].technical.series[name],
                  new.readings[j].technical.series[name])
<1>1. PICK timeframe : timeframe = old.readings[i].timeframe
  OBVIOUS
<1>2. PICK b : b = BarsOf(days, timeframe)
  OBVIOUS
<1>3. PICK c : c = BarsOf(later, timeframe)
  OBVIOUS
<1>4. old.readings[i].technical = Reading(b) /\ new.readings[j].technical = Reading(c)
  BY <1>1, <1>2, <1>3 DEF ReadFrom
<1>5. Reading(b).series = Series(b) /\ Reading(c).series = Series(c)
  BY DEF Reading
<1>6. Continues(b, c)
  BY <1>2, <1>3, BarsExtend
<1>7. Continues(Series(b)[name], Series(c)[name])
  BY <1>4, <1>5, <1>6, SeriesExtend
<1>8. QED
  BY <1>4, <1>5, <1>7, ContinuesPrefix

(* What an earlier answer read at a bar, every later answer reads at that  *)
(* bar too, in every indicator of technical.rs: no seed, no warm-up and no *)
(* alignment depends on the length of the history.                         *)
THEOREM NothingIsRepainted == Spec => NoRepaint
<1> DEFINE Kept ==
             \A old \in response, new \in response' :
               \A i \in DOMAIN old.readings, j \in DOMAIN new.readings :
                 old.readings[i].timeframe = new.readings[j].timeframe =>
                   \A name \in DOMAIN old.readings[i].technical.series :
                     IsPrefix(old.readings[i].technical.series[name],
                              new.readings[j].technical.series[name])
<1>1. ReadFromThePast /\ [Next]_vars => [Kept]_vars
  <2> SUFFICES ASSUME ReadFromThePast, Next,
                      NEW old \in response, NEW new \in response'
               PROVE  \E days, later : /\ ReadFrom(old, days) /\ ReadFrom(new, later)
                                       /\ Continues(days, later)
    BY ReadingsContinue
  <2>1. PICK days \in Seq(Bars) : Continues(days, bars) /\ ReadFrom(old, days)
    BY DEF ReadFromThePast
  <2>2. ASSUME NEW move \in Moves, Bar(move)
        PROVE  ReadFrom(new, days) /\ Continues(days, days)
    <3>1. new = old
      BY <2>2 DEF ReadFromThePast, Bar
    <3>2. QED
      BY <2>1, <3>1, AppendContinues
  <2>3. ASSUME NEW timeframes \in Requests, Request(timeframes)
        PROVE  ReadFrom(new, bars)
    <3>1. new = CASE ~ValidNativeRequest(timeframes) -> Failed(400)
                  [] ValidNativeRequest(timeframes)
                     /\ ~Readable(ResolveTimeframes(timeframes)) -> Failed(500)
                  [] OTHER -> Served(ResolveTimeframes(timeframes))
      BY <2>3 DEF Request
    <3>2. CASE ~ValidNativeRequest(timeframes)
      BY <3>1, <3>2, FailedFrom
    <3>3. CASE ValidNativeRequest(timeframes) /\ ~Readable(ResolveTimeframes(timeframes))
      BY <3>1, <3>3, FailedFrom
    <3>4. CASE ValidNativeRequest(timeframes) /\ Readable(ResolveTimeframes(timeframes))
      BY <3>1, <3>4, ServedFrom
    <3>5. QED
      BY <3>2, <3>3, <3>4
  <2>4. QED
    BY <2>1, <2>2, <2>3 DEF Next
<1>2. QED
  BY <1>1, ReadFromThePastAlways, PTL DEF Spec, NoRepaint

-----------------------------------------------------------------------------
(* A published direction is that of every timeframe                        *)

(* A head has one of the three directions.                                 *)
LEMMA HeadDirection ==
  ASSUME NEW b, NEW series
  PROVE  TechnicalDirection(b, series).direction \in Directions
<1>1. \A condition \in BOOLEAN : UpIf(condition) \in Directions
  BY DEF UpIf, Directions
<1>2. \E range, up, down, tie \in BOOLEAN :
        TechnicalDirection(b, series).direction =
          CASE range         -> "RANGE"
            [] ~range /\ up   -> "UP"
            [] ~range /\ down -> "DOWN"
            [] OTHER         -> UpIf(tie)
  BY Zenon DEF TechnicalDirection
<1>3. QED
  BY <1>1, <1>2 DEF Directions

(* The parts of determine_cross_scale.                                     *)
Votes(scales) ==
  [d \in Directions |-> Cardinality({i \in DOMAIN scales : scales[i].direction = d})]
Dominant(scales) == {d \in Directions : Dominates(Votes(scales), d)}
Most(scales, d) == \A other \in Directions : Votes(scales)[d] >= Votes(scales)[other]
Reference(scales) ==
  CASE Dominant(scales) # {}                         -> The(Dominant(scales))
    [] Dominant(scales) = {} /\ Most(scales, "UP") -> "UP"
    [] OTHER -> IF Most(scales, "DOWN") THEN "DOWN" ELSE "RANGE"
Agreeing(scales) == Cardinality({i \in DOMAIN scales : scales[i].direction = Reference(scales)})

(* The composition in its parts.                                           *)
LEMMA CrossIs ==
  ASSUME NEW scales
  PROVE  CrossScale(scales) =
           [direction |-> IF Dominant(scales) = {} THEN "UNRESOLVED" ELSE The(Dominant(scales)),
            agreement |-> CASE Len(scales) - Agreeing(scales) = 0 -> "UNANIMOUS"
                            [] Agreeing(scales) = Len(scales) - Agreeing(scales) -> "SPLIT"
                            [] OTHER -> IF Agreeing(scales) > Len(scales) - Agreeing(scales)
                                        THEN "MAJORITY" ELSE "UNAVAILABLE"]
BY DEF CrossScale, Votes, Dominant, Most, Reference, Agreeing

(* Every scale has the same direction.                                     *)
LEMMA CrossOfOne ==
  ASSUME NEW scales, NEW n \in {1, 2}, DOMAIN scales = 1..n, Len(scales) = n,
         NEW d \in Directions, \A i \in 1..n : scales[i].direction = d
  PROVE  CrossScale(scales).direction = d /\ CrossScale(scales).agreement = "UNANIMOUS"
<1>1. Cardinality(1..n) = n /\ Cardinality({}) = 0
  BY FS_Interval, FS_EmptySet
<1>2. \A e \in Directions : {i \in DOMAIN scales : scales[i].direction = e} =
                            IF e = d THEN 1..n ELSE {}
  OBVIOUS
<1>3. PICK count : count = Votes(scales)
  OBVIOUS
<1>4. \A e \in Directions : count[e] = IF e = d THEN n ELSE 0
  BY <1>1, <1>2, <1>3 DEF Votes
<1>5. \A e \in Directions : Dominates(count, e) <=> e = d
  <2>1. ASSUME NEW e \in Directions, e # d PROVE ~Dominates(count, e)
    <3>1. count[e] = 0 /\ count[d] = n /\ d \in Directions \ {e}
      BY <1>4, <2>1
    <3>2. QED
      BY <3>1 DEF Dominates
  <2>2. Dominates(count, d)
    BY <1>4 DEF Dominates
  <2>3. QED
    BY <2>1, <2>2
<1>6. Dominant(scales) = {d}
  BY <1>3, <1>5 DEF Dominant
<1>7. The({d}) = d
  BY DEF The
<1>8. Reference(scales) = d
  BY <1>6, <1>7 DEF Reference
<1>9. Agreeing(scales) = n
  BY <1>1, <1>2, <1>8 DEF Agreeing
<1>10. Len(scales) - Agreeing(scales) = 0
  BY <1>9
<1>11. Dominant(scales) # {} /\ The(Dominant(scales)) = d
  BY <1>6, <1>7
<1>12. QED
  BY <1>10, <1>11, CrossIs

(* Two scales have different directions.                                   *)
LEMMA CrossOfTwo ==
  ASSUME NEW scales, DOMAIN scales = 1..2, Len(scales) = 2,
         NEW d \in Directions, NEW e \in Directions, d # e,
         scales[1].direction = d, scales[2].direction = e
  PROVE  CrossScale(scales).direction = "UNRESOLVED" /\ CrossScale(scales).agreement = "SPLIT"
<1>1. Cardinality({1}) = 1 /\ Cardinality({2}) = 1 /\ Cardinality({}) = 0
  BY FS_Singleton, FS_EmptySet
<1>2. \A f \in Directions : {i \in DOMAIN scales : scales[i].direction = f} =
                            IF f = d THEN {1} ELSE IF f = e THEN {2} ELSE {}
  <2>1. 1..2 = {1, 2}
    OBVIOUS
  <2>2. QED
    BY <2>1
<1>3. PICK count : count = Votes(scales)
  OBVIOUS
<1>4. \A f \in Directions : count[f] = IF f \in {d, e} THEN 1 ELSE 0
  BY <1>1, <1>2, <1>3 DEF Votes
<1>5. ASSUME NEW f \in Directions PROVE ~Dominates(count, f)
  <2>1. PICK g \in {d, e} : g # f
    OBVIOUS
  <2>2. g \in Directions \ {f} /\ count[g] = 1 /\ count[f] \in {0, 1}
    BY <1>4, <2>1
  <2>3. QED
    BY <2>2 DEF Dominates
<1>6. Dominant(scales) = {}
  BY <1>3, <1>5 DEF Dominant
<1>7. \A f \in Directions : Most(scales, f) <=> f \in {d, e}
  <2>1. ASSUME NEW f \in Directions, f \in {d, e} PROVE Most(scales, f)
    BY <1>3, <1>4, <2>1 DEF Most
  <2>2. ASSUME NEW f \in Directions, f \notin {d, e} PROVE ~Most(scales, f)
    <3>1. count[f] = 0 /\ count[d] = 1
      BY <1>4, <2>2
    <3>2. QED
      BY <1>3, <3>1 DEF Most
  <2>3. QED
    BY <2>1, <2>2
<1>8. Reference(scales) \in {d, e}
  <2>1. Reference(scales) = IF "UP" \in {d, e} THEN "UP"
                            ELSE IF "DOWN" \in {d, e} THEN "DOWN" ELSE "RANGE"
    BY <1>6, <1>7 DEF Reference, Directions
  <2>2. QED
    BY <2>1 DEF Directions
<1>9. Agreeing(scales) = 1
  BY <1>1, <1>2, <1>8 DEF Agreeing
<1>10. 2 - 1 = 1 /\ 1 # 0
  OBVIOUS
<1>11. QED
  BY <1>6, <1>9, <1>10, CrossIs

(* An answer that publishes a direction publishes that of every timeframe. *)
Uncontradicted(answer) ==
  \A cross \in answer.cross :
    LET read == {answer.readings[i].technical.head.direction : i \in DOMAIN answer.readings} IN
    /\ cross.direction # "UNRESOLVED" <=> read = {cross.direction}
    /\ cross.agreement = (IF Cardinality(read) = 1 THEN "UNANIMOUS" ELSE "SPLIT")

(* What is served for a valid request is uncontradicted: it is composed    *)
(* of one timeframe or of two different ones.                              *)
LEMMA ServedUncontradicted ==
  ASSUME NEW timeframes \in Requests, ValidNativeRequest(timeframes)
  PROVE  Uncontradicted(Served(ResolveTimeframes(timeframes)))
<1>1. PICK asked : asked = ResolveTimeframes(timeframes)
  OBVIOUS
<1>2. PICK n \in {1, 2} : DOMAIN asked = 1..n
  BY <1>1, Resolved
<1>3. PICK answer : answer = Served(asked)
  OBVIOUS
<1>4. PICK scales : scales = [i \in 1..n |-> Reading(BarsOf(bars, asked[i])).head]
  OBVIOUS
<1>5. /\ answer.cross = {CrossScale(scales)}
      /\ answer.readings = [i \in 1..n |-> [timeframe |-> asked[i],
                                            technical |-> Reading(BarsOf(bars, asked[i]))]]
  BY <1>2, <1>3, <1>4 DEF Served
<1>6. DOMAIN scales = 1..n /\ Len(scales) = n
  BY <1>4
<1>7. \A i \in 1..n : scales[i].direction \in Directions
  BY <1>4, HeadDirection DEF Reading
<1>8. \A i \in 1..n : answer.readings[i].technical.head.direction = scales[i].direction
  BY <1>4, <1>5
<1>9. PICK read : read = {scales[i].direction : i \in 1..n}
  OBVIOUS
<1>10. read = {answer.readings[i].technical.head.direction : i \in DOMAIN answer.readings}
  BY <1>5, <1>8, <1>9
<1>11. /\ CrossScale(scales).direction # "UNRESOLVED" <=> read = {CrossScale(scales).direction}
       /\ CrossScale(scales).agreement = (IF Cardinality(read) = 1 THEN "UNANIMOUS" ELSE "SPLIT")
  <2>1. CASE \A i \in 1..n : scales[i].direction = scales[1].direction
    <3>1. PICK d \in Directions : d = scales[1].direction
      BY <1>7
    <3>2. /\ CrossScale(scales).direction = d /\ CrossScale(scales).agreement = "UNANIMOUS"
      BY <1>6, <2>1, <3>1, CrossOfOne
    <3>3. read = {d} /\ d # "UNRESOLVED"
      BY <1>9, <2>1, <3>1 DEF Directions
    <3>4. Cardinality({d}) = 1
      BY FS_Singleton
    <3>5. QED
      BY <3>2, <3>3, <3>4
  <2>2. CASE ~(\A i \in 1..n : scales[i].direction = scales[1].direction)
    <3>1. n = 2 /\ scales[2].direction # scales[1].direction
      BY <2>2
    <3>2. PICK d \in Directions, e \in Directions :
            d = scales[1].direction /\ e = scales[2].direction /\ d # e
      BY <1>7, <3>1
    <3>3. CrossScale(scales).direction = "UNRESOLVED" /\ CrossScale(scales).agreement = "SPLIT"
      BY <1>6, <3>1, <3>2, CrossOfTwo
    <3>4. read = {d, e}
      <4>1. 1..2 = {1, 2}
        OBVIOUS
      <4>2. QED
        BY <1>9, <3>1, <3>2, <4>1
    <3>5. read # {"UNRESOLVED"} /\ \A x : read # {x}
      BY <3>2, <3>4
    <3>6. Cardinality(read) # 1
      <4>1. IsFiniteSet(read)
        <5>1. IsFiniteSet({d} \cup {e})
          BY FS_Singleton, FS_Union
        <5>2. {d} \cup {e} = {d, e}
          OBVIOUS
        <5>3. QED
          BY <3>4, <5>1, <5>2
      <4>2. Cardinality(read) = 1 => \E x : read = {x}
        BY <4>1, FS_Singleton
      <4>3. QED
        BY <3>5, <4>2
    <3>7. QED
      BY <3>3, <3>5, <3>6
  <2>3. QED
    BY <2>1, <2>2
<1>12. PICK cross : cross = CrossScale(scales)
  OBVIOUS
<1>13. answer.cross = {cross}
  BY <1>5, <1>12
<1>14. /\ cross.direction # "UNRESOLVED" <=> read = {cross.direction}
       /\ cross.agreement = (IF Cardinality(read) = 1 THEN "UNANIMOUS" ELSE "SPLIT")
  BY <1>11, <1>12
<1>15. Uncontradicted(answer)
  BY <1>10, <1>13, <1>14 DEF Uncontradicted
<1>16. QED
  BY <1>1, <1>3, <1>15

(* determine_cross_scale publishes a direction exactly when every          *)
(* timeframe that was asked for has it, and never calls a tie an           *)
(* agreement: a valid request is served for one timeframe or for two       *)
(* different ones.                                                         *)
THEOREM DirectionIsUncontradicted == Spec => []NoContradictedDirection
<1>1. NoContradictedDirection <=> \A answer \in response : Uncontradicted(answer)
  BY DEF NoContradictedDirection, Uncontradicted
<1>2. Init => NoContradictedDirection
  BY <1>1 DEF Init
<1>3. NoContradictedDirection /\ [Next]_vars => NoContradictedDirection'
  <2> SUFFICES ASSUME NoContradictedDirection, [Next]_vars, NEW answer \in response'
               PROVE  Uncontradicted(answer)
    BY <1>1 DEF NoContradictedDirection, Uncontradicted
  <2>1. ASSUME NEW move \in Moves, Bar(move) PROVE Uncontradicted(answer)
    BY <1>1, <2>1 DEF Bar
  <2>2. ASSUME NEW timeframes \in Requests, Request(timeframes) PROVE Uncontradicted(answer)
    <3>1. answer = CASE ~ValidNativeRequest(timeframes) -> Failed(400)
                     [] ValidNativeRequest(timeframes)
                        /\ ~Readable(ResolveTimeframes(timeframes)) -> Failed(500)
                     [] OTHER -> Served(ResolveTimeframes(timeframes))
      BY <2>2 DEF Request
    <3>2. \A code : Uncontradicted(Failed(code))
      BY DEF Failed, Uncontradicted
    <3>3. CASE ~ValidNativeRequest(timeframes)
      BY <3>1, <3>2, <3>3
    <3>4. CASE ValidNativeRequest(timeframes) /\ ~Readable(ResolveTimeframes(timeframes))
      BY <3>1, <3>2, <3>4
    <3>5. CASE ValidNativeRequest(timeframes) /\ Readable(ResolveTimeframes(timeframes))
      BY <3>1, <3>5, ServedUncontradicted
    <3>6. QED
      BY <3>3, <3>4, <3>5
  <2>3. CASE UNCHANGED vars
    BY <1>1, <2>3 DEF vars
  <2>4. QED
    BY <2>1, <2>2, <2>3 DEF Next
<1>4. QED
  BY <1>2, <1>3, PTL DEF Spec

-----------------------------------------------------------------------------
(* The market turned upside down                                           *)

(* A market and its mirror image.                                          *)
Inverted(b, m, n) ==
  /\ n = Len(b) /\ n = Len(m) /\ DOMAIN b = 1..n /\ DOMAIN m = 1..n
  /\ \A i \in 1..n : \E x, y, z \in Int :
       /\ b[i].close = x /\ b[i].high = y /\ b[i].low = z
       /\ m[i].close = -x /\ m[i].high = -z /\ m[i].low = -y

(* Mirrored is the mirror image.                                           *)
LEMMA MirroredBars ==
  ASSUME NEW b \in Seq(Bars)
  PROVE  Inverted(b, Mirrored(b), Len(b))
<1>1. PICK n \in Nat : n = Len(b) /\ DOMAIN b = 1..n /\ \A i \in 1..n : b[i] \in Bars
  OBVIOUS
<1>2. PICK m : m = Mirrored(b)
  OBVIOUS
<1>3. m = [i \in 1..n |-> [close |-> -b[i].close, high |-> -b[i].low, low |-> -b[i].high]]
  BY <1>1, <1>2 DEF Mirrored
<1>4. Len(m) = n /\ DOMAIN m = 1..n
  BY <1>3
<1>5. ASSUME NEW i \in 1..n
      PROVE  \E x, y, z \in Int :
               /\ b[i].close = x /\ b[i].high = y /\ b[i].low = z
               /\ m[i].close = -x /\ m[i].high = -z /\ m[i].low = -y
  <2>1. b[i].close \in Int /\ b[i].high \in Int /\ b[i].low \in Int
    BY <1>1 DEF Bars
  <2>2. m[i] = [close |-> -b[i].close, high |-> -b[i].low, low |-> -b[i].high]
    BY <1>3
  <2>3. QED
    BY <2>1, <2>2
<1>6. Inverted(b, m, n)
  BY <1>1, <1>4, <1>5 DEF Inverted
<1>7. QED
  BY <1>1, <1>2, <1>6

(* The closes are opposite, and so are the moving averages of opposite     *)
(* closes.                                                                 *)
LEMMA ClosesMirrored ==
  ASSUME NEW b \in Seq(Bars), NEW n \in Nat, n = Len(b)
  PROVE  /\ Listed(Closes(b), n) /\ Listed(Closes(Mirrored(b)), n)
         /\ Opposed(Closes(b), Closes(Mirrored(b)), 1..n)
<1>1. PICK m : m = Mirrored(b)
  OBVIOUS
<1>2. /\ DOMAIN b = 1..n /\ DOMAIN m = 1..n
      /\ \A i \in 1..n : \E x \in Int : b[i].close = x /\ m[i].close = -x
  BY <1>1, MirroredBars DEF Inverted
<1>3. PICK f : f = Closes(b)
  OBVIOUS
<1>4. PICK g : g = Closes(m)
  OBVIOUS
<1>5. f = [i \in 1..n |-> Scale * b[i].close] /\ g = [i \in 1..n |-> Scale * m[i].close]
  BY <1>2, <1>3, <1>4 DEF Closes
<1>6. f = [i \in 1..n |-> f[i]] /\ g = [i \in 1..n |-> g[i]]
  BY <1>5
<1>7. ASSUME NEW i \in 1..n PROVE f[i] \in Int /\ g[i] = -f[i]
  <2>1. PICK x \in Int : b[i].close = x /\ m[i].close = -x
    BY <1>2
  <2>2. Scale \in Int
    BY Periods
  <2>3. Scale * x \in Int /\ Scale * (-x) = -(Scale * x)
    BY <2>2
  <2>4. QED
    BY <1>5, <2>1, <2>3
<1>8. Listed(f, n) /\ Listed(g, n)
  BY <1>6, ListedFunction
<1>9. QED
  BY <1>1, <1>3, <1>4, <1>7, <1>8 DEF Opposed

(* The averages of the mirrored closes are the mirrored averages.          *)
LEMMA AveragesMirrored ==
  ASSUME NEW b \in Seq(Bars), NEW n \in Nat, n = Len(b), NEW period \in Nat \ {0}
  PROVE  Mirror(Ema(Closes(b), period), Ema(Closes(Mirrored(b)), period), period..n)
BY ClosesMirrored, EmaOpposite

(* The only element of an Option.                                          *)
LEMMA TheOnly == ASSUME NEW x PROVE The({x}) = x
BY DEF The

(* The histogram is opposite.                                              *)
LEMMA MacdMirrored ==
  ASSUME NEW b \in Seq(Bars), NEW n \in Nat, n = Len(b)
  PROVE  Mirror(MacdHistogram(b), MacdHistogram(Mirrored(b)), (MacdSlow + MacdSignal)..n)
<1>1. PICK m : m = Mirrored(b)
  OBVIOUS
<1>2. n = Len(m) /\ DOMAIN b = 1..n /\ DOMAIN m = 1..n
  BY <1>1, MirroredBars DEF Inverted
<1>3. PICK before \in Nat, first \in Nat :
        /\ before = MacdSlow - 1 /\ first = MacdSlow + MacdSignal /\ first > before
        /\ first - before = MacdSignal + 1
  BY Periods
<1>4. PICK size \in Nat :
        /\ size = Greatest(n - (MacdSlow - 1), 0)
        /\ Listed(MacdLine(b), size)
        /\ \A k \in 1..size :
             /\ MacdSlow - 1 + k \in MacdSlow..n
             /\ MacdLine(b)[k] = The(Ema(Closes(b), MacdFast)[MacdSlow - 1 + k]) -
                                 The(Ema(Closes(b), MacdSlow)[MacdSlow - 1 + k])
  BY LineValues
<1>5. PICK other \in Nat :
        /\ other = Greatest(n - (MacdSlow - 1), 0)
        /\ Listed(MacdLine(m), other)
        /\ \A k \in 1..other :
             /\ MacdSlow - 1 + k \in MacdSlow..n
             /\ MacdLine(m)[k] = The(Ema(Closes(m), MacdFast)[MacdSlow - 1 + k]) -
                                 The(Ema(Closes(m), MacdSlow)[MacdSlow - 1 + k])
  BY <1>2, LineValues
<1>6. Mirror(Ema(Closes(b), MacdFast), Ema(Closes(m), MacdFast), MacdFast..n)
  BY <1>1, Periods, AveragesMirrored
<1>7. Mirror(Ema(Closes(b), MacdSlow), Ema(Closes(m), MacdSlow), MacdSlow..n)
  BY <1>1, Periods, AveragesMirrored
<1>8. PICK line : line = MacdLine(b)
  OBVIOUS
<1>9. PICK image : image = MacdLine(m)
  OBVIOUS
<1>10. Opposed(line, image, 1..size)
  <2>1. ASSUME NEW k \in 1..size PROVE line[k] \in Int /\ image[k] = -line[k]
    <3>1. PICK i \in MacdSlow..n : i = MacdSlow - 1 + k /\ i \in MacdFast..n
      BY <1>4, Periods
    <3>2. PICK x \in Int : /\ Ema(Closes(b), MacdFast)[i] = {x}
                           /\ Ema(Closes(m), MacdFast)[i] = {-x}
      BY <1>6, <3>1 DEF Mirror
    <3>3. PICK y \in Int : /\ Ema(Closes(b), MacdSlow)[i] = {y}
                           /\ Ema(Closes(m), MacdSlow)[i] = {-y}
      BY <1>7, <3>1 DEF Mirror
    <3>4. line[k] = x - y
      BY <1>4, <1>8, <3>1, <3>2, <3>3, TheOnly
    <3>5. image[k] = -x - (-y)
      <4>1. k \in 1..other
        BY <1>4, <1>5
      <4>2. image[k] = The(Ema(Closes(m), MacdFast)[i]) - The(Ema(Closes(m), MacdSlow)[i])
        BY <1>5, <1>9, <3>1, <4>1
      <4>3. QED
        BY <3>2, <3>3, <4>2, TheOnly
    <3>6. QED
      BY <3>4, <3>5
  <2>2. QED
    BY <2>1 DEF Opposed
<1>11. Opposed(Signal(line), Signal(image), (MacdSignal + 1)..size)
  BY <1>4, <1>5, <1>8, <1>9, <1>10, SignalOpposite
<1>12. PICK signal : signal = Signal(line)
  OBVIOUS
<1>13. PICK echo : echo = Signal(image)
  OBVIOUS
<1>14. PICK f : f = MacdHistogram(b)
  OBVIOUS
<1>15. PICK g : g = MacdHistogram(m)
  OBVIOUS
<1>16. /\ f = [i \in 1..n |-> IF i < first THEN {} ELSE {line[i - before] - signal[i - before]}]
       /\ g = [i \in 1..n |-> IF i < first THEN {} ELSE {image[i - before] - echo[i - before]}]
  BY <1>2, <1>3, <1>8, <1>9, <1>12, <1>13, <1>14, <1>15, HistogramIs
<1>17. ASSUME NEW i \in first..n PROVE \E e \in Int : f[i] = {e} /\ g[i] = {-e}
  <2>1. PICK k \in 1..size : k = i - before /\ k \in (MacdSignal + 1)..size
    <3>1. size = n - before /\ MacdSignal \in Nat \ {0}
      BY <1>3, <1>4, Periods DEF Greatest
    <3>2. i - before \in (MacdSignal + 1)..size /\ i - before \in 1..size
      BY <1>3, <3>1
    <3>3. QED
      BY <3>2
  <2>2. PICK x \in Int : line[k] = x /\ image[k] = -x
    BY <1>10 DEF Opposed
  <2>3. PICK y \in Int : signal[k] = y /\ echo[k] = -y
    BY <1>11, <1>12, <1>13, <2>1 DEF Opposed
  <2>4. i \in 1..n /\ ~(i < first)
    BY <1>3
  <2>5. f[i] = {x - y} /\ g[i] = {-x - (-y)}
    BY <1>16, <2>1, <2>2, <2>3, <2>4
  <2>6. x - y \in Int /\ -x - (-y) = -(x - y)
    OBVIOUS
  <2>7. QED
    BY <2>5, <2>6
<1>18. QED
  BY <1>1, <1>3, <1>14, <1>15, <1>17 DEF Mirror

(* Gains and losses change places.                                         *)
LEMMA RsiMirrored ==
  ASSUME NEW b \in Seq(Bars), NEW n \in Nat, n = Len(b), n > WilderPeriod
  PROVE  \E gain \in Nat, loss \in Nat :
           /\ Rsi(b)[n] = {[gain |-> gain, loss |-> loss]}
           /\ Rsi(Mirrored(b))[n] = {[gain |-> loss, loss |-> gain]}
<1>1. PICK m : m = Mirrored(b)
  OBVIOUS
<1>2. /\ n = Len(m) /\ DOMAIN b = 1..n /\ DOMAIN m = 1..n
      /\ \A i \in 1..n : \E x \in Int : b[i].close = x /\ m[i].close = -x
  BY <1>1, MirroredBars DEF Inverted
<1>3. ASSUME NEW i \in 2..n
      PROVE  /\ Gains(b)[i] \in Nat /\ Losses(b)[i] \in Nat
             /\ Gains(m)[i] = Losses(b)[i] /\ Losses(m)[i] = Gains(b)[i]
  <2>1. i \in 1..n /\ i - 1 \in 1..n
    OBVIOUS
  <2>2. PICK x \in Int : b[i].close = x /\ m[i].close = -x
    BY <1>2, <2>1
  <2>3. PICK y \in Int : b[i - 1].close = y /\ m[i - 1].close = -y
    BY <1>2, <2>1
  <2>4. PICK d \in Int : d = Scale * (x - y) /\ Scale * (-x - (-y)) = -d
    <3>1. Scale \in Int
      BY Periods
    <3>2. Scale * (-x - (-y)) = -(Scale * (x - y)) /\ Scale * (x - y) \in Int
      BY <3>1
    <3>3. QED
      BY <3>2
  <2>5. Gains(b)[i] = Greatest(d, 0) /\ Losses(b)[i] = Greatest(-d, 0)
    BY <2>2, <2>3, <2>4 DEF Gains, Losses
  <2>6. Gains(m)[i] = Greatest(-d, 0) /\ Losses(m)[i] = Greatest(-(-d), 0)
    BY <1>2, <2>2, <2>3, <2>4 DEF Gains, Losses
  <2>7. Greatest(d, 0) \in Nat /\ Greatest(-d, 0) \in Nat /\ -(-d) = d
    BY DEF Greatest
  <2>8. QED
    BY <2>5, <2>6, <2>7
<1>4. Gains(m) = Losses(b) /\ Losses(m) = Gains(b)
  <2>1. /\ Gains(m) = [i \in 2..n |-> Gains(m)[i]] /\ Losses(m) = [i \in 2..n |-> Losses(m)[i]]
        /\ Gains(b) = [i \in 2..n |-> Gains(b)[i]] /\ Losses(b) = [i \in 2..n |-> Losses(b)[i]]
    BY <1>2 DEF Gains, Losses
  <2>2. QED
    BY <1>3, <2>1
<1>5. Counts(Gains(b), 2..n) /\ Counts(Losses(b), 2..n)
  BY <1>3 DEF Counts
<1>6. 2 \in Nat \ {0} /\ n \in 1..n /\ n \in (2 + WilderPeriod - 1)..n
  BY Periods
<1>7. PICK gain \in Nat : Wilder(Gains(b), 2, n)[n] = {gain}
  BY <1>5, <1>6, WilderNatural DEF Counted
<1>8. PICK loss \in Nat : Wilder(Losses(b), 2, n)[n] = {loss}
  BY <1>5, <1>6, WilderNatural DEF Counted
<1>9. Rsi(b)[n] = {[gain |-> gain, loss |-> loss]}
  BY <1>2, <1>6, <1>7, <1>8, RsiIs, TheOnly
<1>10. Rsi(m)[n] = {[gain |-> loss, loss |-> gain]}
  BY <1>2, <1>4, <1>6, <1>7, <1>8, RsiIs, TheOnly
<1>11. QED
  BY <1>1, <1>9, <1>10

(* The range of a bar has no side.                                         *)
LEMMA AtrMirrored ==
  ASSUME NEW b \in Seq(Bars), NEW n \in Nat, n = Len(b)
  PROVE  /\ Atr(Mirrored(b)) = Atr(b)
         /\ Counted(Atr(b), (WilderPeriod + 1)..n)
<1>1. PICK m : m = Mirrored(b)
  OBVIOUS
<1>2. /\ n = Len(m) /\ DOMAIN b = 1..n /\ DOMAIN m = 1..n
      /\ \A i \in 1..n : \E x, y, z \in Int :
           /\ b[i].close = x /\ b[i].high = y /\ b[i].low = z
           /\ m[i].close = -x /\ m[i].high = -z /\ m[i].low = -y
  BY <1>1, MirroredBars DEF Inverted
<1>3. ASSUME NEW i \in 2..n PROVE TrueRange(b, i) \in Nat /\ TrueRange(m, i) = TrueRange(b, i)
  <2>1. i \in 1..n /\ i - 1 \in 1..n
    OBVIOUS
  <2>2. PICK y \in Int, z \in Int : /\ b[i].high = y /\ b[i].low = z
                                    /\ m[i].high = -z /\ m[i].low = -y
    BY <1>2, <2>1
  <2>3. PICK x \in Int : b[i - 1].close = x /\ m[i - 1].close = -x
    BY <1>2, <2>1
  <2>4. PICK r \in Nat : /\ Greatest(y, x) - Least(z, x) = r
                         /\ Greatest(-z, -x) - Least(-y, -x) = r
    <3>1. PICK g \in Int : g = Greatest(y, x) /\ g >= x /\ Least(-y, -x) = -g
      BY DEF Greatest, Least
    <3>2. PICK l \in Int : l = Least(z, x) /\ l <= x /\ Greatest(-z, -x) = -l
      BY DEF Greatest, Least
    <3>3. g - l \in Nat /\ -l - (-g) = g - l
      BY <3>1, <3>2
    <3>4. QED
      BY <3>1, <3>2, <3>3
  <2>5. Scale * r \in Nat
    BY Periods
  <2>6. TrueRange(b, i) = Scale * r /\ TrueRange(m, i) = Scale * r
    BY <2>2, <2>3, <2>4 DEF TrueRange
  <2>7. QED
    BY <2>5, <2>6
<1>4. Ranges(b) = [i \in 2..n |-> TrueRange(b, i)] /\ Ranges(m) = [i \in 2..n |-> TrueRange(m, i)]
  BY <1>2 DEF Ranges
<1>5. Ranges(m) = Ranges(b)
  BY <1>3, <1>4
<1>6. Atr(b) = Wilder(Ranges(b), 2, n) /\ Atr(m) = Wilder(Ranges(m), 2, n)
  BY <1>2 DEF Atr, Ranges
<1>7. Counts(Ranges(b), 2..n)
  BY <1>3, <1>4 DEF Counts
<1>8. 2 \in Nat \ {0} /\ 2 + WilderPeriod - 1 = WilderPeriod + 1
  BY Periods
<1>9. Counted(Wilder(Ranges(b), 2, n), (2 + WilderPeriod - 1)..n)
  BY <1>7, <1>8, WilderNatural
<1>10. QED
  BY <1>1, <1>5, <1>6, <1>8, <1>9

(* A directional movement is a natural number, and the movements of the    *)
(* two sides change places.                                                *)
LEMMA MovesMirrored ==
  ASSUME NEW b \in Seq(Bars), NEW n \in Nat, n = Len(b)
  PROVE  /\ PlusMoves(Mirrored(b)) = MinusMoves(b) /\ MinusMoves(Mirrored(b)) = PlusMoves(b)
         /\ Counts(PlusMoves(b), 2..n) /\ Counts(MinusMoves(b), 2..n)
<1>1. PICK m : m = Mirrored(b)
  OBVIOUS
<1>2. /\ n = Len(m) /\ DOMAIN b = 1..n /\ DOMAIN m = 1..n
      /\ \A i \in 1..n : \E x, y, z \in Int :
           /\ b[i].close = x /\ b[i].high = y /\ b[i].low = z
           /\ m[i].close = -x /\ m[i].high = -z /\ m[i].low = -y
  BY <1>1, MirroredBars DEF Inverted
<1>3. ASSUME NEW i \in 2..n
      PROVE  /\ PlusDm(b, i) \in Nat /\ MinusDm(b, i) \in Nat
             /\ PlusDm(m, i) = MinusDm(b, i) /\ MinusDm(m, i) = PlusDm(b, i)
  <2>1. i \in 1..n /\ i - 1 \in 1..n
    OBVIOUS
  <2>2. PICK y \in Int, z \in Int : /\ b[i].high = y /\ b[i].low = z
                                    /\ m[i].high = -z /\ m[i].low = -y
    BY <1>2, <2>1
  <2>3. PICK v \in Int, w \in Int : /\ b[i - 1].high = v /\ b[i - 1].low = w
                                    /\ m[i - 1].high = -w /\ m[i - 1].low = -v
    BY <1>2, <2>1
  <2>4. PICK up \in Int, down \in Int : up = y - v /\ down = w - z
    OBVIOUS
  <2>5. UpMove(b, i) = up /\ DownMove(b, i) = down /\ UpMove(m, i) = down /\ DownMove(m, i) = up
    BY <2>2, <2>3, <2>4 DEF UpMove, DownMove
  <2>6. Greatest(up, 0) \in Nat /\ Greatest(down, 0) \in Nat
    BY DEF Greatest
  <2>7. Scale * Greatest(up, 0) \in Nat /\ Scale * Greatest(down, 0) \in Nat
    BY <2>6, Periods
  <2>8. QED
    BY <2>5, <2>7 DEF PlusDm, MinusDm
<1>4. /\ PlusMoves(b) = [i \in 2..n |-> PlusDm(b, i)]
      /\ MinusMoves(b) = [i \in 2..n |-> MinusDm(b, i)]
      /\ PlusMoves(m) = [i \in 2..n |-> PlusDm(m, i)]
      /\ MinusMoves(m) = [i \in 2..n |-> MinusDm(m, i)]
  BY <1>2 DEF PlusMoves, MinusMoves
<1>5. PlusMoves(m) = MinusMoves(b) /\ MinusMoves(m) = PlusMoves(b)
  BY <1>3, <1>4
<1>6. Counts(PlusMoves(b), 2..n) /\ Counts(MinusMoves(b), 2..n)
  BY <1>3, <1>4 DEF Counts
<1>7. QED
  BY <1>1, <1>5, <1>6

(* A share of the range is a natural number, until there is no range.      *)
Shares(di, atr, n) ==
  \A i \in (WilderPeriod + 1)..n :
    IF \E j \in (WilderPeriod + 1)..i : atr[j] = {0} THEN di[i] = {}
    ELSE \E d \in Nat : di[i] = {d}

(* DI is such a share, for every directional movement.                     *)
LEMMA DiNatural ==
  ASSUME NEW b, NEW n \in Nat, n = Len(b), NEW dm, Counts(dm, 2..n),
         NEW atr, Counted(atr, (WilderPeriod + 1)..n)
  PROVE  Shares(Di(dm, b, atr), atr, n)
<1>1. PICK first \in Nat \ {0} : first = WilderPeriod + 1 /\ first >= 2
  BY Periods
<1>2. WilderPeriod \in Nat \ {0} /\ 1 \in Nat \ {0}
  BY Periods
<1>3. ASSUME NEW m \in Nat, NEW parts \in Nat \ {0}, NEW i \in first..n
      PROVE  DiShare(m, parts, atr[i]) \in Nat
  <2>1. PICK a \in Nat : atr[i] = {a}
    BY <1>1 DEF Counted
  <2>2. CASE a = 0
    BY <2>1, <2>2 DEF DiShare
  <2>3. CASE a # 0
    <3>1. PICK k \in Nat, d \in Nat \ {0} : k = 100 * m /\ d = parts * a
      BY <2>3
    <3>2. k \in Int /\ k >= 0
      OBVIOUS
    <3>3. Quotient(k, d) \in Nat
      BY <3>2, QuotientFair
    <3>4. atr[i] # {0}
      BY <2>1, <2>3
    <3>5. QED
      BY <2>1, <3>1, <3>3, <3>4, TheOnly DEF DiShare
  <2>4. QED
    BY <2>2, <2>3
<1>4. PICK p : p = DiAverage(dm, atr, n)
  OBVIOUS
<1>5. ASSUME n >= first PROVE Counts(p, first..n)
  <2>1. PICK seed \in Nat : seed = DiSeed(dm, atr)
    <3>1. IsFiniteSet(2..first)
      BY FS_Interval
    <3>2. \A i \in 2..first : dm[i] \in Nat
      BY <1>5 DEF Counts
    <3>3. PICK m \in Nat : m = SumFunctionOnSet(dm, 2..first)
      BY <3>1, <3>2, SumNatural
    <3>4. first \in first..n
      BY <1>5
    <3>5. DiShare(m, WilderPeriod, atr[first]) \in Nat
      BY <1>2, <1>3, <3>4
    <3>6. QED
      BY <1>1, <3>3, <3>5 DEF DiSeed
  <2>2. Counts(DiShares(dm, atr, n), (first + 1)..n)
    <3>1. ASSUME NEW i \in (first + 1)..n PROVE DiShares(dm, atr, n)[i] \in Nat
      <4>1. i \in first..n /\ i \in 2..n
        BY <1>1
      <4>2. dm[i] \in Nat
        BY <4>1 DEF Counts
      <4>3. DiShares(dm, atr, n)[i] = DiShare(dm[i], 1, atr[i])
        BY <1>1, <4>1 DEF DiShares
      <4>4. QED
        BY <1>2, <1>3, <4>1, <4>2, <4>3
    <3>2. QED
      BY <3>1 DEF Counts
  <2>3. p = Smoothed(DiShares(dm, atr, n), seed, first, n, 1, WilderPeriod)
    BY <1>1, <1>4, <2>1 DEF DiAverage
  <2>4. QED
    BY <1>2, <2>2, <2>3, SmoothedNatural
<1>6. PICK f : f = Di(dm, b, atr)
  OBVIOUS
<1>7. f = [i \in first..n |-> IF \E j \in first..i : atr[j] = {0} THEN {} ELSE {p[i]}]
  BY <1>1, <1>4, <1>6, DiIs
<1>8. ASSUME NEW i \in first..n
      PROVE  IF \E j \in first..i : atr[j] = {0} THEN f[i] = {} ELSE \E d \in Nat : f[i] = {d}
  <2>1. f[i] = IF \E j \in first..i : atr[j] = {0} THEN {} ELSE {p[i]}
    BY <1>7
  <2>2. p[i] \in Nat
    BY <1>5 DEF Counts
  <2>3. QED
    BY <2>1, <2>2
<1>9. QED
  BY <1>1, <1>6, <1>8 DEF Shares

(* DX has no side, nor has what is made of it.                             *)
LEMMA AdxMirrored ==
  ASSUME NEW b \in Seq(Bars), NEW n \in Nat, n = Len(b)
  PROVE  Adx(Mirrored(b)) = Adx(b)
<1>1. PICK m : m = Mirrored(b)
  OBVIOUS
<1>2. n = Len(m)
  BY <1>1, MirroredBars DEF Inverted
<1>3. PICK first \in Nat \ {0} : first = WilderPeriod + 1
  BY Periods
<1>4. PICK atr : atr = Atr(b) /\ atr = Atr(m) /\ Counted(atr, first..n)
  BY <1>1, <1>3, AtrMirrored
<1>5. PICK plus : plus = PlusDi(b)
  OBVIOUS
<1>6. PICK minus : minus = MinusDi(b)
  OBVIOUS
<1>7. PlusDi(m) = minus /\ MinusDi(m) = plus
  <2>1. PlusMoves(m) = MinusMoves(b) /\ MinusMoves(m) = PlusMoves(b)
    BY <1>1, MovesMirrored
  <2>2. \A dm : Di(dm, m, atr) = Di(dm, b, atr)
    BY <1>2, DiIs
  <2>3. QED
    BY <1>4, <1>5, <1>6, <2>1, <2>2 DEF PlusDi, MinusDi
<1>8. ASSUME NEW i \in first..n PROVE Dx(plus[i], minus[i]) = Dx(minus[i], plus[i])
  <2>1. Shares(plus, atr, n) /\ Shares(minus, atr, n)
    <3>1. Counts(PlusMoves(b), 2..n) /\ Counts(MinusMoves(b), 2..n)
      BY MovesMirrored
    <3>2. QED
      BY <1>3, <1>4, <1>5, <1>6, <3>1, DiNatural DEF PlusDi, MinusDi
  <2>2. CASE \E j \in first..i : atr[j] = {0}
    <3>1. plus[i] = {} /\ minus[i] = {}
      BY <1>3, <2>1, <2>2 DEF Shares
    <3>2. QED
      BY <3>1
  <2>3. CASE ~(\E j \in first..i : atr[j] = {0})
    <3>1. PICK x \in Nat : plus[i] = {x}
      BY <1>3, <2>1, <2>3 DEF Shares
    <3>2. PICK y \in Nat : minus[i] = {y}
      BY <1>3, <2>1, <2>3 DEF Shares
    <3>3. x + y = y + x /\ Greatest(x - y, -(x - y)) = Greatest(y - x, -(y - x))
      BY DEF Greatest
    <3>4. ASSUME NEW p, NEW q
          PROVE  Dx({p}, {q}) = IF p + q = 0 THEN 0
                                ELSE Quotient(100 * Greatest(p - q, -(p - q)), p + q)
      <4>1. The({p}) = p /\ The({q}) = q /\ {p} # {}
        BY TheOnly
      <4>2. QED
        BY <4>1 DEF Dx
    <3>5. Dx({x}, {y}) = IF x + y = 0 THEN 0
                         ELSE Quotient(100 * Greatest(x - y, -(x - y)), x + y)
      BY <3>4
    <3>6. Dx({y}, {x}) = IF y + x = 0 THEN 0
                         ELSE Quotient(100 * Greatest(y - x, -(y - x)), y + x)
      BY <3>4
    <3>7. Dx({x}, {y}) = Dx({y}, {x})
      BY <3>3, <3>5, <3>6
    <3>8. QED
      BY <3>1, <3>2, <3>7
  <2>4. QED
    BY <2>2, <2>3
<1>9. /\ Dxs(b) = [i \in first..n |-> Dx(plus[i], minus[i])]
      /\ Dxs(m) = [i \in first..n |-> Dx(minus[i], plus[i])]
  BY <1>2, <1>3, <1>5, <1>6, <1>7 DEF Dxs
<1>10. Dxs(m) = Dxs(b)
  BY <1>8, <1>9
<1>11. QED
  BY <1>1, <1>2, <1>10, AdxIs

(* Bands that are as wide on either side.                                  *)
BandsTwice(f, g, n) ==
  \E sum \in Int, square \in Nat : /\ f[n] = {[sum |-> sum, square |-> square]}
                                   /\ g[n] = {[sum |-> -sum, square |-> square]}

(* So are those of the market and of its mirror image.                     *)
LEMMA BandsMirrored ==
  ASSUME NEW b \in Seq(Bars), NEW n \in Nat, n = Len(b), n >= BandPeriod
  PROVE  BandsTwice(Bollinger(b), Bollinger(Mirrored(b)), n)
<1>1. PICK m : m = Mirrored(b)
  OBVIOUS
<1>2. /\ n = Len(m) /\ DOMAIN b = 1..n /\ DOMAIN m = 1..n
      /\ \A i \in 1..n : \E x \in Int : b[i].close = x /\ m[i].close = -x
  BY <1>1, MirroredBars DEF Inverted
<1>3. PICK W : W = WindowOf(n)
  OBVIOUS
<1>4. IsFiniteSet(W) /\ Cardinality(W) = BandPeriod /\ \A j \in W : j \in 1..n
  <2>1. PICK from \in Int : from = n - BandPeriod + 1 /\ from >= 1 /\ from <= n
    BY Periods
  <2>2. IsFiniteSet(from..n) /\ Cardinality(from..n) = n - from + 1
    BY <2>1, FS_Interval
  <2>3. n - from + 1 = BandPeriod
    BY <2>1, Periods
  <2>4. QED
    BY <1>3, <2>1, <2>2, <2>3 DEF WindowOf
<1>5. PICK f : f = [j \in 1..n |-> b[j].close]
  OBVIOUS
<1>6. PICK g : g = [j \in 1..n |-> m[j].close]
  OBVIOUS
<1>7. PICK f2 : f2 = [j \in 1..n |-> b[j].close * b[j].close]
  OBVIOUS
<1>8. PICK g2 : g2 = [j \in 1..n |-> m[j].close * m[j].close]
  OBVIOUS
<1>9. ASSUME NEW j \in W PROVE f[j] \in Int /\ g[j] = -f[j] /\ f2[j] = f[j] * f[j] /\ f2[j] = g2[j]
  <2>1. PICK x \in Int : j \in 1..n /\ b[j].close = x /\ m[j].close = -x
    BY <1>2, <1>4
  <2>2. (-x) * (-x) = x * x
    OBVIOUS
  <2>3. QED
    BY <1>5, <1>6, <1>7, <1>8, <2>1, <2>2
<1>10. PICK sum \in Int : SumFunctionOnSet(f, W) = sum /\ SumFunctionOnSet(g, W) = -sum
  BY <1>4, <1>9, SumOpposite DEF Opposed
<1>11. PICK squares \in Int :
         SumFunctionOnSet(f2, W) = squares /\ sum * sum <= BandPeriod * squares
  BY <1>4, <1>9, <1>10, SumSquares
<1>12. SumFunctionOnSet(g2, W) = squares
  BY <1>4, <1>9, <1>11, SumAgrees DEF Same
<1>13. /\ CloseSum(b, n) = sum /\ SquareSum(b, n) = squares
       /\ CloseSum(m, n) = -sum /\ SquareSum(m, n) = squares
  BY <1>2, <1>3, <1>5, <1>6, <1>7, <1>8, <1>10, <1>11, <1>12 DEF CloseSum, SquareSum
<1>14. PICK square \in Nat : square = BandPeriod * squares - sum * sum
  <2>1. BandPeriod * squares \in Int /\ sum * sum \in Int
    BY Periods
  <2>2. QED
    BY <1>11, <2>1
<1>15. (-sum) * (-sum) = sum * sum
  OBVIOUS
<1>16. n \in 1..n /\ ~(n < BandPeriod)
  BY Periods
<1>17. Bollinger(b)[n] = {[sum |-> sum, square |-> square]}
  BY <1>2, <1>13, <1>14, <1>16, BollingerIs
<1>18. Bollinger(m)[n] = {[sum |-> -sum, square |-> square]}
  BY <1>2, <1>13, <1>14, <1>15, <1>16, BollingerIs
<1>19. QED
  BY <1>1, <1>17, <1>18 DEF BandsTwice

(* The parts of compute_technical_direction.                               *)
StepOf(s, last) == UNION {{The(s.emaFast[last]) - e} : e \in s.emaFast[last - 1]}
VotesOf(s, last) ==
  [trend |-> UpIf(The(s.emaFast[last]) > The(s.emaSlow[last])),
   slope |-> IF StepOf(s, last) = {} THEN "UNAVAILABLE" ELSE UpIf(The(StepOf(s, last)) > 0),
   macd  |-> UpIf(The(s.macd[last]) > 0),
   rsi   |-> UpIf(RsiAtLeast(The(s.rsi[last]), 50))]
RangeOf(s, last) ==
  /\ The(s.atr[last]) > 0 /\ The(s.adx[last]) < 20
  /\ 2 * Greatest(The(s.emaFast[last]) - The(s.emaSlow[last]),
                  The(s.emaSlow[last]) - The(s.emaFast[last])) < The(s.atr[last])
For(votes, d) == Cardinality({v \in DOMAIN votes : votes[v] = d})
Decision(isRange, votes) ==
  CASE isRange                -> "RANGE"
    [] ~isRange /\ For(votes, "UP") > For(votes, "DOWN") -> "UP"
    [] ~isRange /\ For(votes, "DOWN") > For(votes, "UP") -> "DOWN"
    [] OTHER                  -> UpIf(votes.slope = "UP")

(* The direction in its parts.                                             *)
LEMMA HeadIs ==
  ASSUME NEW b, NEW s
  PROVE  /\ TechnicalDirection(b, s).isRange = RangeOf(s, Len(b))
         /\ TechnicalDirection(b, s).direction =
              Decision(RangeOf(s, Len(b)), VotesOf(s, Len(b)))
BY Zenon DEF TechnicalDirection, RangeOf, VotesOf, StepOf, For, Decision

(* The parts of compute_counter_reading.                                   *)
Counter(rsi, away, square, atr, extension) ==
  CASE RsiAtLeast(rsi, 70) -> "DOWN"
    [] RsiAtMost(rsi, 30)  -> "UP"
    [] OTHER ->
         IF away * away > BandWidth * BandWidth * square
         THEN (IF away > 0 THEN "DOWN" ELSE "UP")
         ELSE IF atr > 0 /\ Greatest(extension, -extension) > 2 * atr
              THEN (IF extension > 0 THEN "DOWN" ELSE "UP")
              ELSE "NONE"

(* The counter-reading in its parts.                                       *)
LEMMA CounterIs ==
  ASSUME NEW b, NEW s
  PROVE  CounterReading(b, s) =
           Counter(The(s.rsi[Len(b)]), BandPeriod * b[Len(b)].close - The(s.bollinger[Len(b)]).sum,
                   The(s.bollinger[Len(b)]).square, The(s.atr[Len(b)]),
                   Scale * b[Len(b)].close - The(s.emaFast[Len(b)]))
BY Zenon DEF CounterReading, Counter

(* Opposite votes have the opposite majority.                              *)
Sides == {"UP", "DOWN"}
Ballots == [trend : Sides, slope : Sides, macd : Sides, rsi : Sides]

(* A majority, and a tie that the slope breaks, is turned around.          *)
LEMMA MajorityMirrored ==
  ASSUME NEW v \in Ballots, NEW w \in Ballots, NEW isRange \in BOOLEAN,
         w.trend = Opposite(v.trend), w.slope = Opposite(v.slope),
         w.macd = Opposite(v.macd), w.rsi = Opposite(v.rsi)
  PROVE  Decision(isRange, w) = Opposite(Decision(isRange, v))
<1>1. Opposite("UP") = "DOWN" /\ Opposite("DOWN") = "UP" /\ Opposite("RANGE") = "RANGE"
  BY DEF Opposite
<1>2. DOMAIN v = {"trend", "slope", "macd", "rsi"} /\ DOMAIN w = DOMAIN v
  BY DEF Ballots
<1>3. \A x \in DOMAIN v : v[x] \in Sides /\ w[x] = Opposite(v[x])
  BY <1>2 DEF Ballots
<1>4. /\ {x \in DOMAIN w : w[x] = "UP"} = {x \in DOMAIN v : v[x] = "DOWN"}
      /\ {x \in DOMAIN w : w[x] = "DOWN"} = {x \in DOMAIN v : v[x] = "UP"}
  BY <1>1, <1>2, <1>3 DEF Sides
<1>5. For(w, "UP") = For(v, "DOWN") /\ For(w, "DOWN") = For(v, "UP")
  BY <1>4 DEF For
<1>6. PICK up \in Int, down \in Int : up = For(v, "UP") /\ down = For(v, "DOWN")
  <2>1. IsFiniteSet({"trend"} \cup {"slope"} \cup {"macd"} \cup {"rsi"})
    BY FS_Singleton, FS_Union
  <2>2. DOMAIN v = {"trend"} \cup {"slope"} \cup {"macd"} \cup {"rsi"}
    BY <1>2
  <2>3. IsFiniteSet(DOMAIN v)
    BY <2>1, <2>2
  <2>4. ASSUME NEW d PROVE For(v, d) \in Nat
    <3>1. {x \in DOMAIN v : v[x] = d} \in SUBSET DOMAIN v
      OBVIOUS
    <3>2. IsFiniteSet({x \in DOMAIN v : v[x] = d})
      BY <2>3, <3>1, FS_Subset
    <3>3. QED
      BY <3>2, FS_CardinalityType DEF For
  <2>5. QED
    BY <2>4
<1>7. CASE isRange
  BY <1>1, <1>7 DEF Decision
<1>8. CASE ~isRange /\ up > down
  <2>1. Decision(isRange, v) = "UP" /\ Decision(isRange, w) = "DOWN"
    BY <1>5, <1>6, <1>8 DEF Decision
  <2>2. QED
    BY <1>1, <2>1
<1>9. CASE ~isRange /\ down > up
  <2>1. Decision(isRange, v) = "DOWN" /\ Decision(isRange, w) = "UP"
    BY <1>5, <1>6, <1>9 DEF Decision
  <2>2. QED
    BY <1>1, <2>1
<1>10. CASE ~isRange /\ up = down
  <2>1. /\ Decision(isRange, v) = UpIf(v.slope = "UP")
        /\ Decision(isRange, w) = UpIf(w.slope = "UP")
    BY <1>5, <1>6, <1>10 DEF Decision
  <2>2. v.slope \in Sides
    BY DEF Ballots
  <2>3. QED
    BY <1>1, <2>1, <2>2 DEF UpIf, Sides
<1>11. QED
  BY <1>6, <1>7, <1>8, <1>9, <1>10

(* The opposite counter-reading: an extreme RSI is extreme on the other    *)
(* side, and nothing is outside of bands or ranges without a width.        *)
LEMMA CounterMirrored ==
  ASSUME NEW g \in Nat, NEW l \in Nat, ~(g = 0 /\ l = 0), NEW away \in Int, NEW square \in Nat,
         NEW atr \in Nat, NEW extension \in Int
  PROVE  Counter([gain |-> l, loss |-> g], -away, square, atr, -extension) =
         Opposite(Counter([gain |-> g, loss |-> l], away, square, atr, extension))
<1>1. /\ Opposite("UP") = "DOWN" /\ Opposite("DOWN") = "UP" /\ Opposite("NONE") = "NONE"
  BY DEF Opposite
<1>2. PICK rsi : rsi = [gain |-> g, loss |-> l]
  OBVIOUS
<1>3. PICK image : image = [gain |-> l, loss |-> g]
  OBVIOUS
<1>4. /\ RsiAtLeast(rsi, 70) <=> l = 0 \/ 30 * g >= 70 * l
      /\ RsiAtMost(rsi, 30) <=> l # 0 /\ 70 * g <= 30 * l
      /\ RsiAtLeast(image, 70) <=> g = 0 \/ 30 * l >= 70 * g
      /\ RsiAtMost(image, 30) <=> g # 0 /\ 70 * l <= 30 * g
  BY <1>2, <1>3 DEF RsiAtLeast, RsiAtMost
<1>5. /\ RsiAtLeast(image, 70) <=> RsiAtMost(rsi, 30)
      /\ RsiAtMost(image, 30) <=> RsiAtLeast(rsi, 70)
      /\ ~(RsiAtLeast(rsi, 70) /\ RsiAtMost(rsi, 30))
  BY <1>4
<1>6. PICK n \in Int, wide \in Int :
        n = away * away /\ n = (-away) * (-away) /\ wide = BandWidth * BandWidth * square /\ wide >= 0
  <2>1. away * away \in Int /\ (-away) * (-away) = away * away
    OBVIOUS
  <2>2. PICK k \in Nat : k = BandWidth * BandWidth
    BY Periods
  <2>3. k * square \in Nat
    OBVIOUS
  <2>4. QED
    BY <2>1, <2>2, <2>3
<1>7. n > wide => away # 0
  BY <1>6
<1>8. /\ Greatest(-extension, -(-extension)) = Greatest(extension, -extension)
      /\ atr > 0 /\ Greatest(extension, -extension) > 2 * atr => extension # 0
  BY DEF Greatest
<1>9. CASE RsiAtLeast(rsi, 70)
  <2>1. Counter(rsi, away, square, atr, extension) = "DOWN"
    BY <1>5, <1>9 DEF Counter
  <2>2. Counter(image, -away, square, atr, -extension) = "UP"
    BY <1>5, <1>9 DEF Counter
  <2>3. QED
    BY <1>1, <1>2, <1>3, <2>1, <2>2
<1>10. CASE RsiAtMost(rsi, 30)
  <2>1. Counter(rsi, away, square, atr, extension) = "UP"
    BY <1>5, <1>10 DEF Counter
  <2>2. Counter(image, -away, square, atr, -extension) = "DOWN"
    BY <1>5, <1>10 DEF Counter
  <2>3. QED
    BY <1>1, <1>2, <1>3, <2>1, <2>2
<1>11. CASE ~RsiAtLeast(rsi, 70) /\ ~RsiAtMost(rsi, 30)
  <2>1. Counter(rsi, away, square, atr, extension) =
          IF n > wide THEN (IF away > 0 THEN "DOWN" ELSE "UP")
          ELSE IF atr > 0 /\ Greatest(extension, -extension) > 2 * atr
               THEN (IF extension > 0 THEN "DOWN" ELSE "UP")
               ELSE "NONE"
    BY <1>6, <1>11 DEF Counter
  <2>2. Counter(image, -away, square, atr, -extension) =
          IF n > wide THEN (IF -away > 0 THEN "DOWN" ELSE "UP")
          ELSE IF atr > 0 /\ Greatest(extension, -extension) > 2 * atr
               THEN (IF -extension > 0 THEN "DOWN" ELSE "UP")
               ELSE "NONE"
    BY <1>5, <1>6, <1>8, <1>11 DEF Counter
  <2>3. CASE n > wide
    BY <1>1, <1>2, <1>3, <1>7, <2>1, <2>2, <2>3
  <2>4. CASE ~(n > wide) /\ atr > 0 /\ Greatest(extension, -extension) > 2 * atr
    BY <1>1, <1>2, <1>3, <1>8, <2>1, <2>2, <2>4
  <2>5. CASE ~(n > wide) /\ ~(atr > 0 /\ Greatest(extension, -extension) > 2 * atr)
    BY <1>1, <1>2, <1>3, <2>1, <2>2, <2>5
  <2>6. QED
    BY <2>3, <2>4, <2>5
<1>12. QED
  BY <1>9, <1>10, <1>11

(* What the last bar shows.                                                *)
Faces == [fast : Int, slow : Int, before : Int, macd : Int, gain : Nat, loss : Nat,
          atr : Nat, sum : Int, square : Nat]

Shown(s, n, d) ==
  /\ s.emaFast[n] = {d.fast} /\ s.emaSlow[n] = {d.slow} /\ s.emaFast[n - 1] = {d.before}
  /\ s.macd[n] = {d.macd} /\ s.rsi[n] = {[gain |-> d.gain, loss |-> d.loss]}
  /\ s.atr[n] = {d.atr} /\ s.bollinger[n] = {[sum |-> d.sum, square |-> d.square]}

Reversed(d, e) ==
  /\ e.fast = -d.fast /\ e.slow = -d.slow /\ e.before = -d.before /\ e.macd = -d.macd
  /\ e.gain = d.loss /\ e.loss = d.gain /\ e.atr = d.atr
  /\ e.sum = -d.sum /\ e.square = d.square

(* What it shows in a market and in its mirror image.                      *)
ShownTwice(s, t, n) ==
  \E d, e \in Faces : Shown(s, n, d) /\ Shown(t, n, e) /\ Reversed(d, e)

(* Every indicator is mirrored at the last bar.                            *)
LEMMA SeriesMirrored ==
  ASSUME NEW b \in Seq(Bars), NEW n \in Nat, n = Len(b), ValidBars(b)
  PROVE  ShownTwice(Series(b), Series(Mirrored(b)), n)
<1>1. PICK m : m = Mirrored(b)
  OBVIOUS
<1>2. /\ n \in EmaFast..n /\ n - 1 \in EmaFast..n /\ n \in EmaSlow..n
      /\ n \in (MacdSlow + MacdSignal)..n
      /\ n > WilderPeriod /\ n \in (WilderPeriod + 1)..n /\ n >= BandPeriod
  BY Periods DEF ValidBars
<1>3. /\ Mirror(Ema(Closes(b), EmaFast), Ema(Closes(m), EmaFast), EmaFast..n)
      /\ Mirror(Ema(Closes(b), EmaSlow), Ema(Closes(m), EmaSlow), EmaSlow..n)
  BY <1>1, Periods, AveragesMirrored
<1>4. PICK fast \in Int : Series(b).emaFast[n] = {fast} /\ Series(m).emaFast[n] = {-fast}
  BY <1>2, <1>3 DEF Mirror, Series
<1>5. PICK slow \in Int : Series(b).emaSlow[n] = {slow} /\ Series(m).emaSlow[n] = {-slow}
  BY <1>2, <1>3 DEF Mirror, Series
<1>6. PICK before \in Int :
        Series(b).emaFast[n - 1] = {before} /\ Series(m).emaFast[n - 1] = {-before}
  BY <1>2, <1>3 DEF Mirror, Series
<1>7. PICK macd \in Int : Series(b).macd[n] = {macd} /\ Series(m).macd[n] = {-macd}
  BY <1>1, <1>2, MacdMirrored DEF Mirror, Series
<1>8. PICK gain \in Nat, loss \in Nat : /\ Series(b).rsi[n] = {[gain |-> gain, loss |-> loss]}
                                        /\ Series(m).rsi[n] = {[gain |-> loss, loss |-> gain]}
  BY <1>1, <1>2, RsiMirrored DEF Series
<1>9. PICK atr \in Nat : Series(b).atr[n] = {atr} /\ Series(m).atr[n] = {atr}
  BY <1>1, <1>2, AtrMirrored DEF Counted, Series
<1>10. PICK sum \in Int, square \in Nat :
         /\ Series(b).bollinger[n] = {[sum |-> sum, square |-> square]}
         /\ Series(m).bollinger[n] = {[sum |-> -sum, square |-> square]}
  <2>1. PICK f, g : f = Bollinger(b) /\ g = Bollinger(m)
    OBVIOUS
  <2>2. BandsTwice(f, g, n)
    BY <1>1, <1>2, <2>1, BandsMirrored
  <2>3. Series(b).bollinger = f /\ Series(m).bollinger = g
    BY <2>1 DEF Series
  <2>4. QED
    BY <2>2, <2>3 DEF BandsTwice
<1>11. PICK d \in Faces :
         d = [fast |-> fast, slow |-> slow, before |-> before, macd |-> macd, gain |-> gain,
              loss |-> loss, atr |-> atr, sum |-> sum, square |-> square]
  BY DEF Faces
<1>12. PICK e \in Faces :
         e = [fast |-> -fast, slow |-> -slow, before |-> -before, macd |-> -macd, gain |-> loss,
              loss |-> gain, atr |-> atr, sum |-> -sum, square |-> square]
  <2>1. PICK fast2 \in Int, slow2 \in Int, before2 \in Int, macd2 \in Int, sum2 \in Int :
          /\ fast2 = -fast /\ slow2 = -slow /\ before2 = -before /\ macd2 = -macd
          /\ sum2 = -sum
    OBVIOUS
  <2>2. [fast |-> fast2, slow |-> slow2, before |-> before2, macd |-> macd2, gain |-> loss,
         loss |-> gain, atr |-> atr, sum |-> sum2, square |-> square] \in Faces
    BY DEF Faces
  <2>3. QED
    BY <2>1, <2>2
<1>13. Shown(Series(b), n, d)
  BY <1>4, <1>5, <1>6, <1>7, <1>8, <1>9, <1>10, <1>11 DEF Shown
<1>14. Shown(Series(m), n, e)
  BY <1>4, <1>5, <1>6, <1>7, <1>8, <1>9, <1>10, <1>12 DEF Shown
<1>15. Reversed(d, e)
  BY <1>11, <1>12 DEF Reversed
<1>16. ShownTwice(Series(b), Series(m), n)
  BY <1>13, <1>14, <1>15 DEF ShownTwice
<1>17. QED
  BY <1>1, <1>16

(* The conditions of the votes and of the range at the last bar.           *)
AboveSlow(d)  == d.fast > d.slow
Rising(d)     == d.fast - d.before > 0
Positive(d)   == d.macd > 0
Gaining(d)    == d.loss = 0 \/ d.gain >= d.loss
BallotOf(d) ==
  [trend |-> UpIf(AboveSlow(d)), slope |-> UpIf(Rising(d)),
   macd |-> UpIf(Positive(d)), rsi |-> UpIf(Gaining(d))]
Ranging(adx, d) ==
  d.atr > 0 /\ adx < 20 /\ 2 * Greatest(d.fast - d.slow, d.slow - d.fast) < d.atr

(* The votes and the range are those of what the last bar shows.           *)
LEMMA VotesShown ==
  ASSUME NEW s, NEW n, NEW d \in Faces, Shown(s, n, d)
  PROVE  VotesOf(s, n) = BallotOf(d) /\ RangeOf(s, n) = Ranging(The(s.adx[n]), d)
<1>1. /\ The(s.emaFast[n]) = d.fast /\ The(s.emaSlow[n]) = d.slow
      /\ The(s.macd[n]) = d.macd /\ The(s.atr[n]) = d.atr
  BY TheOnly DEF Shown
<1>2. PICK rsi : rsi = [gain |-> d.gain, loss |-> d.loss] /\ The(s.rsi[n]) = rsi
  BY TheOnly DEF Shown
<1>3. StepOf(s, n) = {d.fast - d.before}
  BY <1>1 DEF StepOf, Shown
<1>4. StepOf(s, n) # {} /\ The(StepOf(s, n)) = d.fast - d.before
  BY <1>3, TheOnly
<1>5. RsiAtLeast(rsi, 50) <=> d.loss = 0 \/ d.gain >= d.loss
  BY <1>2 DEF RsiAtLeast, Faces
<1>6. UpIf(RsiAtLeast(rsi, 50)) = UpIf(Gaining(d))
  BY <1>5 DEF UpIf, Gaining
<1>7. VotesOf(s, n) = BallotOf(d)
  BY <1>1, <1>2, <1>4, <1>6 DEF VotesOf, BallotOf, AboveSlow, Rising, Positive
<1>8. QED
  BY <1>1, <1>7 DEF RangeOf, Ranging

(* The ballots of a market and of its mirror image, off the thresholds.    *)
Decided(d) ==
  d.fast # d.slow /\ d.fast # d.before /\ d.macd # 0 /\ d.gain # d.loss

(* They decide the opposite.                                               *)
LEMMA BallotsReversed ==
  ASSUME NEW d \in Faces, NEW e \in Faces, Reversed(d, e), Decided(d), NEW isRange \in BOOLEAN
  PROVE  Decision(isRange, BallotOf(e)) = Opposite(Decision(isRange, BallotOf(d)))
<1>1. ASSUME NEW p \in BOOLEAN, NEW q \in BOOLEAN, q <=> ~p
      PROVE  UpIf(p) \in Sides /\ UpIf(q) \in Sides /\ UpIf(q) = Opposite(UpIf(p))
  BY <1>1 DEF UpIf, Opposite, Sides
<1>2. /\ AboveSlow(e) <=> ~AboveSlow(d)
      /\ Rising(e) <=> ~Rising(d)
      /\ Positive(e) <=> ~Positive(d)
      /\ Gaining(e) <=> ~Gaining(d)
  BY DEF Faces, Reversed, Decided, AboveSlow, Rising, Positive, Gaining
<1>3. /\ AboveSlow(d) \in BOOLEAN /\ AboveSlow(e) \in BOOLEAN
      /\ Rising(d) \in BOOLEAN /\ Rising(e) \in BOOLEAN
      /\ Positive(d) \in BOOLEAN /\ Positive(e) \in BOOLEAN
      /\ Gaining(d) \in BOOLEAN /\ Gaining(e) \in BOOLEAN
  BY DEF AboveSlow, Rising, Positive, Gaining
<1>4. /\ UpIf(AboveSlow(d)) \in Sides /\ UpIf(AboveSlow(e)) \in Sides
      /\ UpIf(AboveSlow(e)) = Opposite(UpIf(AboveSlow(d)))
  BY Zenon, <1>1, <1>2, <1>3
<1>5. /\ UpIf(Rising(d)) \in Sides /\ UpIf(Rising(e)) \in Sides
      /\ UpIf(Rising(e)) = Opposite(UpIf(Rising(d)))
  BY Zenon, <1>1, <1>2, <1>3
<1>6. /\ UpIf(Positive(d)) \in Sides /\ UpIf(Positive(e)) \in Sides
      /\ UpIf(Positive(e)) = Opposite(UpIf(Positive(d)))
  BY Zenon, <1>1, <1>2, <1>3
<1>7. /\ UpIf(Gaining(d)) \in Sides /\ UpIf(Gaining(e)) \in Sides
      /\ UpIf(Gaining(e)) = Opposite(UpIf(Gaining(d)))
  BY Zenon, <1>1, <1>2, <1>3
<1>8. PICK v : v = BallotOf(d)
  OBVIOUS
<1>9. PICK w : w = BallotOf(e)
  OBVIOUS
<1>10. v \in Ballots /\ w \in Ballots
  BY <1>4, <1>5, <1>6, <1>7, <1>8, <1>9 DEF BallotOf, Ballots
<1>11. /\ w.trend = Opposite(v.trend) /\ w.slope = Opposite(v.slope)
       /\ w.macd = Opposite(v.macd) /\ w.rsi = Opposite(v.rsi)
  BY <1>4, <1>5, <1>6, <1>7, <1>8, <1>9 DEF BallotOf
<1>12. Decision(isRange, w) = Opposite(Decision(isRange, v))
  BY <1>10, <1>11, MajorityMirrored
<1>13. QED
  BY <1>8, <1>9, <1>12

(* The counter-reading at the last bar.                                    *)
CounterAt(d, close) ==
  Counter([gain |-> d.gain, loss |-> d.loss], BandPeriod * close - d.sum, d.square, d.atr,
          Scale * close - d.fast)

(* The counter-reading is that of what the last bar shows.                 *)
LEMMA CounterShown ==
  ASSUME NEW b, NEW s, NEW d, Shown(s, Len(b), d)
  PROVE  CounterReading(b, s) = CounterAt(d, b[Len(b)].close)
<1>0. PICK n, close : n = Len(b) /\ close = b[n].close
  OBVIOUS
<1>1. /\ The(s.rsi[n]) = [gain |-> d.gain, loss |-> d.loss]
      /\ The(s.bollinger[n]) = [sum |-> d.sum, square |-> d.square]
      /\ The(s.emaFast[n]) = d.fast /\ The(s.atr[n]) = d.atr
  BY <1>0, TheOnly DEF Shown
<1>2. The(s.bollinger[n]).sum = d.sum /\ The(s.bollinger[n]).square = d.square
  BY <1>1
<1>3. CounterReading(b, s) =
        Counter(The(s.rsi[n]), BandPeriod * close - The(s.bollinger[n]).sum,
                The(s.bollinger[n]).square, The(s.atr[n]), Scale * close - The(s.emaFast[n]))
  BY <1>0, CounterIs
<1>4. CounterReading(b, s) = CounterAt(d, close)
  BY <1>1, <1>2, <1>3 DEF CounterAt
<1>5. QED
  BY <1>0, <1>4

(* It is turned around, unless the market has never moved.                 *)
LEMMA CounterReversed ==
  ASSUME NEW d \in Faces, NEW e \in Faces, Reversed(d, e), ~(d.gain = 0 /\ d.loss = 0),
         NEW close \in Int
  PROVE  CounterAt(e, -close) = Opposite(CounterAt(d, close))
<1>1. BandPeriod \in Int /\ Scale \in Int
  BY Periods
<1>2. PICK gain \in Nat, loss \in Nat, sum \in Int, square \in Nat, atr \in Nat, fast \in Int :
        /\ gain = d.gain /\ loss = d.loss /\ sum = d.sum /\ square = d.square /\ atr = d.atr
        /\ fast = d.fast
  BY DEF Faces
<1>3. /\ e.gain = loss /\ e.loss = gain /\ e.sum = -sum /\ e.square = square /\ e.atr = atr
      /\ e.fast = -fast
  BY <1>2 DEF Reversed
<1>4. PICK x \in Int : BandPeriod * close = x /\ BandPeriod * (-close) = -x
  BY <1>1
<1>5. PICK y \in Int : Scale * close = y /\ Scale * (-close) = -y
  BY <1>1
<1>6. PICK away \in Int : x - sum = away /\ -x - (-sum) = -away
  OBVIOUS
<1>7. PICK extension \in Int : y - fast = extension /\ -y - (-fast) = -extension
  OBVIOUS
<1>8. CounterAt(d, close) = Counter([gain |-> gain, loss |-> loss], away, square, atr, extension)
  BY <1>2, <1>4, <1>5, <1>6, <1>7 DEF CounterAt
<1>9. CounterAt(e, -close) =
        Counter([gain |-> loss, loss |-> gain], -away, square, atr, -extension)
  BY <1>3, <1>4, <1>5, <1>6, <1>7 DEF CounterAt
<1>10. QED
  BY <1>2, <1>8, <1>9, CounterMirrored

(* A reading and that of the mirror image of its market.                   *)
Unbiased(r) ==
  LET mirror == Reading(Mirrored(r.bars)) IN
  /\ mirror.head.isRange = r.head.isRange
  /\ OnThreshold(r) \/ mirror.head.direction = Opposite(r.head.direction)
  /\ Motionless(r) \/ mirror.counter = Opposite(r.counter)

(* Every reading is unbiased.                                              *)
LEMMA ReadingUnbiased ==
  ASSUME NEW b \in Seq(Bars), ValidBars(b)
  PROVE  Unbiased(Reading(b))
<1>1. PICK n \in Nat : n = Len(b)
  OBVIOUS
<1>2. PICK m : m = Mirrored(b)
  OBVIOUS
<1>3. PICK s : s = Series(b)
  OBVIOUS
<1>4. PICK t : t = Series(m)
  OBVIOUS
<1>5. ShownTwice(s, t, n)
  BY <1>1, <1>2, <1>3, <1>4, SeriesMirrored
<1>6. PICK d \in Faces, e \in Faces : Shown(s, n, d) /\ Shown(t, n, e) /\ Reversed(d, e)
  BY <1>5 DEF ShownTwice
<1>7. Len(m) = n
  BY <1>1, <1>2, MirroredBars DEF Inverted
<1>8. PICK r : r = Reading(b)
  OBVIOUS
<1>9. /\ r.bars = b /\ r.series = s
      /\ r.head = TechnicalDirection(b, s) /\ r.counter = CounterReading(b, s)
  BY <1>3, <1>8 DEF Reading
<1>10. PICK mirror : mirror = Reading(m)
  OBVIOUS
<1>11. mirror.head = TechnicalDirection(m, t) /\ mirror.counter = CounterReading(m, t)
  BY <1>4, <1>10 DEF Reading
<1>12. PICK adx : adx = The(s.adx[n]) /\ adx = The(t.adx[n])
  <2>1. t.adx = s.adx
    BY <1>2, <1>3, <1>4, AdxMirrored DEF Series
  <2>2. QED
    BY <2>1
<1>13. PICK isRange \in BOOLEAN : isRange = RangeOf(s, n) /\ isRange = RangeOf(t, n)
  <2>1. RangeOf(s, n) = Ranging(adx, d)
    BY <1>6, <1>12, VotesShown
  <2>2. RangeOf(t, n) = Ranging(adx, e)
    BY <1>6, <1>12, VotesShown
  <2>3. Greatest(e.fast - e.slow, e.slow - e.fast) = Greatest(d.fast - d.slow, d.slow - d.fast)
    <3>1. PICK fast \in Int, slow \in Int : d.fast = fast /\ d.slow = slow
      BY DEF Faces
    <3>2. e.fast = -fast /\ e.slow = -slow
      BY <1>6, <3>1 DEF Reversed
    <3>3. PICK gap \in Int : fast - slow = gap /\ slow - fast = -gap
      OBVIOUS
    <3>4. (-fast) - (-slow) = -gap /\ (-slow) - (-fast) = gap
      BY <3>3
    <3>5. QED
      BY <3>1, <3>2, <3>3, <3>4 DEF Greatest
  <2>4. Ranging(adx, e) = Ranging(adx, d) /\ Ranging(adx, d) \in BOOLEAN
    BY <1>6, <2>3 DEF Ranging, Reversed
  <2>5. QED
    BY <2>1, <2>2, <2>4
<1>14. mirror.head.isRange = r.head.isRange
  <2>1. r.head.isRange = RangeOf(s, n)
    BY <1>1, <1>9, HeadIs
  <2>2. mirror.head.isRange = RangeOf(t, n)
    BY <1>7, <1>11, HeadIs
  <2>3. QED
    BY <1>13, <2>1, <2>2
<1>15. The(s.rsi[n]) = [gain |-> d.gain, loss |-> d.loss]
  BY <1>6, TheOnly DEF Shown
<1>16. ASSUME ~OnThreshold(r) PROVE mirror.head.direction = Opposite(r.head.direction)
  <2>1. /\ s.emaFast[n] # s.emaSlow[n] /\ s.emaFast[n] # s.emaFast[n - 1] /\ s.macd[n] # {0}
        /\ The(s.rsi[n]).gain # The(s.rsi[n]).loss
    BY <1>1, <1>9, <1>16 DEF OnThreshold
  <2>2. Decided(d)
    BY <1>6, <1>15, <2>1 DEF Shown, Decided
  <2>3. Decision(isRange, BallotOf(e)) = Opposite(Decision(isRange, BallotOf(d)))
    BY <1>6, <2>2, BallotsReversed
  <2>4. VotesOf(s, n) = BallotOf(d) /\ VotesOf(t, n) = BallotOf(e)
    BY <1>6, VotesShown
  <2>5. r.head.direction = Decision(isRange, BallotOf(d))
    BY <1>1, <1>9, <1>13, <2>4, HeadIs
  <2>6. mirror.head.direction = Decision(isRange, BallotOf(e))
    BY <1>7, <1>11, <1>13, <2>4, HeadIs
  <2>7. QED
    BY <2>3, <2>5, <2>6
<1>17. ASSUME ~Motionless(r) PROVE mirror.counter = Opposite(r.counter)
  <2>1. ~(d.gain = 0 /\ d.loss = 0)
    BY <1>1, <1>9, <1>15, <1>17 DEF Motionless
  <2>2. n \in 1..n
    BY <1>1, Periods DEF ValidBars
  <2>3. PICK close \in Int : b[n].close = close /\ m[n].close = -close
    BY <1>1, <1>2, <2>2, MirroredBars DEF Inverted
  <2>4. r.counter = CounterAt(d, close)
    <3>1. Shown(s, Len(b), d)
      BY <1>1, <1>6
    <3>2. CounterReading(b, s) = CounterAt(d, b[Len(b)].close)
      BY <3>1, CounterShown
    <3>3. QED
      BY <1>1, <1>9, <2>3, <3>2
  <2>5. mirror.counter = CounterAt(e, -close)
    <3>1. Shown(t, Len(m), e)
      BY <1>6, <1>7
    <3>2. CounterReading(m, t) = CounterAt(e, m[Len(m)].close)
      BY <3>1, CounterShown
    <3>3. QED
      BY <1>7, <1>11, <2>3, <3>2
  <2>6. QED
    BY <1>6, <2>1, <2>4, <2>5, CounterReversed
<1>18. Unbiased(r)
  BY <1>2, <1>9, <1>10, <1>14, <1>16, <1>17 DEF Unbiased
<1>19. QED
  BY <1>8, <1>18

(* The highest or lowest of the fields of some bars is an integer.         *)
LEMMA ExtremeTyped ==
  ASSUME NEW n \in Nat \ {0}, NEW f, \A i \in 1..n : f[i] \in Int
  PROVE  Max({f[i] : i \in 1..n}) \in Int /\ Min({f[i] : i \in 1..n}) \in Int
<1>1. PICK T : T = {f[i] : i \in 1..n}
  OBVIOUS
<1>2. IsFiniteSet(1..n)
  BY FS_Interval
<1>3. IsFiniteSet(T)
  BY <1>1, <1>2, ImageFinite
<1>4. T \in SUBSET Int
  BY <1>1
<1>5. T # {}
  <2>1. 1 \in 1..n
    OBVIOUS
  <2>2. QED
    BY <1>1, <2>1
<1>6. \E x \in T : \A y \in T : x >= y
  <2>1. PICK x \in T : \A y \in T : y <= x
    BY <1>3, <1>4, <1>5, GreatestInteger
  <2>2. \A y \in T : x \in Int /\ y \in Int
    BY <1>4
  <2>3. QED
    BY <2>1, <2>2
<1>7. \E x \in T : \A y \in T : x <= y
  BY <1>3, <1>4, <1>5, LeastInteger
<1>8. Max(T) \in T /\ Min(T) \in T
  BY <1>6, <1>7 DEF Max, Min
<1>9. QED
  BY <1>1, <1>4, <1>8

(* A week of bars is a bar.                                                *)
LEMMA WeekIsBar ==
  ASSUME NEW days \in Seq(Bars), NEW k \in Nat \ {0}, k * DaysPerWeek <= Len(days)
  PROVE  Week(days, k) \in Bars
<1>1. PICK w \in Nat \ {0} : w = DaysPerWeek
  BY MarketAssumption
<1>2. PICK from \in Nat, to \in Nat :
        /\ from = (k - 1) * w + 1 /\ to = k * w /\ from >= 1 /\ to <= Len(days)
        /\ to - from + 1 = w
  <2>1. k * w \in Nat /\ (k - 1) * w = k * w - w /\ (k - 1) * w \in Nat
    OBVIOUS
  <2>2. QED
    BY <1>1, <2>1
<1>3. PICK of : of = SubSeq(days, from, to)
  OBVIOUS
<1>4. of = [i \in 1..w |-> days[from + i - 1]]
  BY <1>2, <1>3
<1>5. DOMAIN of = 1..w /\ \A i \in 1..w : of[i] \in Bars
  <2>1. \A i \in 1..w : from + i - 1 \in 1..Len(days)
    BY <1>2
  <2>2. QED
    BY <1>4, <2>1
<1>6. of[w].close \in Int
  BY <1>5 DEF Bars
<1>7. PICK high, low : high = [i \in 1..w |-> of[i].high] /\ low = [i \in 1..w |-> of[i].low]
  OBVIOUS
<1>8. \A i \in 1..w : high[i] \in Int /\ low[i] \in Int
  BY <1>5, <1>7 DEF Bars
<1>9. Max({high[i] : i \in 1..w}) \in Int /\ Min({low[i] : i \in 1..w}) \in Int
  BY <1>8, ExtremeTyped
<1>10. /\ {of[i].high : i \in DOMAIN of} = {high[i] : i \in 1..w}
       /\ {of[i].low : i \in DOMAIN of} = {low[i] : i \in 1..w}
  BY <1>5, <1>7
<1>11. Week(days, k) = [close |-> of[w].close, high |-> Max({high[i] : i \in 1..w}),
                        low |-> Min({low[i] : i \in 1..w})]
  BY <1>1, <1>2, <1>3, <1>10 DEF Week
<1>12. QED
  BY <1>6, <1>9, <1>11 DEF Bars

(* The bars of either timeframe are bars.                                  *)
LEMMA BarsTyped ==
  ASSUME NEW days \in Seq(Bars), NEW timeframe
  PROVE  BarsOf(days, timeframe) \in Seq(Bars)
<1>1. CASE timeframe = "D1"
  BY <1>1 DEF BarsOf
<1>2. CASE timeframe # "D1"
  <2>1. DaysPerWeek \in Nat \ {0}
    BY MarketAssumption
  <2>2. PICK weeks \in Nat : weeks = Len(days) \div DaysPerWeek /\ weeks * DaysPerWeek <= Len(days)
    BY <2>1
  <2>3. ASSUME NEW k \in 1..weeks PROVE Week(days, k) \in Bars
    <3>1. k * DaysPerWeek <= weeks * DaysPerWeek
      BY <2>1
    <3>2. k * DaysPerWeek <= Len(days)
      BY <2>1, <2>2, <3>1
    <3>3. QED
      BY <3>2, WeekIsBar
  <2>4. BarsOf(days, timeframe) = [k \in 1..weeks |-> Week(days, k)]
    BY <1>2, <2>2 DEF BarsOf
  <2>5. QED
    BY <2>3, <2>4
<1>3. QED
  BY <1>1, <1>2

(* The channel has no side: every answer that was ever given would have    *)
(* been the opposite one in the mirrored market, save where a vote is on   *)
(* its threshold or the market has never moved.                            *)
THEOREM ChannelIsUnbiased == Spec => []UnbiasedReading
<1>1. ReadFromThePast => UnbiasedReading
  <2> SUFFICES ASSUME ReadFromThePast, NEW answer \in response, NEW i \in DOMAIN answer.readings
               PROVE  Unbiased(answer.readings[i].technical)
    BY Zenon DEF UnbiasedReading, Unbiased
  <2>1. PICK days \in Seq(Bars) : ReadFrom(answer, days)
    BY DEF ReadFromThePast
  <2>2. PICK b : b = BarsOf(days, answer.readings[i].timeframe)
    OBVIOUS
  <2>3. answer.readings[i].technical = Reading(b) /\ ValidBars(b)
    BY <2>1, <2>2 DEF ReadFrom
  <2>4. b \in Seq(Bars)
    BY <2>2, BarsTyped
  <2>5. QED
    BY <2>3, <2>4, ReadingUnbiased
<1>2. QED
  BY <1>1, ReadFromThePastAlways, PTL

=============================================================================
