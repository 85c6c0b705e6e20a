------------------------- MODULE WalkForwardProofs -------------------------
(***************************************************************************)
(* Theorem about WalkForward: for every horizon, barrier, corpus and       *)
(* market that goes on after it, no later audit rewrites an earlier one.   *)
(*                                                                         *)
(* The argument: a bar that is still to come decides only labels that      *)
(* mature after every query there is, so that it changes no library that a *)
(* vote was taken from, and no row before the split.                       *)
(***************************************************************************)
EXTENDS WalkForward, CommonProofs

-----------------------------------------------------------------------------
(* Labels                                                                  *)

(* The market and the feature source go on.                                *)
Growth ==
  /\ at' = at
  /\ Len(moves) \in Nat /\ Len(moves)' \in Nat /\ Len(moves) <= Len(moves)'
  /\ \A k \in 1..Len(moves) : moves'[k] = moves[k]
  /\ frames \in Nat /\ frames' \in Nat /\ frames <= frames' /\ frames <= Len(moves)

(* Past moves do not change.                                               *)
LEMMA TravelKept ==
  ASSUME Growth, NEW i \in Nat, NEW j \in Nat, j <= Labelled
  PROVE  Travel(i, j)' = Travel(i, j)
<1>1. PICK S : S = (i + 1)..j
  OBVIOUS
<1>2. IsFiniteSet(S)
  BY <1>1, FS_Interval
<1>3. PICK v, w : v = moves /\ w = moves'
  OBVIOUS
<1>4. \A k \in S : k \in 1..Len(moves)
  BY <1>1 DEF Growth, Labelled
<1>5. Same(w, v, S)
  BY <1>3, <1>4 DEF Growth, Same
<1>6. SumFunctionOnSet(w, S) = SumFunctionOnSet(v, S)
  BY <1>2, <1>5, SumAgrees
<1>7. QED
  BY <1>1, <1>3, <1>6 DEF Travel

(* The first of a set of numbers.                                          *)
LEMMA FirstIs ==
  ASSUME NEW S \in SUBSET Nat, NEW x \in S, \A y \in S : x <= y
  PROVE  First(S) = x
<1>1. \A y \in S : (\A z \in S : y <= z) => y = x
  <2> SUFFICES ASSUME NEW y \in S, \A z \in S : y <= z PROVE y = x
    OBVIOUS
  <2>1. y <= x /\ x <= y /\ x \in Nat /\ y \in Nat
    OBVIOUS
  <2>2. QED
    BY <2>1
<1>2. QED
  BY <1>1 DEF First

(* A label matures after its snapshot, and when it is known.               *)
LEMMA OutcomeShape ==
  ASSUME NEW i \in Nat, Len(moves) \in Nat
  PROVE  \A o \in Outcome(i) : /\ o.matures \in Nat /\ i < o.matures /\ o.matures <= Labelled
                               /\ Outcome(i) = {o}
<1>1. PICK n \in Nat, h \in Nat \ {0} : n = Labelled /\ h = Horizon
  BY HorizonAssumption DEF Labelled
<1>2. PICK T : T = Touches(i)
  OBVIOUS
<1>3. T \in SUBSET Nat /\ \A j \in T : i < j /\ j <= n
  BY <1>1, <1>2 DEF Touches, Least
<1>4. CASE T # {}
  <2>1. PICK f \in T : \A y \in T : f <= y
    BY <1>3, <1>4, LeastNatural
  <2>2. First(T) = f
    BY <1>3, <2>1, FirstIs
  <2>3. PICK o : /\ o = [direction |-> IF Travel(i, f) > 0 THEN "UP" ELSE "DOWN", matures |-> f]
                 /\ Outcome(i) = {o}
    BY <1>2, <1>4, <2>2 DEF Outcome
  <2>4. o.matures = f
    BY <2>3
  <2>5. QED
    BY <1>1, <1>3, <2>3, <2>4
<1>5. CASE T = {} /\ i + h <= n
  <2>1. PICK o : o = [direction |-> "RANGE", matures |-> i + h] /\ Outcome(i) = {o}
    BY <1>1, <1>2, <1>5 DEF Outcome
  <2>2. o.matures = i + h
    BY <2>1
  <2>3. QED
    BY <1>1, <1>5, <2>1, <2>2
<1>6. CASE T = {} /\ ~(i + h <= n)
  BY <1>1, <1>2, <1>6 DEF Outcome
<1>7. QED
  BY <1>4, <1>5, <1>6

(* A label does not change; one that is new matures after all bars there   *)
(* were.                                                                   *)
LEMMA OutcomeKept ==
  ASSUME Growth, NEW i \in Nat
  PROVE  /\ Outcome(i) # {} => Outcome(i)' = Outcome(i)
         /\ Outcome(i) = {} =>
              \A o \in Outcome(i)' : o.matures \in Nat /\ o.matures > Labelled
<1>1. PICK m \in Nat, n \in Nat, h \in Nat \ {0} :
        m = Labelled /\ n = Labelled' /\ h = Horizon /\ m <= n
  BY HorizonAssumption DEF Labelled, Growth
<1>2. PICK T : T = Touches(i)
  OBVIOUS
<1>3. PICK U : U = Touches(i)'
  OBVIOUS
<1>4. T = {j \in (i + 1)..Least(i + h, m) : Travel(i, j) >= Barrier \/ Travel(i, j) <= -Barrier}
  BY <1>1, <1>2 DEF Touches
<1>5. U = {j \in (i + 1)..Least(i + h, n) : Travel(i, j)' >= Barrier \/ Travel(i, j)' <= -Barrier}
  BY <1>1, <1>3 DEF Touches
<1>6. T \in SUBSET Nat /\ U \in SUBSET Nat /\ (\A j \in T : j <= m) /\ \A j \in U : j <= i + h
  BY <1>1, <1>4, <1>5 DEF Least
<1>7. \A j \in Nat : j <= m => Travel(i, j)' = Travel(i, j)
  BY <1>1, TravelKept
<1>8. \A j \in T : j \in U
  BY <1>1, <1>4, <1>5, <1>7 DEF Least
<1>9. \A j \in U : j <= m => j \in T
  BY <1>1, <1>4, <1>5, <1>7 DEF Least
<1>10. CASE T # {}
  <2>1. PICK f \in T : \A y \in T : f <= y
    BY <1>6, <1>10, LeastNatural
  <2>2. \A y \in U : f <= y
    BY <2>1, <1>1, <1>6, <1>9
  <2>3. First(T) = f /\ First(U) = f /\ U # {}
    BY <1>6, <1>8, <2>1, <2>2, FirstIs
  <2>4. Travel(i, f)' = Travel(i, f)
    BY <1>6, <1>7, <2>1
  <2>5. Outcome(i) =
          {[direction |-> IF Travel(i, f) > 0 THEN "UP" ELSE "DOWN", matures |-> f]}
    BY <1>2, <1>10, <2>3 DEF Outcome
  <2>6. Outcome(i)' =
          {[direction |-> IF Travel(i, f)' > 0 THEN "UP" ELSE "DOWN", matures |-> f]}
    BY <1>3, <2>3 DEF Outcome
  <2>7. QED
    BY <2>4, <2>5, <2>6
<1>11. CASE T = {} /\ i + h <= m
  <2>1. U = {}
    BY <1>1, <1>6, <1>9, <1>11
  <2>2. i + h <= n
    BY <1>1, <1>11
  <2>3. Outcome(i) = {[direction |-> "RANGE", matures |-> i + h]}
    BY <1>1, <1>2, <1>11 DEF Outcome
  <2>4. Outcome(i)' = {[direction |-> "RANGE", matures |-> i + h]}
    BY <1>1, <1>3, <2>1, <2>2 DEF Outcome
  <2>5. QED
    BY <2>3, <2>4
<1>12. CASE T = {} /\ ~(i + h <= m)
  <2>1. Outcome(i) = {}
    BY <1>1, <1>2, <1>12 DEF Outcome
  <2>2. ASSUME NEW o \in Outcome(i)' PROVE o.matures \in Nat /\ o.matures > m
    <3>1. CASE U # {}
      <4>1. PICK f \in U : \A y \in U : f <= y
        BY <1>6, <3>1, LeastNatural
      <4>2. First(U) = f
        BY <1>6, <4>1, FirstIs
      <4>3. o = [direction |-> IF Travel(i, f)' > 0 THEN "UP" ELSE "DOWN", matures |-> f]
        BY <1>3, <3>1, <4>2, <2>2 DEF Outcome
      <4>4. o.matures = f
        BY <4>3
      <4>5. QED
        BY <4>4, <1>1, <1>6, <1>9, <1>12
    <3>2. CASE U = {}
      <4>1. o = [direction |-> "RANGE", matures |-> i + h]
        BY <1>1, <1>3, <3>2, <2>2 DEF Outcome
      <4>2. o.matures = i + h
        BY <4>1
      <4>3. QED
        BY <4>2, <1>1, <1>12
    <3>3. QED
      BY <3>1, <3>2
  <2>3. QED
    BY <1>1, <2>1, <2>2
<1>13. QED
  BY <1>10, <1>11, <1>12

-----------------------------------------------------------------------------
(* Rows and libraries                                                      *)

(* A row is that of its bar and its label.                                 *)
LEMMA RowsAre ==
  ASSUME NEW bars, bars \subseteq Nat, frames \in Nat, Len(moves) \in Nat
  PROVE  /\ \A r \in Rows(bars) : /\ r.bar \in bars /\ r.bar \in 1..frames
                                  /\ r.matures \in Nat /\ r.bar < r.matures
                                  /\ \E o \in Outcome(r.bar) :
                                       r = Row(r.bar, o) /\ o.matures = r.matures
         /\ \A i \in bars : \A o \in Outcome(i) : i \in 1..frames => Row(i, o) \in Rows(bars)
<1>1. ASSUME NEW r \in Rows(bars)
      PROVE  /\ r.bar \in bars /\ r.bar \in 1..frames
             /\ r.matures \in Nat /\ r.bar < r.matures
             /\ \E o \in Outcome(r.bar) : r = Row(r.bar, o) /\ o.matures = r.matures
  <2>1. PICK i \in bars \cap 1..frames : \E o \in Outcome(i) : r = Row(i, o)
    BY <1>1 DEF Rows
  <2>2. PICK o \in Outcome(i) : r = Row(i, o)
    BY <2>1
  <2>3. r.bar = i /\ r.matures = o.matures
    BY <2>2 DEF Row
  <2>4. o.matures \in Nat /\ i < o.matures
    BY <2>1, <2>2, OutcomeShape
  <2>5. QED
    BY <2>1, <2>2, <2>3, <2>4
<1>2. \A i \in bars : \A o \in Outcome(i) : i \in 1..frames => Row(i, o) \in Rows(bars)
  BY DEF Rows
<1>3. QED
  BY <1>1, <1>2

(* Rows stay; a new one is of a new bar, or of one that had no label and   *)
(* matures after all bars there were.                                      *)
LEMMA RowsKept ==
  ASSUME Growth, NEW old, NEW new, old \subseteq new, new \subseteq Nat
  PROVE  /\ Rows(old) \subseteq Rows(new)'
         /\ \A r \in Rows(new)' :
              /\ r.bar \in new /\ r.bar \in 1..frames'
              /\ \/ r.bar \notin old
                 \/ r \in Rows(old)
                 \/ r.bar > frames
                 \/ Outcome(r.bar) = {} /\ r.matures \in Nat /\ r.matures > Labelled
<1>1. \A i, o : Row(i, o)' = Row(i, o)
  BY DEF Growth, Row
<1>2. old \subseteq Nat /\ frames \in Nat /\ frames' \in Nat /\ frames <= frames'
      /\ Len(moves) \in Nat /\ Len(moves)' \in Nat
  BY DEF Growth
<1>3. ASSUME NEW r \in Rows(old) PROVE r \in Rows(new)'
  <2>1. PICK i \in old \cap 1..frames : \E o \in Outcome(i) : r = Row(i, o)
    BY <1>3 DEF Rows
  <2>2. PICK o \in Outcome(i) : r = Row(i, o)
    BY <2>1
  <2>3. Outcome(i)' = Outcome(i)
    BY <1>2, <2>1, <2>2, OutcomeKept
  <2>4. i \in new \cap 1..frames'
    BY <1>2, <2>1
  <2>5. o \in Outcome(i)' /\ r = Row(i, o)'
    BY <1>1, <2>2, <2>3
  <2>6. QED
    BY <2>4, <2>5 DEF Rows
<1>4. ASSUME NEW r \in Rows(new)'
      PROVE  /\ r.bar \in new /\ r.bar \in 1..frames'
             /\ \/ r.bar \notin old
                \/ r \in Rows(old)
                \/ r.bar > frames
                \/ Outcome(r.bar) = {} /\ r.matures \in Nat /\ r.matures > Labelled
  <2>1. PICK i \in new \cap 1..frames' : \E o \in Outcome(i)' : r = Row(i, o)'
    BY <1>4 DEF Rows
  <2>2. PICK o \in Outcome(i)' : r = Row(i, o)
    BY <1>1, <2>1
  <2>3. r.bar = i /\ r.matures = o.matures /\ i \in Nat
    BY <2>1, <2>2 DEF Row
  <2>4. CASE Outcome(i) = {}
    BY <2>1, <2>2, <2>3, <2>4, OutcomeKept
  <2>5. CASE Outcome(i) # {} /\ i \in old /\ i <= frames
    <3>1. o \in Outcome(i)
      BY <2>2, <2>3, <2>5, OutcomeKept
    <3>2. i \in old \cap 1..frames
      BY <1>2, <2>1, <2>5
    <3>3. QED
      BY <2>1, <2>2, <2>3, <3>1, <3>2 DEF Rows
  <2>6. CASE i \notin old \/ ~(i <= frames)
    BY <1>2, <2>1, <2>3, <2>6
  <2>7. QED
    BY <2>4, <2>5, <2>6
<1>5. QED
  BY <1>3, <1>4

(* What is added to a library neither precedes the query nor matures       *)
(* before it.                                                              *)
LEMMA SameLibrary ==
  ASSUME NEW query, NEW rows, NEW more, rows \subseteq more,
         \A r \in more : r \in rows \/ ~(r.bar < query.bar) \/ ~(r.matures < query.bar)
  PROVE  CausalLibrary(query, rows) = CausalLibrary(query, more)
BY DEF CausalLibrary

(* Scores stay when rows are added that no query could learn from.         *)
LEMMA ScoresKept ==
  ASSUME NEW queries, NEW pool, NEW more, NEW larger, NEW estimator,
         queries \subseteq more, pool \subseteq larger,
         \A q \in queries : \A r \in larger \cup more :
           r \in pool \cup queries \/ ~(r.bar < q.bar) \/ ~(r.matures < q.bar)
  PROVE  WalkForward(queries, pool, estimator) \subseteq WalkForward(more, larger, estimator)
<1>1. PICK rows, all : rows = pool \cup queries /\ all = larger \cup more
  OBVIOUS
<1>2. ASSUME NEW q \in queries PROVE CausalLibrary(q, rows) = CausalLibrary(q, all)
  <2>1. rows \subseteq all
    BY <1>1
  <2>2. \A r \in all : r \in rows \/ ~(r.bar < q.bar) \/ ~(r.matures < q.bar)
    BY <1>1
  <2>3. QED
    BY <2>1, <2>2, SameLibrary
<1>3. WalkForward(queries, pool, estimator)
        = {Score(q, Chronological(CausalLibrary(q, rows)), estimator) : q \in queries}
  BY <1>1 DEF WalkForward
<1>4. WalkForward(more, larger, estimator)
        = {Score(q, Chronological(CausalLibrary(q, all)), estimator) : q \in more}
  BY <1>1 DEF WalkForward
<1>5. QED
  BY <1>2, <1>3, <1>4

-----------------------------------------------------------------------------
(* The profile                                                             *)

(* IntegerSqrt is the greatest root.                                       *)
LEMMA RootIs ==
  ASSUME NEW n \in Nat
  PROVE  /\ IntegerSqrt(n) \in Nat
         /\ IntegerSqrt(n) * IntegerSqrt(n) <= n
         /\ n < (IntegerSqrt(n) + 1) * (IntegerSqrt(n) + 1)
         /\ n > 0 => IntegerSqrt(n) > 0
<1>1. PICK S : S = {r \in 1..n : r * r <= n}
  OBVIOUS
<1>2. S \in SUBSET Nat /\ IsFiniteSet(S)
  <2>1. IsFiniteSet(1..n)
    BY FS_Interval
  <2>2. S \in SUBSET (1..n)
    BY <1>1
  <2>3. IsFiniteSet(S)
    BY <2>1, <2>2, FS_Subset
  <2>4. QED
    BY <2>2, <2>3
<1>3. CASE S = {}
  <2>1. IntegerSqrt(n) = 0
    BY <1>1, <1>3, FS_EmptySet DEF IntegerSqrt
  <2>2. n = 0
    <3>1. n > 0 => 1 \in 1..n /\ 1 * 1 <= n
      OBVIOUS
    <3>2. QED
      BY <3>1, <1>1, <1>3
  <2>3. QED
    BY <2>1, <2>2
<1>4. CASE S # {}
  <2>1. PICK m \in S : \A x \in S : x <= m
    BY <1>2, <1>4, FiniteGreatest
  <2>2. m \in 1..n /\ m * m <= n
    BY <1>1, <2>1
  <2>3. \A x \in 1..m : x \in S
    <3> SUFFICES ASSUME NEW x \in 1..m PROVE x \in 1..n /\ x * x <= n
      BY <1>1
    <3>1. x * x <= m * m
      <4>1. PICK d \in Nat : m = x + d
        <5>1. m - x \in Nat /\ m = x + (m - x)
          BY <2>2
        <5>2. QED
          BY <5>1
      <4>2. x \in Nat /\ m * m = x * x + 2 * (x * d) + d * d
        BY <4>1
      <4>3. PICK a \in Nat, b \in Nat, c \in Nat, e \in Nat :
              a = m * m /\ b = x * x /\ c = x * d /\ e = d * d
        BY <2>2, <4>2
      <4>4. a = b + 2 * c + e
        BY <4>2, <4>3
      <4>5. b <= a
        BY <4>4
      <4>6. QED
        BY <4>3, <4>5
    <3>2. QED
      BY <3>1, <2>2
  <2>4. S = 1..m
    BY <2>1, <2>2, <2>3, <1>1
  <2>5. IntegerSqrt(n) = m
    <3>1. Cardinality(1..m) = m
      BY <2>2, FS_Interval
    <3>2. QED
      BY <3>1, <2>4, <1>1 DEF IntegerSqrt
  <2>6. n < (m + 1) * (m + 1)
    <3>1. m + 1 \notin S
      BY <2>2, <2>4
    <3>2. (m + 1) * (m + 1) \in Nat /\ m + 1 <= (m + 1) * (m + 1)
      BY <2>2
    <3>3. QED
      BY <3>1, <3>2, <1>1, <2>2
  <2>7. QED
    BY <2>2, <2>5, <2>6
<1>5. QED
  BY <1>3, <1>4

(* The root grows no faster than the number.                               *)
LEMMA SplitCountGrows ==
  ASSUME NEW n \in Nat, NEW m \in Nat, n <= m
  PROVE  /\ SplitCount(n) \in Nat \ {0} /\ SplitCount(m) \in Nat \ {0}
         /\ n - SplitCount(n) <= m - SplitCount(m)
<1>1. PICK r \in Nat : r = IntegerSqrt(n) /\ r * r <= n /\ n < (r + 1) * (r + 1) /\ (n > 0 => r > 0)
  BY RootIs
<1>2. PICK s \in Nat : s = IntegerSqrt(m) /\ s * s <= m /\ m < (s + 1) * (s + 1) /\ (m > 0 => s > 0)
  BY RootIs
<1>3. SplitCount(n) = (IF r >= 1 THEN r ELSE 1) /\ SplitCount(m) = (IF s >= 1 THEN s ELSE 1)
  BY <1>1, <1>2 DEF SplitCount, Greatest
<1>4. n - r <= m - s
  <2>1. CASE s <= r
    BY <2>1
  <2>2. CASE s > r
    <3>1. PICK d \in Nat : s = r + 1 + d
      <4>1. s - r - 1 \in Nat /\ s = r + 1 + (s - r - 1)
        BY <2>2
      <4>2. QED
        BY <4>1
    <3>2. PICK t \in Nat \ {0} : t = r + 1
      OBVIOUS
    <3>3. s * s = t * t + 2 * (d * t) + d * d
      BY <3>1, <3>2
    <3>4. d * t >= d
      BY <3>2
    <3>5. PICK a \in Nat, b \in Nat, e \in Nat, f \in Nat :
            a = s * s /\ b = t * t /\ e = d * t /\ f = d * d
      OBVIOUS
    <3>6. a = b + 2 * e + f /\ e >= d /\ n < b /\ a <= m
      BY <1>1, <1>2, <3>2, <3>3, <3>4, <3>5
    <3>7. QED
      BY <3>1, <3>6
  <2>3. QED
    BY <2>1, <2>2
<1>5. (n > 0 => r > 0) /\ (m > 0 => s > 0)
  BY <1>1, <1>2
<1>6. PICK a \in Nat \ {0}, b \in Nat \ {0} : /\ a = SplitCount(n) /\ b = SplitCount(m)
                                              /\ a = (IF r >= 1 THEN r ELSE 1)
                                              /\ b = (IF s >= 1 THEN s ELSE 1)
  BY <1>3
<1>7. n - a <= m - b
  BY <1>4, <1>5, <1>6
<1>8. QED
  BY <1>6, <1>7

(* What calibration fixed, and what it knew of the snapshots before the    *)
(* split: all their labels, as no horizon is longer than the test.         *)
Calibrated(p) ==
  /\ frames >= CorpusBars
  /\ p.split \in Int /\ p.split = CorpusBars - SplitCount(CorpusBars) + 1
  /\ p.end \in Nat /\ p.end < CorpusBars
  /\ \A i \in Nat : 1 <= i /\ i < p.split => Outcome(i) # {}

(* Later bars take nothing of it back.                                     *)
LEMMA CalibratedKept ==
  ASSUME Growth, NEW p, Calibrated(p)
  PROVE  Calibrated(p)'
<1>1. CorpusBars \in Nat /\ frames \in Nat /\ frames' \in Nat /\ frames <= frames'
  BY HorizonAssumption DEF Growth
<1>2. frames' >= CorpusBars
  BY <1>1 DEF Calibrated
<1>3. \A i \in Nat : 1 <= i /\ i < p.split => Outcome(i)' # {}
  BY OutcomeKept DEF Calibrated
<1>4. QED
  BY <1>2, <1>3 DEF Calibrated

(* The audits cut the frames at the same places ever after.                *)
LEMMA PlacesKept ==
  ASSUME Growth, NEW p, Calibrated(p)
  PROVE  \E place \in Int :
           /\ place <= p.split
           /\ Least(frames, p.end) = p.end /\ Least(frames, p.end)' = p.end
           /\ FrozenPrefix(p) = p.end + 1 /\ FrozenPrefix(p)' = p.end + 1
           /\ ValidationFrame(p) = place /\ ValidationFrame(p)' = place
<1>1. PICK c \in Nat, e \in Nat, n \in Nat, m \in Nat :
        c = CorpusBars /\ e = p.end /\ n = frames /\ m = frames' /\ e < c /\ c <= n /\ n <= m
  BY HorizonAssumption DEF Calibrated, Growth
<1>2. Least(n, e) = e /\ Least(m, e) = e /\ Least(e + 1, n) = e + 1 /\ Least(e + 1, m) = e + 1
  BY <1>1 DEF Least
<1>3. FrozenPrefix(p) = e + 1 /\ FrozenPrefix(p)' = e + 1
  BY <1>1, <1>2 DEF FrozenPrefix
<1>4. PICK x : x = FrozenPrefix(p) /\ x = FrozenPrefix(p)' /\ x = e + 1
  BY <1>3
<1>5. /\ ValidationFrame(p) = x - 2 * SplitCount(x) + 1
      /\ ValidationFrame(p)' = x - 2 * SplitCount(x) + 1
  BY <1>4 DEF ValidationFrame
<1>6. x \in Nat /\ x <= c
  BY <1>1, <1>4
<1>7. PICK s \in Nat \ {0}, t \in Nat \ {0} :
        s = SplitCount(x) /\ t = SplitCount(c) /\ x - s <= c - t
  BY <1>1, <1>6, SplitCountGrows
<1>8. p.split = c - t + 1
  BY <1>1, <1>7 DEF Calibrated
<1>9. x - 2 * s + 1 \in Int /\ x - 2 * s + 1 <= p.split
  BY <1>6, <1>7, <1>8, <1>1
<1>10. QED
  BY <1>1, <1>2, <1>3, <1>5, <1>7, <1>9

-----------------------------------------------------------------------------
(* The ablation                                                            *)

(* Ablation, of the frames, the rows and the places of the segments.       *)
AblationOf(n, common, rows, place, split) ==
  LET training   == {r \in rows : r.bar < place}
      validation == {r \in rows : place <= r.bar /\ r.bar < split}
      evaluation == {r \in rows : split <= r.bar}
  IN IF \/ n < MinimumFrames \/ Cardinality(common) < MinimumFrames
        \/ Cardinality(training) < MinimumTraining \/ validation = {} \/ evaluation = {}
     THEN {}
     ELSE {[estimator  |-> c.estimator,
            validation |-> c.validation,
            evaluation |-> WalkForward(evaluation, training \cup validation, c.estimator)] :
             c \in Fitted(training, validation)}

(* And so is the audit, now and later.                                     *)
LEMMA AblationIs ==
  ASSUME NEW p, NEW common, NEW place, ValidationFrame(p) = place, ValidationFrame(p)' = place,
         NEW last, Least(frames, p.end) = last, Least(frames, p.end)' = last,
         common = {i \in 1..last : Complete(i)}
  PROVE  /\ Ablation(p) = AblationOf(frames, common, Rows(common), place, p.split)
         /\ Ablation(p)' = AblationOf(frames', common, Rows(common)', place, p.split)
<1>1. Ablation(p) = AblationOf(frames, common, Rows(common), place, p.split)
  BY DEF Ablation, AblationOf
<1>2. Ablation(p)' = AblationOf(frames', common, Rows(common)', place, p.split)
  BY DEF Ablation, AblationOf
<1>3. QED
  BY <1>1, <1>2

(* Rows of the evaluation that mature after every query change neither the *)
(* estimator nor a score.                                                  *)
LEMMA AblationGrows ==
  ASSUME NEW n \in Int, NEW m \in Int, n <= m, NEW common,
         NEW rows, NEW more, rows \subseteq more, \A r \in more : r.bar \in Int,
         NEW place \in Int, NEW split \in Int, place <= split,
         \A r \in more : r \in rows \/ (split <= r.bar /\ \A q \in rows : ~(r.matures < q.bar)),
         NEW a \in AblationOf(n, common, rows, place, split)
  PROVE  \E b \in AblationOf(m, common, more, place, split) : KeptByAblation(a, b)
<1>1. PICK training, validation, evaluation, later :
        /\ training = {r \in rows : r.bar < place}
        /\ validation = {r \in rows : place <= r.bar /\ r.bar < split}
        /\ evaluation = {r \in rows : split <= r.bar}
        /\ later = {r \in more : split <= r.bar}
  OBVIOUS
<1>2. training = {r \in more : r.bar < place}
  BY <1>1
<1>3. validation = {r \in more : place <= r.bar /\ r.bar < split}
  BY <1>1
<1>4. evaluation \subseteq later
  BY <1>1
<1>5. /\ ~(n < MinimumFrames) /\ ~(Cardinality(common) < MinimumFrames)
      /\ ~(Cardinality(training) < MinimumTraining) /\ validation # {} /\ evaluation # {}
  BY <1>1 DEF AblationOf
<1>6. PICK c \in Fitted(training, validation) :
        a = [estimator  |-> c.estimator,
             validation |-> c.validation,
             evaluation |-> WalkForward(evaluation, training \cup validation, c.estimator)]
  BY <1>1, <1>5 DEF AblationOf
<1>7. PICK b : b = [estimator  |-> c.estimator,
                    validation |-> c.validation,
                    evaluation |-> WalkForward(later, training \cup validation, c.estimator)]
  OBVIOUS
<1>8. ~(m < MinimumFrames) /\ later # {}
  BY <1>4, <1>5, HorizonAssumption
<1>9. b \in AblationOf(m, common, more, place, split)
  BY <1>1, <1>2, <1>3, <1>5, <1>6, <1>7, <1>8 DEF AblationOf
<1>10. WalkForward(evaluation, training \cup validation, c.estimator)
         \subseteq WalkForward(later, training \cup validation, c.estimator)
  <2>1. PICK pool : pool = training \cup validation
    OBVIOUS
  <2>2. ASSUME NEW q \in evaluation, NEW r \in pool \cup later
        PROVE  r \in pool \cup evaluation \/ ~(r.bar < q.bar) \/ ~(r.matures < q.bar)
    <3>1. CASE r \in pool
      BY <3>1
    <3>2. CASE r \in later
      <4>1. q \in rows /\ r \in more /\ split <= r.bar
        BY <1>1, <3>2
      <4>2. CASE r \in rows
        BY <1>1, <4>1, <4>2
      <4>3. CASE r \notin rows
        BY <4>1, <4>3
      <4>4. QED
        BY <4>2, <4>3
    <3>3. QED
      BY <3>1, <3>2
  <2>3. pool \subseteq pool
    OBVIOUS
  <2>4. WalkForward(evaluation, pool, c.estimator) \subseteq WalkForward(later, pool, c.estimator)
    BY <1>4, <2>2, <2>3, ScoresKept
  <2>5. QED
    BY <2>1, <2>4
<1>11. KeptByAblation(a, b)
  BY <1>6, <1>7, <1>10 DEF KeptByAblation
<1>12. QED
  BY <1>9, <1>11

(* A later ablation audit keeps what an earlier one has scored.            *)
LEMMA AblationKept ==
  ASSUME Growth, NEW p, Calibrated(p), NEW a \in Ablation(p)
  PROVE  \E n \in Ablation(p)' : KeptByAblation(a, n)
<1>1. PICK place \in Int :
        /\ place <= p.split
        /\ Least(frames, p.end) = p.end /\ Least(frames, p.end)' = p.end
        /\ ValidationFrame(p) = place /\ ValidationFrame(p)' = place
  BY PlacesKept
<1>2. PICK common : common = {i \in 1..p.end : Complete(i)}
  OBVIOUS
<1>3. /\ Ablation(p) = AblationOf(frames, common, Rows(common), place, p.split)
      /\ Ablation(p)' = AblationOf(frames', common, Rows(common)', place, p.split)
  BY <1>1, <1>2, AblationIs
<1>4. PICK rows, more : rows = Rows(common) /\ more = Rows(common)'
  OBVIOUS
<1>5. p.split \in Int /\ p.end \in Nat /\ p.end < frames /\ frames \in Nat /\ frames' \in Nat
      /\ frames <= frames' /\ frames <= Labelled /\ Labelled \in Nat /\ Len(moves) \in Nat
  BY HorizonAssumption DEF Calibrated, Growth, Labelled
<1>6. common \subseteq Nat /\ \A i \in common : i \in 1..p.end
  BY <1>2, <1>5
<1>7. /\ rows \subseteq more
      /\ \A r \in more :
           /\ r.bar \in common
           /\ \/ r \in rows
              \/ r.bar > frames
              \/ Outcome(r.bar) = {} /\ r.matures \in Nat /\ r.matures > Labelled
  BY <1>4, <1>6, RowsKept
<1>8. \A q \in rows : q.bar \in 1..frames
  BY <1>4, <1>5, <1>6, RowsAre
<1>9. ASSUME NEW r \in more
      PROVE  /\ r.bar \in Int
             /\ r \in rows \/ (p.split <= r.bar /\ \A q \in rows : ~(r.matures < q.bar))
  <2>1. r.bar \in 1..p.end
    BY <1>6, <1>7
  <2>2. PICK x \in Nat : x = r.bar /\ 1 <= x /\ x <= p.end
    BY <2>1, <1>5
  <2>3. ~(x > frames)
    BY <2>2, <1>5
  <2>4. CASE r \notin rows
    <3>1. Outcome(x) = {} /\ r.matures \in Nat /\ r.matures > Labelled
      BY <1>7, <2>2, <2>3, <2>4
    <3>2. p.split <= x
      BY <3>1, <2>2, <1>5 DEF Calibrated
    <3>3. \A q \in rows : ~(r.matures < q.bar)
      BY <3>1, <1>5, <1>8
    <3>4. QED
      BY <2>2, <3>2, <3>3
  <2>5. QED
    BY <2>2, <2>4
<1>10. a \in AblationOf(frames, common, rows, place, p.split)
  BY <1>3, <1>4
<1>11. \E b \in AblationOf(frames', common, more, place, p.split) : KeptByAblation(a, b)
  BY <1>1, <1>5, <1>7, <1>9, <1>10, AblationGrows
<1>12. QED
  BY <1>3, <1>4, <1>11

-----------------------------------------------------------------------------
(* The corrections                                                         *)

(* More scores are more rows to correct, and the rows are corrected one by *)
(* one.                                                                    *)
LEMMA CorrectionsGrow ==
  ASSUME NEW fit, NEW v, NEW w
  PROVE  /\ \A old, new : old \subseteq new =>
                            /\ Cases(old) \subseteq Cases(new)
                            /\ ConditionalRows(old, v) \subseteq ConditionalRows(new, v)
         /\ \A old, new : old \subseteq new =>
                            /\ Conditional(fit, old) \subseteq Conditional(fit, new)
                            /\ Corrected(fit, old, w) \subseteq Corrected(fit, new, w)
<1>1. ASSUME NEW old, NEW new, old \subseteq new PROVE Cases(old) \subseteq Cases(new)
  BY <1>1 DEF Cases
<1>2. ASSUME NEW old, NEW new, old \subseteq new
      PROVE  ConditionalRows(old, v) \subseteq ConditionalRows(new, v)
  BY <1>1, <1>2 DEF ConditionalRows
<1>3. ASSUME NEW old, NEW new, old \subseteq new
      PROVE  Conditional(fit, old) \subseteq Conditional(fit, new)
  BY <1>3 DEF Conditional
<1>4. ASSUME NEW old, NEW new, old \subseteq new
      PROVE  Corrected(fit, old, w) \subseteq Corrected(fit, new, w)
  BY <1>4 DEF Corrected
<1>5. QED
  BY <1>1, <1>2, <1>3, <1>4

(* Sequential, of the ablation and the two features.                       *)
SequentialOf(ablation, v, w) ==
  LET validation == ConditionalRows(ablation.validation, v)
      evaluation == ConditionalRows(ablation.evaluation, v)
      velocity   == Fit(validation)
      raw        == Fit(ConditionalRows(ablation.validation, w))
      after      == Fit(Corrected(velocity, validation, w))
  IN IF validation = {} \/ ~Variable(velocity) \/ ~Variable(raw) THEN {}
     ELSE {[fits       |-> <<velocity, raw, after>>,
            velocities |-> Conditional(velocity, evaluation),
            accelerations |-> Conditional(raw, ConditionalRows(ablation.evaluation, w)),
            sequential |-> Corrected(after, Corrected(velocity, evaluation, w), w)]}

(* The lines are fitted on the validation, which is kept; the evaluation   *)
(* only grows.                                                             *)
LEMMA SequentialGrows ==
  ASSUME NEW a, NEW b, KeptByAblation(a, b), NEW v, NEW w, NEW o \in SequentialOf(a, v, w)
  PROVE  \E n \in SequentialOf(b, v, w) : KeptBySequential(o, n)
<1>1. a.validation = b.validation /\ a.evaluation \subseteq b.evaluation
  BY DEF KeptByAblation
<1>2. PICK validation, velocity, raw, after, old, new, older, newer :
        /\ validation = ConditionalRows(a.validation, v)
        /\ velocity = Fit(validation)
        /\ raw = Fit(ConditionalRows(a.validation, w))
        /\ after = Fit(Corrected(velocity, validation, w))
        /\ old = ConditionalRows(a.evaluation, v) /\ new = ConditionalRows(b.evaluation, v)
        /\ older = ConditionalRows(a.evaluation, w) /\ newer = ConditionalRows(b.evaluation, w)
  OBVIOUS
<1>3. old \subseteq new /\ older \subseteq newer
  BY <1>1, <1>2, CorrectionsGrow
<1>4. /\ ~(validation = {} \/ ~Variable(velocity) \/ ~Variable(raw))
      /\ o = [fits       |-> <<velocity, raw, after>>,
              velocities |-> Conditional(velocity, old),
              accelerations |-> Conditional(raw, older),
              sequential |-> Corrected(after, Corrected(velocity, old, w), w)]
  BY <1>2 DEF SequentialOf
<1>5. PICK n : n = [fits       |-> <<velocity, raw, after>>,
                    velocities |-> Conditional(velocity, new),
                    accelerations |-> Conditional(raw, newer),
                    sequential |-> Corrected(after, Corrected(velocity, new, w), w)]
  OBVIOUS
<1>6. n \in SequentialOf(b, v, w)
  BY <1>1, <1>2, <1>4, <1>5 DEF SequentialOf
<1>7. Corrected(velocity, old, w) \subseteq Corrected(velocity, new, w)
  BY <1>3, CorrectionsGrow
<1>8. /\ Conditional(velocity, old) \subseteq Conditional(velocity, new)
      /\ Conditional(raw, older) \subseteq Conditional(raw, newer)
      /\ Corrected(after, Corrected(velocity, old, w), w)
           \subseteq Corrected(after, Corrected(velocity, new, w), w)
  BY <1>3, <1>7, CorrectionsGrow
<1>9. KeptBySequential(o, n)
  BY <1>4, <1>5, <1>8 DEF KeptBySequential
<1>10. QED
  BY <1>6, <1>9

(* Forward, of the rows, the frozen prefix, the ablation and the feature.  *)
ForwardOf(rows, prefix, ablation, v) ==
  LET prior      == {r \in rows : r.bar <= prefix}
      forward    == {r \in rows : r.bar > prefix}
      scores     == WalkForward(forward, prior, ablation.estimator)
      validation == ConditionalRows(ablation.validation, v)
      fit        == Fit(validation)
  IN IF \/ prior = {} \/ forward = {}
        \/ validation = {} \/ ~Variable(fit) \/ Cases(scores) = {}
     THEN {}
     ELSE {[fit       |-> fit,
            scores    |-> scores,
            corrected |-> Corrected(fit, ConditionalRows(scores, v), v)]}

(* New rows that no query could learn from leave the earlier ones their    *)
(* scores.                                                                 *)
LEMMA ForwardGrows ==
  ASSUME NEW a, NEW b, KeptByAblation(a, b), NEW v, NEW prefix,
         NEW rows, NEW more, rows \subseteq more,
         \A q \in rows : \A r \in more :
           r \in rows \/ ~(r.bar < q.bar) \/ ~(r.matures < q.bar),
         NEW o \in ForwardOf(rows, prefix, a, v)
  PROVE  \E n \in ForwardOf(more, prefix, b, v) : KeptByForward(o, n)
<1>1. a.validation = b.validation /\ a.estimator = b.estimator
  BY DEF KeptByAblation
<1>2. PICK prior, forward, larger, longer, estimator, scores, later, fit :
        /\ prior = {r \in rows : r.bar <= prefix} /\ forward = {r \in rows : r.bar > prefix}
        /\ larger = {r \in more : r.bar <= prefix} /\ longer = {r \in more : r.bar > prefix}
        /\ estimator = a.estimator
        /\ scores = WalkForward(forward, prior, estimator)
        /\ later = WalkForward(longer, larger, estimator)
        /\ fit = Fit(ConditionalRows(a.validation, v))
  OBVIOUS
<1>3. prior \subseteq larger /\ forward \subseteq longer
  BY <1>2
<1>4. scores \subseteq later
  <2>1. ASSUME NEW q \in forward, NEW r \in larger \cup longer
        PROVE  r \in prior \cup forward \/ ~(r.bar < q.bar) \/ ~(r.matures < q.bar)
    <3>1. q \in rows /\ r \in more
      BY <1>2
    <3>2. r \in rows => r \in prior \cup forward
      BY <1>2
    <3>3. QED
      BY <3>1, <3>2
  <2>2. WalkForward(forward, prior, estimator) \subseteq WalkForward(longer, larger, estimator)
    BY <1>3, <2>1, ScoresKept
  <2>3. QED
    BY <1>2, <2>2
<1>5. /\ ~(prior = {} \/ forward = {} \/ ConditionalRows(a.validation, v) = {}
           \/ ~Variable(fit) \/ Cases(scores) = {})
      /\ o = [fit       |-> fit,
              scores    |-> scores,
              corrected |-> Corrected(fit, ConditionalRows(scores, v), v)]
  BY <1>2 DEF ForwardOf
<1>6. PICK n : n = [fit       |-> fit,
                    scores    |-> later,
                    corrected |-> Corrected(fit, ConditionalRows(later, v), v)]
  OBVIOUS
<1>7. Cases(scores) \subseteq Cases(later)
      /\ ConditionalRows(scores, v) \subseteq ConditionalRows(later, v)
  BY <1>4, CorrectionsGrow
<1>8. ~(larger = {} \/ longer = {} \/ ConditionalRows(b.validation, v) = {}
        \/ ~Variable(fit) \/ Cases(later) = {})
  BY <1>1, <1>3, <1>5, <1>7
<1>9. n \in ForwardOf(more, prefix, b, v)
  BY <1>1, <1>2, <1>6, <1>8 DEF ForwardOf
<1>10. Corrected(fit, ConditionalRows(scores, v), v)
         \subseteq Corrected(fit, ConditionalRows(later, v), v)
  BY <1>7, CorrectionsGrow
<1>11. KeptByForward(o, n)
  BY <1>4, <1>5, <1>6, <1>10 DEF KeptByForward
<1>12. QED
  BY <1>9, <1>11

(* The corrections of a later ablation keep those of the earlier one.      *)
LEMMA SequentialKept ==
  ASSUME Growth, NEW a, NEW b, KeptByAblation(a, b), NEW o \in Sequential(a)
  PROVE  \E n \in Sequential(b)' : KeptBySequential(o, n)
<1>1. PICK v, w : v = Velocity /\ w = Acceleration
  OBVIOUS
<1>2. Velocity' = v
  BY <1>1 DEF Growth, Velocity
<1>3. Acceleration' = w
  BY <1>1, <1>2 DEF Acceleration
<1>4. Sequential(a) = SequentialOf(a, v, w)
  BY <1>1 DEF Sequential, SequentialOf
<1>5. Sequential(b)' = SequentialOf(b, v, w)
  BY <1>2, <1>3 DEF Sequential, SequentialOf
<1>6. QED
  BY <1>4, <1>5, SequentialGrows

(* So does the frozen-velocity audit: a later frame is no row of the past, *)
(* and a label found later matures after every query there was.            *)
LEMMA ForwardKept ==
  ASSUME Growth, NEW p, Calibrated(p), NEW a, NEW b, KeptByAblation(a, b), NEW o \in Forward(p, a)
  PROVE  \E n \in Forward(p, b)' : KeptByForward(o, n)
<1>1. PICK prefix : prefix = FrozenPrefix(p) /\ prefix = FrozenPrefix(p)'
  BY PlacesKept
<1>2. PICK v : v = Velocity /\ v = Velocity'
  BY DEF Growth, Velocity
<1>3. PICK old, new : /\ old = {i \in 1..frames : Complete(i)}
                      /\ new = {i \in 1..frames' : Complete(i)}
  OBVIOUS
<1>4. PICK rows, more : rows = Rows(old) /\ more = Rows(new)'
  OBVIOUS
<1>5. Forward(p, a) = ForwardOf(rows, prefix, a, v)
  BY <1>1, <1>2, <1>3, <1>4 DEF Forward, ForwardOf
<1>6. Forward(p, b)' = ForwardOf(more, prefix, b, v)
  BY <1>1, <1>2, <1>3, <1>4 DEF Forward, ForwardOf
<1>7. /\ frames \in Nat /\ frames' \in Nat /\ frames <= frames' /\ frames <= Labelled
      /\ Labelled \in Nat /\ Len(moves) \in Nat
  BY DEF Growth, Labelled
<1>8. old \subseteq new /\ old \subseteq Nat /\ new \subseteq Nat
      /\ \A i \in new : i \in old \/ i > frames
  BY <1>3, <1>7
<1>9. /\ rows \subseteq more
      /\ \A r \in more :
           /\ r.bar \in new
           /\ \/ r.bar \notin old
              \/ r \in rows
              \/ r.bar > frames
              \/ Outcome(r.bar) = {} /\ r.matures \in Nat /\ r.matures > Labelled
  BY <1>4, <1>8, RowsKept
<1>10. \A q \in rows : q.bar \in 1..frames
  BY <1>4, <1>7, <1>8, RowsAre
<1>11. ASSUME NEW q \in rows, NEW r \in more
       PROVE  r \in rows \/ ~(r.bar < q.bar) \/ ~(r.matures < q.bar)
  <2>1. r.bar \in Nat /\ q.bar \in 1..frames
    BY <1>8, <1>9, <1>10
  <2>2. r \in rows \/ r.bar > frames \/ (r.matures \in Nat /\ r.matures > Labelled)
    BY <1>8, <1>9
  <2>3. QED
    BY <2>1, <2>2, <1>7
<1>12. QED
  BY <1>5, <1>6, <1>9, <1>11, ForwardGrows

-----------------------------------------------------------------------------
(* Reports                                                                 *)

(* Repeating is a preorder.                                                *)
LEMMA KeptReflexive == ASSUME NEW r PROVE Kept(r, r)
BY DEF Kept, KeptByAblation, KeptBySequential, KeptByForward

(* A report that repeats one that repeats a third repeats the third.       *)
LEMMA KeptTransitive ==
  ASSUME NEW a, NEW b, NEW c, Kept(a, b), Kept(b, c)
  PROVE  Kept(a, c)
<1>1. a.labels \subseteq c.labels /\ c.censored \subseteq a.censored
  BY DEF Kept
<1>2. ASSUME NEW o \in a.ablation PROVE \E n \in c.ablation : KeptByAblation(o, n)
  <2>1. PICK m \in b.ablation : KeptByAblation(o, m)
    BY DEF Kept
  <2>2. PICK n \in c.ablation : KeptByAblation(m, n)
    BY DEF Kept
  <2>3. QED
    BY <2>1, <2>2 DEF KeptByAblation
<1>3. ASSUME NEW o \in a.sequential PROVE \E n \in c.sequential : KeptBySequential(o, n)
  <2>1. PICK m \in b.sequential : KeptBySequential(o, m)
    BY DEF Kept
  <2>2. PICK n \in c.sequential : KeptBySequential(m, n)
    BY DEF Kept
  <2>3. QED
    BY <2>1, <2>2 DEF KeptBySequential
<1>4. ASSUME NEW o \in a.forward PROVE \E n \in c.forward : KeptByForward(o, n)
  <2>1. PICK m \in b.forward : KeptByForward(o, m)
    BY DEF Kept
  <2>2. PICK n \in c.forward : KeptByForward(m, n)
    BY DEF Kept
  <2>3. QED
    BY <2>1, <2>2 DEF KeptByForward
<1>5. QED
  BY <1>1, <1>2, <1>3, <1>4 DEF Kept

(* A report on the grown sources keeps what a report on the earlier ones   *)
(* says.                                                                   *)
LEMMA ReportKept ==
  ASSUME Growth, NEW p, Calibrated(p)
  PROVE  Kept(Report(p, Ablation(p)), Report(p, Ablation(p))')
<1>1. PICK e \in Nat, n \in Nat, m \in Nat, k \in Nat :
        e = p.end /\ n = frames /\ m = frames' /\ k = Labelled /\ e < n /\ n <= m /\ n <= k
        /\ p.split \in Int /\ k <= Labelled'
  <2>1. PICK c \in Nat : c = CorpusBars
    BY HorizonAssumption
  <2>2. p.end \in Nat /\ p.end < c /\ frames \in Nat /\ c <= frames /\ p.split \in Int
    BY <2>1 DEF Calibrated, Growth
  <2>3. p.end < frames
    BY <2>1, <2>2
  <2>4. /\ Labelled \in Nat /\ frames' \in Nat /\ frames <= frames' /\ frames <= Labelled
        /\ Labelled <= Labelled'
    BY DEF Growth, Labelled
  <2>5. QED
    BY <2>2, <2>3, <2>4
<1>2. PICK T : T = AuditCandidates(p) /\ T = AuditCandidates(p)' /\ T \subseteq 1..e
  <2>1. AuditCandidates(p) = {i \in 1..n : p.split <= i /\ i <= e}
    BY <1>1 DEF AuditCandidates
  <2>2. AuditCandidates(p)' = {i \in 1..m : p.split <= i /\ i <= e}
    BY <1>1 DEF AuditCandidates
  <2>3. {i \in 1..n : p.split <= i /\ i <= e} = {i \in 1..m : p.split <= i /\ i <= e}
    BY <1>1
  <2>4. {i \in 1..n : p.split <= i /\ i <= e} \subseteq 1..e
    BY <1>1
  <2>5. QED
    BY <2>1, <2>2, <2>3, <2>4
<1>3. PICK old, new : old = Ablation(p) /\ new = Ablation(p)'
  OBVIOUS
<1>4. PICK r : r = Report(p, Ablation(p))
  OBVIOUS
<1>5. PICK s : s = Report(p, Ablation(p))'
  OBVIOUS
<1>6. /\ r.labels = {[query |-> i, outcome |-> Outcome(i)] : i \in {j \in T : Outcome(j) # {}}}
      /\ r.censored = {i \in T : Outcome(i) = {} /\ i < Labelled}
      /\ r.ablation = old
      /\ r.sequential = UNION {Sequential(a) : a \in old}
      /\ r.forward = UNION {Forward(p, a) : a \in old}
  BY <1>2, <1>3, <1>4 DEF Report
<1>7. /\ s.labels = {[query |-> i, outcome |-> Outcome(i)'] : i \in {j \in T : Outcome(j)' # {}}}
      /\ s.censored = {i \in T : Outcome(i)' = {} /\ i < Labelled'}
      /\ s.ablation = new
      /\ s.sequential = UNION {Sequential(a)' : a \in new}
      /\ s.forward = UNION {Forward(p, a)' : a \in new}
  BY <1>2, <1>3, <1>5 DEF Report
<1>8. \A i \in T : i \in Nat /\ i < Labelled /\ (Outcome(i) # {} => Outcome(i)' = Outcome(i))
  <2> SUFFICES ASSUME NEW i \in T
               PROVE  i \in Nat /\ i < Labelled /\ (Outcome(i) # {} => Outcome(i)' = Outcome(i))
    OBVIOUS
  <2>1. i \in Nat /\ i < Labelled
    BY <1>1, <1>2
  <2>2. QED
    BY <2>1, OutcomeKept
<1>9. r.labels \subseteq s.labels
  BY <1>6, <1>7, <1>8
<1>10. s.censored \subseteq r.censored
  BY <1>6, <1>7, <1>8
<1>11. \A a \in old : \E b \in new : KeptByAblation(a, b)
  BY <1>3, AblationKept
<1>12. ASSUME NEW o \in r.sequential PROVE \E q \in s.sequential : KeptBySequential(o, q)
  <2>1. PICK a \in old : o \in Sequential(a)
    BY <1>6
  <2>2. PICK b \in new : KeptByAblation(a, b)
    BY <1>11
  <2>3. \E q \in Sequential(b)' : KeptBySequential(o, q)
    BY <2>1, <2>2, SequentialKept
  <2>4. QED
    BY <1>7, <2>3
<1>13. ASSUME NEW o \in r.forward PROVE \E q \in s.forward : KeptByForward(o, q)
  <2>1. PICK a \in old : o \in Forward(p, a)
    BY <1>6
  <2>2. PICK b \in new : KeptByAblation(a, b)
    BY <1>11
  <2>3. \E q \in Forward(p, b)' : KeptByForward(o, q)
    BY <2>1, <2>2, ForwardKept
  <2>4. QED
    BY <1>7, <2>3
<1>14. Kept(r, s)
  BY <1>6, <1>7, <1>9, <1>10, <1>11, <1>12, <1>13 DEF Kept
<1>15. QED
  BY <1>4, <1>5, <1>14

-----------------------------------------------------------------------------
(* The audits                                                              *)

(* What is calibrated stays so, and a report on the sources as they are    *)
(* keeps what the last report says.                                        *)
AuditInv ==
  /\ moves \in Seq(Int) /\ frames \in Nat /\ frames <= Len(moves)
  /\ profile = {} => frames = Len(moves) /\ report = {}
  /\ \A p \in profile : profile = {p} /\ Calibrated(p)
  /\ \A r \in report : report = {r}
  /\ \A p \in profile, r \in report : Kept(r, Report(p, Ablation(p)))

(* Sources that grow under a profile keep the invariant.                   *)
LEMMA GrowthKeeps ==
  ASSUME AuditInv, Growth, profile' = profile, report' = report, profile # {},
         moves' \in Seq(Int), frames' <= Len(moves)'
  PROVE  AuditInv'
<1>1. frames' \in Nat
  BY DEF Growth
<1>2. ASSUME NEW p \in profile PROVE profile = {p} /\ Calibrated(p)'
  BY <1>2, CalibratedKept DEF AuditInv
<1>3. ASSUME NEW p \in profile, NEW r \in report PROVE Kept(r, Report(p, Ablation(p))')
  <2>1. Kept(r, Report(p, Ablation(p)))
    BY DEF AuditInv
  <2>2. Calibrated(p)
    BY DEF AuditInv
  <2>3. Kept(Report(p, Ablation(p)), Report(p, Ablation(p))')
    BY <2>2, ReportKept
  <2>4. QED
    BY <2>1, <2>3, KeptTransitive
<1>4. \A r \in report : report = {r}
  BY DEF AuditInv
<1>5. QED
  BY <1>1, <1>2, <1>3, <1>4 DEF AuditInv

(* Nothing an audit reads is written by an audit.                          *)
LEMMA SameReport ==
  ASSUME UNCHANGED <<at, moves, frames>>, NEW p
  PROVE  /\ Report(p, Ablation(p))' = Report(p, Ablation(p))
         /\ Calibrated(p) => Calibrated(p)'
<1>1. \A i : Outcome(i)' = Outcome(i)
  BY DEF Outcome, Touches, Travel, Labelled
<1>2. \A bars : Rows(bars)' = Rows(bars)
  BY <1>1 DEF Rows, Row
<1>3. FrozenPrefix(p)' = FrozenPrefix(p) /\ AuditCandidates(p)' = AuditCandidates(p)
      /\ Labelled' = Labelled
  BY DEF FrozenPrefix, AuditCandidates, Labelled
<1>4. ValidationFrame(p)' = ValidationFrame(p)
  BY <1>3 DEF ValidationFrame
<1>5. Ablation(p)' = Ablation(p)
  <2>1. PICK last, common, place :
          /\ Least(frames, p.end) = last /\ Least(frames, p.end)' = last
          /\ common = {i \in 1..last : Complete(i)}
          /\ ValidationFrame(p) = place /\ ValidationFrame(p)' = place
    BY <1>4
  <2>2. /\ Ablation(p) = AblationOf(frames, common, Rows(common), place, p.split)
        /\ Ablation(p)' = AblationOf(frames', common, Rows(common)', place, p.split)
    BY <2>1, AblationIs
  <2>3. Rows(common)' = Rows(common) /\ frames' = frames
    BY <1>2
  <2>4. QED
    BY <2>2, <2>3
<1>6. Velocity' = Velocity
  BY DEF Velocity
<1>7. Acceleration' = Acceleration
  BY <1>6 DEF Acceleration
<1>8. \A a : Sequential(a)' = Sequential(a)
  BY <1>6, <1>7 DEF Sequential
<1>9. \A a : Forward(p, a)' = Forward(p, a)
  BY <1>2, <1>3, <1>6 DEF Forward
<1>10. Report(p, Ablation(p))' = Report(p, Ablation(p))
  BY <1>1, <1>3, <1>5, <1>8, <1>9 DEF Report
<1>11. Calibrated(p) => Calibrated(p)'
  BY <1>1 DEF Calibrated
<1>12. QED
  BY <1>10, <1>11

(* Nothing is calibrated at first.                                         *)
LEMMA InitKeeps == Init => AuditInv
BY SourceAssumption DEF Init, AuditInv

(* The profile is calibrated: the test is no shorter than the horizon, and *)
(* a snapshot with a label is not the last bar.                            *)
LEMMA CalibrateKeeps == AuditInv /\ Calibrate => AuditInv'
<1> SUFFICES ASSUME AuditInv, Calibrate PROVE AuditInv'
  OBVIOUS
<1>1. PICK c \in Nat, t \in Nat \ {0}, h \in Nat \ {0} :
        c = CorpusBars /\ t = SplitCount(c) /\ h = Horizon /\ h <= t
  BY HorizonAssumption, SplitCountGrows
<1>2. frames = c /\ Labelled = c /\ Len(moves) = c /\ profile = {} /\ report = {}
      /\ UNCHANGED <<at, moves, frames, report>>
  BY <1>1 DEF Calibrate, AuditInv, Labelled
<1>3. PICK labelled : labelled = {i \in 1..c : Outcome(i) # {}}
  OBVIOUS
<1>4. PICK p : /\ profile' = {p} /\ p.split = c - t + 1
               /\ p.end = CHOOSE i \in labelled : \A j \in labelled : j <= i
               /\ labelled # {}
  <2>1. PICK p : p = [split |-> c - t + 1,
                      end   |-> CHOOSE i \in labelled : \A j \in labelled : j <= i]
    OBVIOUS
  <2>2. profile' = {p} /\ labelled # {}
    BY <1>1, <1>2, <1>3, <2>1 DEF Calibrate
  <2>3. QED
    BY <2>1, <2>2
<1>5. p.end \in labelled
  <2>1. labelled \in SUBSET Nat /\ IsFiniteSet(labelled)
    <3>1. IsFiniteSet(1..c)
      BY FS_Interval
    <3>2. labelled \in SUBSET (1..c)
      BY <1>3
    <3>3. IsFiniteSet(labelled)
      BY <3>1, <3>2, FS_Subset
    <3>4. labelled \in SUBSET Nat
      BY <3>2
    <3>5. QED
      BY <3>3, <3>4
  <2>2. \E i \in labelled : \A j \in labelled : j <= i
    BY <2>1, <1>4, FiniteGreatest
  <2>3. QED
    BY <2>2, <1>4
<1>6. p.end \in Nat /\ p.end < c
  <2>1. p.end \in 1..c /\ Outcome(p.end) # {}
    BY <1>3, <1>5
  <2>2. PICK i \in Nat : i = p.end
    BY <2>1, <1>1
  <2>3. PICK o \in Outcome(i) : TRUE
    BY <2>1, <2>2
  <2>4. o.matures \in Nat /\ i < o.matures /\ o.matures <= Labelled
    BY <1>2, OutcomeShape
  <2>5. QED
    BY <2>2, <2>4, <1>1, <1>2
<1>7. ASSUME NEW i \in Nat, i < p.split PROVE Outcome(i) # {}
  <2>1. i + Horizon <= Labelled
    BY <1>1, <1>2, <1>4, <1>7
  <2>2. QED
    BY <2>1 DEF Outcome
<1>8. Calibrated(p)
  BY <1>1, <1>2, <1>4, <1>6, <1>7 DEF Calibrated
<1>9. Calibrated(p)'
  BY <1>2, <1>8, SameReport
<1>10. QED
  BY <1>2, <1>4, <1>9 DEF AuditInv

(* A bar is growth once there is a profile.                                *)
LEMMA BarKeeps == ASSUME NEW move \in Moves PROVE AuditInv /\ Bar(move) => AuditInv'
<1> SUFFICES ASSUME AuditInv, Bar(move) PROVE AuditInv'
  OBVIOUS
<1>1. PICK n \in Nat, f \in Nat : n = Len(moves) /\ f = frames /\ f <= n
  BY DEF AuditInv
<1>2. /\ moves' = Append(moves, move) /\ moves' \in Seq(Int) /\ Len(moves)' = n + 1
      /\ \A k \in 1..n : moves'[k] = moves[k]
  <2>1. moves \in Seq(Int) /\ move \in Int
    BY SourceAssumption DEF AuditInv
  <2>2. QED
    BY <1>1, <2>1 DEF Bar
<1>3. at' = at /\ profile' = profile /\ report' = report
  BY DEF Bar
<1>4. CASE profile = {}
  <2>1. frames' = f + 1 /\ f = n /\ report = {}
    BY <1>1, <1>4 DEF Bar, AuditInv
  <2>2. QED
    BY <2>1, <1>1, <1>2, <1>3, <1>4 DEF AuditInv
<1>5. CASE profile # {}
  <2>1. frames' = frames
    BY <1>5 DEF Bar
  <2>2. Growth
    BY <2>1, <1>1, <1>2, <1>3 DEF Growth
  <2>3. frames' <= Len(moves)'
    BY <2>1, <1>1, <1>2
  <2>4. QED
    BY <2>2, <2>3, <1>2, <1>3, <1>5, GrowthKeeps
<1>6. QED
  BY <1>4, <1>5

(* A longer feature source is growth.                                      *)
LEMMA ReplayKeeps == ASSUME NEW n \in 1..MaxBars PROVE AuditInv /\ Replay(n) => AuditInv'
<1> SUFFICES ASSUME AuditInv, Replay(n) PROVE AuditInv'
  OBVIOUS
<1>1. PICK k \in Nat, f \in Nat : k = Len(moves) /\ f = frames /\ moves \in Seq(Int)
  BY DEF AuditInv
<1>2. frames' = n /\ f < n /\ n <= k /\ n \in Nat
  BY <1>1 DEF Replay, Labelled
<1>3. UNCHANGED <<at, moves, profile, report>> /\ profile # {}
  BY DEF Replay
<1>4. Growth
  BY <1>1, <1>2, <1>3 DEF Growth
<1>5. moves' \in Seq(Int) /\ frames' <= Len(moves)'
  BY <1>1, <1>2, <1>3
<1>6. QED
  BY <1>3, <1>4, <1>5, GrowthKeeps

(* An audit reports on the sources as they are.                            *)
LEMMA AuditKeeps == AuditInv /\ Audit => AuditInv'
<1> SUFFICES ASSUME AuditInv, Audit PROVE AuditInv'
  OBVIOUS
<1>1. PICK p \in profile : report' = {Report(p, Ablation(p))}
  BY DEF Audit
<1>2. UNCHANGED <<at, moves, frames, profile>>
  BY DEF Audit
<1>3. profile = {p} /\ Calibrated(p)
  BY DEF AuditInv
<1>4. Calibrated(p)' /\ Report(p, Ablation(p))' = Report(p, Ablation(p))
  BY <1>2, <1>3, SameReport
<1>5. \A r \in report' : Kept(r, Report(p, Ablation(p))')
  BY <1>1, <1>4, KeptReflexive
<1>6. QED
  BY <1>1, <1>2, <1>3, <1>4, <1>5 DEF AuditInv

(* The invariant is inductive.                                             *)
LEMMA AuditInvKept == AuditInv /\ [Next]_vars => AuditInv'
<1> SUFFICES ASSUME AuditInv, [Next]_vars PROVE AuditInv'
  OBVIOUS
<1>1. CASE UNCHANGED vars
  <2>1. UNCHANGED <<at, moves, frames>> /\ UNCHANGED <<profile, report>>
    BY <1>1 DEF vars
  <2>2. \A p \in profile : Calibrated(p)' /\ Report(p, Ablation(p))' = Report(p, Ablation(p))
    BY <2>1, SameReport DEF AuditInv
  <2>3. QED
    BY <2>1, <2>2 DEF AuditInv
<1>2. QED
  BY <1>1, CalibrateKeeps, BarKeeps, ReplayKeeps, AuditKeeps DEF Next

(* The invariant holds of every behaviour.                                 *)
LEMMA Audited == Spec => []AuditInv
BY InitKeeps, AuditInvKept, PTL DEF Spec

(* Whatever the market does after the calibration, and however far a later *)
(* feature source reaches, an audit repeats every estimator, fitted line,  *)
(* vote, correction and label of the audit before it, and what was         *)
(* censored can only have got its label (calibration.rs:                   *)
(* build_dynamics_ablation_audit and the audits built on it,               *)
(* build_right_censoring_audit).                                           *)
THEOREM AuditsStand == Spec => AuditsNotRewritten
<1>1. AuditInv /\ [Next]_vars =>
        [\A old \in report, new \in report' : Kept(old, new)]_vars
  <2> SUFFICES ASSUME AuditInv, [Next]_vars, NEW old \in report, NEW new \in report'
               PROVE  Kept(old, new)
    OBVIOUS
  <2>1. CASE Audit
    <3>1. PICK p \in profile : report' = {Report(p, Ablation(p))}
      BY <2>1 DEF Audit
    <3>2. Kept(old, Report(p, Ablation(p)))
      BY DEF AuditInv
    <3>3. QED
      BY <3>1, <3>2
  <2>2. CASE ~Audit
    <3>1. report' = report
      BY <2>2 DEF Next, Calibrate, Bar, Replay, vars
    <3>2. report = {old}
      BY DEF AuditInv
    <3>3. QED
      BY <3>1, <3>2, KeptReflexive
  <2>3. QED
    BY <2>1, <2>2
<1>2. QED
  BY <1>1, Audited, PTL DEF AuditsNotRewritten, Spec

=============================================================================
