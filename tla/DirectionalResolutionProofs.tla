--------------------- MODULE DirectionalResolutionProofs ---------------------
(***************************************************************************)
(* What the estimator and the runtime promise for every corpus, every      *)
(* scale and every query: the basis points of a vote are faithful to its   *)
(* weights, a published direction has passed its gates, its horizon comes  *)
(* from evidence, and the outcomes of the test tune nothing but through    *)
(* the labels that look into it.                                           *)
(***************************************************************************)
EXTENDS DirectionalResolution, CommonProofs

-----------------------------------------------------------------------------
(* Arithmetic.                                                             *)

(* Euclidean division.                                                     *)
LEMMA Division ==
  ASSUME NEW a \in Nat, NEW b \in Nat \ {0}
  PROVE  a = b * (a \div b) + (a % b) /\ a % b \in 0..(b - 1) /\ a \div b \in Nat
OBVIOUS

(* A product with a positive factor is compared as the other factor is.    *)
LEMMA ProductOrder ==
  ASSUME NEW t \in Nat \ {0}, NEW x \in Int, NEW y \in Int
  PROVE  x < y <=> t * x < t * y
<1>1. ASSUME x < y PROVE t * x < t * y
  <2>1. PICK d \in Nat \ {0} : y = x + d
    <3>1. y - x \in Nat \ {0} /\ y = x + (y - x)
      BY <1>1
    <3>2. QED
      BY <3>1
  <2>2. t * (x + d) = t * x + t * d /\ t * d > 0
    OBVIOUS
  <2>3. QED
    BY <2>1, <2>2
<1>2. ASSUME y <= x PROVE t * y <= t * x
  <2>1. PICK d \in Nat : x = y + d
    <3>1. x - y \in Nat /\ x = y + (x - y)
      BY <1>2
    <3>2. QED
      BY <3>1
  <2>2. t * (y + d) = t * y + t * d /\ t * d >= 0
    OBVIOUS
  <2>3. QED
    BY <2>1, <2>2
<1>3. t * x \in Int /\ t * y \in Int
  OBVIOUS
<1>4. QED
  BY <1>1, <1>2, <1>3

-----------------------------------------------------------------------------
(* The three directions.                                                   *)

(* A sum over the directions.                                              *)
LEMMA DirectionSum ==
  ASSUME NEW w \in [Directions -> Int]
  PROVE  SumFunctionOnSet(w, Directions) = w["UP"] + w["RANGE"] + w["DOWN"]
BY SumOfThree DEF Directions

(* A number of directions.                                                 *)
LEMMA DirectionCount ==
  ASSUME NEW T \in SUBSET Directions
  PROVE  Cardinality(T) = (IF "UP" \in T THEN 1 ELSE 0) + (IF "RANGE" \in T THEN 1 ELSE 0)
                            + (IF "DOWN" \in T THEN 1 ELSE 0)
<1> DEFINE U == IF "UP" \in T THEN {"UP"} ELSE {}
           R == IF "RANGE" \in T THEN U \cup {"RANGE"} ELSE U
           D == IF "DOWN" \in T THEN R \cup {"DOWN"} ELSE R
<1>1. IsFiniteSet(U) /\ Cardinality(U) = IF "UP" \in T THEN 1 ELSE 0
  BY FS_Singleton, FS_EmptySet
<1>2. /\ IsFiniteSet(R)
      /\ Cardinality(R) = Cardinality(U) + (IF "RANGE" \in T THEN 1 ELSE 0)
  <2>1. "RANGE" \notin U
    OBVIOUS
  <2> HIDE DEF U
  <2>2. IsFiniteSet(U \cup {"RANGE"}) /\ Cardinality(U \cup {"RANGE"}) = Cardinality(U) + 1
    BY <1>1, <2>1, FS_AddElement
  <2>3. Cardinality(U) \in Nat
    BY <1>1, FS_CardinalityType
  <2>4. QED
    BY <1>1, <2>2, <2>3
<1>3. Cardinality(D) = Cardinality(R) + (IF "DOWN" \in T THEN 1 ELSE 0)
  <2>1. "DOWN" \notin R
    OBVIOUS
  <2> HIDE DEF R
  <2>2. Cardinality(R \cup {"DOWN"}) = Cardinality(R) + 1
    BY <1>2, <2>1, FS_AddElement
  <2>3. Cardinality(R) \in Nat
    BY <1>2, FS_CardinalityType
  <2>4. QED
    BY <2>2, <2>3
<1>4. T = D
  BY DEF Directions
<1> HIDE DEF U, R, D
<1>5. QED
  BY <1>1, <1>2, <1>3, <1>4

-----------------------------------------------------------------------------
(* Largest remainders.                                                     *)

(* a gets a basis point that is left before b does.                        *)
Before(rest, a, b) == rest[a] > rest[b] \/ (rest[a] = rest[b] /\ Rank[a] < Rank[b])

Turn(rest, c) == Cardinality({b \in Directions : Before(rest, b, c)})

(* The turns are 0, 1 and 2, in the order of the remainders.               *)
LEMMA TurnCount ==
  ASSUME NEW rest \in [Directions -> Nat], NEW c \in Directions
  PROVE  Turn(rest, c) = (IF Before(rest, "UP", c) THEN 1 ELSE 0)
                           + (IF Before(rest, "RANGE", c) THEN 1 ELSE 0)
                           + (IF Before(rest, "DOWN", c) THEN 1 ELSE 0)
<1> DEFINE T == {b \in Directions : Before(rest, b, c)}
<1>1. T \in SUBSET Directions
  OBVIOUS
<1>2. /\ "UP" \in T <=> Before(rest, "UP", c)
      /\ "RANGE" \in T <=> Before(rest, "RANGE", c)
      /\ "DOWN" \in T <=> Before(rest, "DOWN", c)
  BY DEF Directions
<1>3. Turn(rest, c) = Cardinality(T)
  BY DEF Turn
<1> HIDE DEF T
<1>4. QED
  BY <1>1, <1>2, <1>3, DirectionCount

(* Whatever is left over, up to two basis points, is handed out in full,   *)
(* in the order of the remainders, and never to an exact share.            *)
LEMMA LeftOver ==
  ASSUME NEW rest \in [Directions -> Nat], NEW left \in 0..2, NEW total \in Nat \ {0},
         \A c \in Directions : rest[c] < total,
         rest["UP"] + rest["RANGE"] + rest["DOWN"] = total * left
  PROVE  LET extra(c) == IF Turn(rest, c) < left THEN 1 ELSE 0
         IN  /\ extra("UP") + extra("RANGE") + extra("DOWN") = left
             /\ \A c \in Directions : extra(c) = 1 => rest[c] > 0
             /\ \A a, b \in Directions : Before(rest, a, b) => extra(b) <= extra(a)
<1> DEFINE u == rest["UP"]
           r == rest["RANGE"]
           d == rest["DOWN"]
<1>1. u \in Nat /\ r \in Nat /\ d \in Nat /\ u < total /\ r < total /\ d < total
  BY DEF Directions
<1>2. /\ Turn(rest, "UP") = (IF r > u THEN 1 ELSE 0) + (IF d > u THEN 1 ELSE 0)
      /\ Turn(rest, "RANGE") = (IF u >= r THEN 1 ELSE 0) + (IF d > r THEN 1 ELSE 0)
      /\ Turn(rest, "DOWN") = (IF u >= d THEN 1 ELSE 0) + (IF r >= d THEN 1 ELSE 0)
  <2>1. /\ Before(rest, "RANGE", "UP") <=> r > u
        /\ Before(rest, "DOWN", "UP") <=> d > u
        /\ Before(rest, "UP", "RANGE") <=> u >= r
        /\ Before(rest, "DOWN", "RANGE") <=> d > r
        /\ Before(rest, "UP", "DOWN") <=> u >= d
        /\ Before(rest, "RANGE", "DOWN") <=> r >= d
        /\ ~Before(rest, "UP", "UP") /\ ~Before(rest, "RANGE", "RANGE")
        /\ ~Before(rest, "DOWN", "DOWN")
    BY <1>1 DEF Before, Rank
  <2>2. "UP" \in Directions /\ "RANGE" \in Directions /\ "DOWN" \in Directions
    BY DEF Directions
  <2> HIDE DEF u, r, d
  <2>3. QED
    BY <2>1, <2>2, TurnCount
<1>3. u + r + d = total * left /\ total * 0 = 0 /\ total * 1 = total /\ total * 2 = total + total
  OBVIOUS
<1>4. \A a, b \in Directions : Before(rest, a, b) => Turn(rest, a) < Turn(rest, b)
  BY <1>1, <1>2 DEF Before, Rank, Directions
<1> HIDE DEF u, r, d
<1>5. CASE left = 0
  <2>1. \A c \in Directions : Turn(rest, c) \in Nat
    BY <1>2 DEF Directions
  <2>2. \A c \in Directions : ~(Turn(rest, c) < left)
    BY <1>5, <2>1
  <2>3. QED
    BY <1>5, <2>2 DEF Directions
<1>6. CASE left = 1
  <2>1. /\ (IF Turn(rest, "UP") < 1 THEN 1 ELSE 0) + (IF Turn(rest, "RANGE") < 1 THEN 1 ELSE 0)
             + (IF Turn(rest, "DOWN") < 1 THEN 1 ELSE 0) = 1
        /\ Turn(rest, "UP") < 1 => u > 0
        /\ Turn(rest, "RANGE") < 1 => r > 0
        /\ Turn(rest, "DOWN") < 1 => d > 0
    BY <1>1, <1>2, <1>3, <1>6
  <2>2. \A c \in Directions : Turn(rest, c) \in Int
    BY <1>2 DEF Directions
  <2>3. QED
    BY <1>4, <1>6, <2>1, <2>2 DEF Directions, u, r, d
<1>7. CASE left = 2
  <2>1. /\ (IF Turn(rest, "UP") < 2 THEN 1 ELSE 0) + (IF Turn(rest, "RANGE") < 2 THEN 1 ELSE 0)
             + (IF Turn(rest, "DOWN") < 2 THEN 1 ELSE 0) = 2
        /\ Turn(rest, "UP") < 2 => u > 0
        /\ Turn(rest, "RANGE") < 2 => r > 0
        /\ Turn(rest, "DOWN") < 2 => d > 0
    BY <1>1, <1>2, <1>3, <1>7
  <2>2. \A c \in Directions : Turn(rest, c) \in Int
    BY <1>2 DEF Directions
  <2>3. QED
    BY <1>4, <1>7, <2>1, <2>2 DEF Directions, u, r, d
<1>8. QED
  BY <1>5, <1>6, <1>7

-----------------------------------------------------------------------------
(* Basis points.                                                           *)

Floors(mass, total) == [c \in Directions |-> (mass[c] * Unit) \div total]
Rests(mass, total)  == [c \in Directions |-> (mass[c] * Unit) % total]

(* Both branches of probability_basis_points.                              *)
LEMMA BasisPointsAre ==
  ASSUME NEW mass
  PROVE  LET total == SumFunctionOnSet(mass, Directions)
             left  == Unit - SumFunctionOnSet(Floors(mass, total), Directions)
         IN  BasisPoints(mass) =
               IF total = 0 THEN [c \in Directions |-> IF c = "RANGE" THEN Unit ELSE 0]
               ELSE [c \in Directions |->
                       Floors(mass, total)[c]
                         + (IF Turn(Rests(mass, total), c) < left THEN 1 ELSE 0)]
BY DEF BasisPoints, Floors, Rests, Turn, Before

(* The floors leave at most two basis points, in proportion to what they   *)
(* cut off.                                                                *)
LEMMA FloorsLeave ==
  ASSUME NEW mass \in [Directions -> Nat], NEW total \in Nat \ {0},
         total = mass["UP"] + mass["RANGE"] + mass["DOWN"]
  PROVE  /\ Floors(mass, total) \in [Directions -> Nat]
         /\ Rests(mass, total) \in [Directions -> Nat]
         /\ \A c \in Directions :
              /\ Rests(mass, total)[c] < total
              /\ mass[c] * Unit = total * Floors(mass, total)[c] + Rests(mass, total)[c]
         /\ Unit - SumFunctionOnSet(Floors(mass, total), Directions) \in 0..2
         /\ Rests(mass, total)["UP"] + Rests(mass, total)["RANGE"] + Rests(mass, total)["DOWN"]
              = total * (Unit - SumFunctionOnSet(Floors(mass, total), Directions))
<1> DEFINE f == Floors(mass, total)
           r == Rests(mass, total)
<1>1. Unit \in Nat \ {0}
  BY VoteAssumption
<1>2. ASSUME NEW c \in Directions
      PROVE  /\ f[c] \in Nat /\ r[c] \in Nat /\ r[c] < total
             /\ mass[c] * Unit = total * f[c] + r[c]
  <2>1. mass[c] * Unit \in Nat
    BY <1>1
  <2>2. f[c] = (mass[c] * Unit) \div total /\ r[c] = (mass[c] * Unit) % total
    BY DEF Floors, Rests
  <2> HIDE DEF f, r
  <2> DEFINE a == mass[c] * Unit
  <2>3. a = total * (a \div total) + (a % total) /\ a % total \in 0..(total - 1)
        /\ a \div total \in Nat
    <3> HIDE DEF a
    <3> QED BY <2>1, Division DEF a
  <2>4. QED
    BY <2>2, <2>3
<1>3. f \in [Directions -> Nat] /\ r \in [Directions -> Nat]
  BY <1>2 DEF Floors, Rests
<1> HIDE DEF f, r
<1>4. SumFunctionOnSet(f, Directions) = f["UP"] + f["RANGE"] + f["DOWN"]
  BY <1>3, DirectionSum
<1> DEFINE left == Unit - (f["UP"] + f["RANGE"] + f["DOWN"])
<1>5. "UP" \in Directions /\ "RANGE" \in Directions /\ "DOWN" \in Directions
  BY DEF Directions
<1>6. r["UP"] + r["RANGE"] + r["DOWN"] = total * left
  <2>1. /\ mass["UP"] * Unit = total * f["UP"] + r["UP"]
        /\ mass["RANGE"] * Unit = total * f["RANGE"] + r["RANGE"]
        /\ mass["DOWN"] * Unit = total * f["DOWN"] + r["DOWN"]
    BY <1>2, <1>5
  <2>2. total * Unit = mass["UP"] * Unit + mass["RANGE"] * Unit + mass["DOWN"] * Unit
    <3>1. \A a, b, c \in Nat : (a + b + c) * Unit = a * Unit + b * Unit + c * Unit
      BY <1>1
    <3>2. QED
      BY <1>5, <3>1
  <2>3. total * left = total * Unit - (total * f["UP"] + total * f["RANGE"] + total * f["DOWN"])
    <3>1. PICK a \in Nat, b \in Nat, c \in Nat : a = f["UP"] /\ b = f["RANGE"] /\ c = f["DOWN"]
      BY <1>2, <1>5
    <3>2. total * (Unit - (a + b + c)) = total * Unit - (total * a + total * b + total * c)
      BY <1>1
    <3>3. QED
      BY <3>1, <3>2
  <2>4. QED
    BY <1>1, <1>2, <1>5, <2>1, <2>2, <2>3
<1>7. left \in 0..2
  <2>1. /\ left \in Int /\ total * left \in Int /\ total * left >= 0
        /\ total * left < total * 3
    <3>1. left \in Int /\ total * 3 = total + total + total
      BY <1>1, <1>3, <1>5
    <3>2. /\ r["UP"] \in Nat /\ r["RANGE"] \in Nat /\ r["DOWN"] \in Nat
          /\ r["UP"] < total /\ r["RANGE"] < total /\ r["DOWN"] < total
      BY <1>2, <1>5
    <3> HIDE DEF left
    <3>3. QED
      BY <1>6, <3>1, <3>2
  <2> HIDE DEF left
  <2>2. left < 3
    BY <2>1, ProductOrder
  <2>3. ~(left < 0)
    <3>1. left < 0 => total * left < total * 0
      BY <2>1, ProductOrder
    <3>2. total * 0 = 0
      OBVIOUS
    <3>3. QED
      BY <2>1, <3>1, <3>2
  <2>4. QED
    BY <2>1, <2>2, <2>3
<1>8. QED
  BY <1>2, <1>3, <1>4, <1>6, <1>7 DEF f, r, left

-----------------------------------------------------------------------------
(* What rounding may do to one share ...                                   *)
LEMMA ShareFaithful ==
  ASSUME NEW t \in Nat \ {0}, NEW m \in Nat, NEW q \in Nat, NEW r \in Nat, NEW x \in 0..1,
         r < t, m = t * q + r, x = 1 => r > 0
  PROVE  (q + x) * t < m + t /\ (q + x) * t > m - t
<1>1. x = 0 \/ x = 1
  OBVIOUS
<1>2. (q + 0) * t = t * q /\ (q + 1) * t = t * q + t
  OBVIOUS
<1>3. PICK p \in Nat : p = t * q
  OBVIOUS
<1>4. CASE x = 0
  <2>1. (q + x) * t = p
    BY <1>2, <1>3, <1>4
  <2>2. QED
    BY <1>3, <2>1
<1>5. CASE x = 1
  <2>1. (q + x) * t = p + t /\ r > 0
    BY <1>2, <1>3, <1>5
  <2>2. QED
    BY <1>3, <2>1
<1>6. QED
  BY <1>1, <1>4, <1>5

(* ... and to the order of two: a larger mass has the larger floor, or the *)
(* same floor and the larger remainder.                                    *)
LEMMA FloorOrder ==
  ASSUME NEW t \in Nat \ {0}, NEW m \in Nat, NEW n \in Nat, NEW q \in Nat, NEW p \in Nat,
         NEW r \in Nat, NEW s \in Nat, r < t, s < t, m = t * q + r, n = t * p + s
  PROVE  /\ m <= n => q <= p
         /\ m < n /\ q = p => r < s
<1>1. ASSUME m <= n PROVE q <= p
  <2>1. SUFFICES ASSUME p + 1 <= q PROVE FALSE
    OBVIOUS
  <2>2. ~(q < p + 1)
    BY <2>1
  <2>3. ~(t * q < t * (p + 1))
    BY <2>2, ProductOrder
  <2>4. t * (p + 1) = t * p + t /\ t * p \in Nat /\ t * q \in Nat
    OBVIOUS
  <2>5. QED
    BY <1>1, <2>3, <2>4
<1>2. ASSUME m < n, q = p PROVE r < s
  <2>1. t * q = t * p /\ t * p \in Nat
    BY <1>2
  <2>2. QED
    BY <1>2, <2>1
<1>3. QED
  BY <1>1, <1>2

(* The basis points of a vote with no weight at all.                       *)
LEMMA WeightlessPoints ==
  ASSUME NEW mass \in [Directions -> Nat], SumFunctionOnSet(mass, Directions) = 0
  PROVE  /\ BasisPoints(mass) \in [Directions -> 0..Unit]
         /\ SumFunctionOnSet(BasisPoints(mass), Directions) = Unit
<1> DEFINE bp == BasisPoints(mass)
<1>1. bp = [c \in Directions |-> IF c = "RANGE" THEN Unit ELSE 0]
  BY BasisPointsAre
<1>2. Unit \in Nat
  BY VoteAssumption
<1> HIDE DEF bp
<1>3. bp \in [Directions -> 0..Unit]
  BY <1>1, <1>2
<1>4. bp["UP"] = 0 /\ bp["RANGE"] = Unit /\ bp["DOWN"] = 0
  BY <1>1 DEF Directions
<1>5. SumFunctionOnSet(bp, Directions) = bp["UP"] + bp["RANGE"] + bp["DOWN"]
  BY <1>3, DirectionSum
<1>6. QED
  BY <1>2, <1>3, <1>4, <1>5 DEF bp

(* The basis points of a vote: floors, plus what the remainders earn.      *)
LEMMA WeightedPoints ==
  ASSUME NEW mass \in [Directions -> Nat], NEW total \in Nat \ {0},
         total = SumFunctionOnSet(mass, Directions)
  PROVE  LET bp == BasisPoints(mass)
             f  == Floors(mass, total)
             r  == Rests(mass, total)
         IN  \E x \in [Directions -> 0..1] :
               /\ bp = [c \in Directions |-> f[c] + x[c]]
               /\ f["UP"] + f["RANGE"] + f["DOWN"] + x["UP"] + x["RANGE"] + x["DOWN"] = Unit
               /\ \A c \in Directions : x[c] = 1 => r[c] > 0
               /\ \A a, b \in Directions : Before(r, a, b) => x[b] <= x[a]
<1> DEFINE f    == Floors(mass, total)
           r    == Rests(mass, total)
           left == Unit - SumFunctionOnSet(f, Directions)
           x    == [c \in Directions |-> IF Turn(r, c) < left THEN 1 ELSE 0]
<1>1. total = mass["UP"] + mass["RANGE"] + mass["DOWN"]
  BY DirectionSum
<1>2. /\ f \in [Directions -> Nat] /\ r \in [Directions -> Nat]
      /\ \A c \in Directions : r[c] < total
      /\ left \in 0..2
      /\ r["UP"] + r["RANGE"] + r["DOWN"] = total * left
  BY <1>1, FloorsLeave
<1>3. BasisPoints(mass) = [c \in Directions |-> f[c] + (IF Turn(r, c) < left THEN 1 ELSE 0)]
  BY BasisPointsAre
<1>4. SumFunctionOnSet(f, Directions) = f["UP"] + f["RANGE"] + f["DOWN"]
  BY <1>2, DirectionSum
<1>5. Unit \in Nat
  BY VoteAssumption
<1> HIDE DEF f, r
<1>6. /\ f["UP"] \in Nat /\ f["RANGE"] \in Nat /\ f["DOWN"] \in Nat
      /\ left = Unit - (f["UP"] + f["RANGE"] + f["DOWN"])
  BY <1>2, <1>4 DEF Directions
<1> HIDE DEF left
<1>7. /\ (IF Turn(r, "UP") < left THEN 1 ELSE 0) + (IF Turn(r, "RANGE") < left THEN 1 ELSE 0)
           + (IF Turn(r, "DOWN") < left THEN 1 ELSE 0) = left
      /\ \A c \in Directions : (IF Turn(r, c) < left THEN 1 ELSE 0) = 1 => r[c] > 0
      /\ \A a, b \in Directions : Before(r, a, b) =>
           (IF Turn(r, b) < left THEN 1 ELSE 0) <= (IF Turn(r, a) < left THEN 1 ELSE 0)
  BY <1>2, LeftOver
<1>8. x \in [Directions -> 0..1] /\ \A c \in Directions : x[c] = IF Turn(r, c) < left THEN 1 ELSE 0
  OBVIOUS
<1> HIDE DEF x
<1>9. x["UP"] + x["RANGE"] + x["DOWN"] = left
  BY <1>7, <1>8 DEF Directions
<1>10. /\ \A c \in Directions : x[c] = 1 => r[c] > 0
       /\ \A a, b \in Directions : Before(r, a, b) => x[b] <= x[a]
  BY <1>7, <1>8
<1>11. BasisPoints(mass) = [c \in Directions |-> f[c] + x[c]]
  BY <1>3, <1>8
<1>12. f["UP"] + f["RANGE"] + f["DOWN"] + x["UP"] + x["RANGE"] + x["DOWN"] = Unit
  <2>1. x["UP"] \in Int /\ x["RANGE"] \in Int /\ x["DOWN"] \in Int
    BY <1>8 DEF Directions
  <2>2. QED
    BY <1>5, <1>6, <1>9, <2>1
<1>13. QED
  BY <1>8, <1>10, <1>11, <1>12 DEF f, r

(* Basis points of a vote add up to the whole, are within one of the exact *)
(* share, and keep the order of the masses up to a tie.                    *)
LEMMA PointsFaithful ==
  ASSUME NEW mass \in [Directions -> Nat]
  PROVE  LET bp    == BasisPoints(mass)
             total == SumFunctionOnSet(mass, Directions)
         IN  /\ bp \in [Directions -> 0..Unit]
             /\ SumFunctionOnSet(bp, Directions) = Unit
             /\ total > 0 => \A a \in Directions :
                  /\ bp[a] * total < mass[a] * Unit + total
                  /\ bp[a] * total > mass[a] * Unit - total
                  /\ \A b \in Directions : /\ mass[a] <= mass[b] => bp[a] <= bp[b] + 1
                                           /\ mass[a] < mass[b] => bp[a] <= bp[b]
<1> DEFINE bp    == BasisPoints(mass)
           total == SumFunctionOnSet(mass, Directions)
<1>1. total \in Nat
  <2>1. total = mass["UP"] + mass["RANGE"] + mass["DOWN"]
    BY DirectionSum
  <2>2. QED
    BY <2>1 DEF Directions
<1>2. CASE total = 0
  BY <1>2, WeightlessPoints
<1>3. CASE total # 0
  <2> DEFINE f == Floors(mass, total)
             r == Rests(mass, total)
  <2>1. /\ f \in [Directions -> Nat] /\ r \in [Directions -> Nat]
        /\ \A c \in Directions : r[c] < total /\ mass[c] * Unit = total * f[c] + r[c]
    <3>1. total = mass["UP"] + mass["RANGE"] + mass["DOWN"]
      BY DirectionSum
    <3> HIDE DEF total
    <3>2. QED
      BY <1>1, <1>3, <3>1, FloorsLeave
  <2>2. PICK x \in [Directions -> 0..1] :
          /\ bp = [c \in Directions |-> f[c] + x[c]]
          /\ f["UP"] + f["RANGE"] + f["DOWN"] + x["UP"] + x["RANGE"] + x["DOWN"] = Unit
          /\ \A c \in Directions : x[c] = 1 => r[c] > 0
          /\ \A a, b \in Directions : Before(r, a, b) => x[b] <= x[a]
    BY <1>1, <1>3, WeightedPoints
  <2>3. Unit \in Nat \ {0}
    BY VoteAssumption
  <2> HIDE DEF bp, f, r, total
  <2>4. /\ \A c \in Directions : bp[c] = f[c] + x[c] /\ bp[c] \in Nat
        /\ bp["UP"] + bp["RANGE"] + bp["DOWN"] = Unit
    <3>1. \A c \in Directions : bp[c] = f[c] + x[c] /\ f[c] \in Nat /\ x[c] \in Nat
      BY <2>1, <2>2
    <3>2. "UP" \in Directions /\ "RANGE" \in Directions /\ "DOWN" \in Directions
      BY DEF Directions
    <3>3. QED
      BY <2>2, <2>3, <3>1, <3>2
  <2>5. bp \in [Directions -> 0..Unit]
    <3>1. bp = [c \in Directions |-> bp[c]]
      BY <2>2
    <3>2. \A c \in Directions : bp[c] <= Unit
      BY <2>3, <2>4 DEF Directions
    <3>3. QED
      BY <2>3, <2>4, <3>1, <3>2
  <2>6. SumFunctionOnSet(bp, Directions) = Unit
    <3>1. bp \in [Directions -> Int]
      BY <2>5
    <3>2. QED
      BY <2>4, <3>1, DirectionSum
  <2>7. ASSUME NEW a \in Directions
        PROVE  bp[a] * total < mass[a] * Unit + total /\ bp[a] * total > mass[a] * Unit - total
    <3>1. PICK m \in Nat : m = mass[a] * Unit
      BY <2>3
    <3>2. f[a] \in Nat /\ r[a] \in Nat /\ r[a] < total /\ m = total * f[a] + r[a]
      BY <2>1, <3>1
    <3>3. x[a] \in 0..1 /\ (x[a] = 1 => r[a] > 0)
      BY <2>2
    <3>4. (f[a] + x[a]) * total < m + total /\ (f[a] + x[a]) * total > m - total
      BY <1>1, <1>3, <3>2, <3>3, ShareFaithful
    <3>5. QED
      BY <2>4, <3>1, <3>4
  <2>8. ASSUME NEW a \in Directions, NEW b \in Directions
        PROVE  /\ mass[a] <= mass[b] => bp[a] <= bp[b] + 1
               /\ mass[a] < mass[b] => bp[a] <= bp[b]
    <3>1. PICK m \in Nat, n \in Nat : m = Unit * mass[a] /\ n = Unit * mass[b]
      BY <2>3
    <3>2. /\ f[a] \in Nat /\ r[a] \in Nat /\ r[a] < total /\ m = total * f[a] + r[a]
          /\ f[b] \in Nat /\ r[b] \in Nat /\ r[b] < total /\ n = total * f[b] + r[b]
      BY <2>1, <2>3, <3>1
    <3>3. (m <= n => f[a] <= f[b]) /\ (m < n /\ f[a] = f[b] => r[a] < r[b])
      BY <1>1, <1>3, <3>2, FloorOrder
    <3>4. (mass[a] < mass[b] <=> m < n) /\ (mass[b] < mass[a] <=> n < m)
      BY <2>3, <3>1, ProductOrder
    <3>5. r[a] < r[b] => x[a] <= x[b]
      BY <2>2, <3>2 DEF Before
    <3>6. x[a] \in 0..1 /\ x[b] \in 0..1 /\ bp[a] = f[a] + x[a] /\ bp[b] = f[b] + x[b]
      BY <2>2, <2>4
    <3>7. mass[a] \in Nat /\ mass[b] \in Nat
      OBVIOUS
    <3>8. QED
      BY <3>1, <3>2, <3>3, <3>4, <3>5, <3>6, <3>7
  <2>9. QED
    BY <2>5, <2>6, <2>7, <2>8 DEF bp, total
<1>4. QED
  BY <1>2, <1>3


-----------------------------------------------------------------------------
(* The neighbours and their weights.                                       *)

Labelled == Snapshot(Directions)

(* Neighbours are library snapshots with the query's mask.                 *)
LEMMA NeighborsMatch ==
  ASSUME NEW query, NEW samples \in Seq(Labelled), NEW estimator
  PROVE  LET near == Neighbors(query, samples, estimator)
         IN  /\ near \subseteq Matching(query, samples)
             /\ near \subseteq 1..Len(samples)
             /\ IsFiniteSet(near) /\ Cardinality(near) \in 0..Len(samples)
<1> DEFINE near == Neighbors(query, samples, estimator)
<1>1. near \subseteq Matching(query, samples)
  BY DEF Neighbors
<1>2. near \subseteq 1..Len(samples)
  BY <1>1 DEF Matching
<1>3. Len(samples) \in Nat
  OBVIOUS
<1> HIDE DEF near
<1>4. IsFiniteSet(1..Len(samples)) /\ Cardinality(1..Len(samples)) = Len(samples)
  BY <1>3, FS_Interval
<1>5. IsFiniteSet(near) /\ Cardinality(near) \in Nat /\ Cardinality(near) <= Len(samples)
  BY <1>2, <1>4, FS_Subset, FS_CardinalityType
<1>6. QED
  BY <1>1, <1>2, <1>3, <1>5 DEF near

(* The distance of two snapshots.                                          *)
LEMMA DistanceNatural ==
  ASSUME NEW a, NEW b, a.at \in Int, b.at \in Int
  PROVE  Distance(a, b) \in Nat
BY DEF Distance, Greatest

(* A weight, positive where the scale is a multiple of the distance.       *)
LEMMA WeightPositive ==
  ASSUME NEW distance \in Nat, NEW power
  PROVE  /\ Weight(distance, power) \in Nat
         /\ (distance # 0 => DistanceScale % distance = 0) => Weight(distance, power) > 0
<1>1. DistanceScale \in Nat \ {0} /\ NearScale \in Nat \ {0}
  BY VoteAssumption
<1> DEFINE closeness == IF distance = 0 THEN DistanceScale * NearScale
                                       ELSE DistanceScale \div distance
<1>2. closeness \in Nat
  <2>1. DistanceScale * NearScale \in Nat
    BY <1>1
  <2>2. distance # 0 => DistanceScale \div distance \in Nat
    BY <1>1, Division
  <2>3. QED
    BY <2>1, <2>2
<1>3. ASSUME distance # 0 => DistanceScale % distance = 0 PROVE closeness > 0
  <2>1. DistanceScale * NearScale > 0
    BY <1>1
  <2>2. ASSUME distance # 0 PROVE DistanceScale \div distance > 0
    <3>1. /\ DistanceScale = distance * (DistanceScale \div distance) + (DistanceScale % distance)
          /\ DistanceScale \div distance \in Nat
      BY <1>1, <2>2, Division
    <3>2. PICK q \in Nat : q = DistanceScale \div distance
      BY <3>1
    <3>3. DistanceScale = distance * q + 0
      BY <1>3, <2>2, <3>1, <3>2
    <3>4. q # 0
      BY <1>1, <3>3
    <3>5. QED
      BY <3>2, <3>4
  <2>3. QED
    BY <2>1, <2>2
<1>4. Weight(distance, power) = IF power = 2 THEN closeness * closeness ELSE closeness
  BY DEF Weight
<1> HIDE DEF closeness
<1>5. QED
  BY <1>2, <1>3, <1>4

(* The weights of the neighbours and what they add up to per direction.    *)
Weights(query, samples, estimator) ==
  [i \in Neighbors(query, samples, estimator) |->
     Weight(Distance(query, samples[i]), estimator.power)]
VoteMass(query, samples, estimator) ==
  Mass(Neighbors(query, samples, estimator), Weights(query, samples, estimator), samples)

(* Every neighbour has a weight, and every direction a mass.               *)
LEMMA MassNatural ==
  ASSUME NEW query, query.at \in Int, NEW samples \in Seq(Labelled), NEW estimator
  PROVE  /\ \A i \in Neighbors(query, samples, estimator) :
              Weights(query, samples, estimator)[i] \in Nat
         /\ VoteMass(query, samples, estimator) \in [Directions -> Nat]
<1> DEFINE near   == Neighbors(query, samples, estimator)
           weight == Weights(query, samples, estimator)
<1>1. near \subseteq 1..Len(samples) /\ IsFiniteSet(near)
  BY NeighborsMatch
<1>2. ASSUME NEW i \in near PROVE weight[i] \in Nat
  <2>1. samples[i].at \in Int
    <3>1. samples[i] \in Labelled
      BY <1>1
    <3>2. QED
      BY <3>1 DEF Labelled, Snapshot
  <2>2. Distance(query, samples[i]) \in Nat
    BY <2>1, DistanceNatural
  <2>3. weight[i] = Weight(Distance(query, samples[i]), estimator.power)
    BY DEF Weights
  <2>4. QED
    BY <2>2, <2>3, WeightPositive
<1> HIDE DEF near, weight
<1>3. ASSUME NEW c \in Directions
      PROVE  SumFunctionOnSet(weight, {i \in near : samples[i].direction = c}) \in Nat
  <2> DEFINE part == {i \in near : samples[i].direction = c}
  <2>1. IsFiniteSet(part) /\ \A i \in part : weight[i] \in Nat
    BY <1>1, <1>2, FS_Subset
  <2> HIDE DEF part
  <2>2. SumFunctionOnSet(weight, part) \in Nat
    BY <2>1, SumNatural
  <2>3. QED
    BY <2>2 DEF part
<1>4. Mass(near, weight, samples) \in [Directions -> Nat]
  BY <1>3 DEF Mass
<1>5. QED
  BY <1>2, <1>4 DEF near, weight, VoteMass

-----------------------------------------------------------------------------
(* Who wins.                                                               *)

(* Outranks is a strict total order of the directions.                     *)
LEMMA SomeoneOutranks ==
  ASSUME NEW bp \in [Directions -> Int], NEW S \in SUBSET Directions, S # {}
  PROVE  \E c \in S : \A b \in S \ {c} : Outranks(bp, c, b)
<1> DEFINE u == bp["UP"]
           r == bp["RANGE"]
           d == bp["DOWN"]
<1>1. u \in Int /\ r \in Int /\ d \in Int
  BY DEF Directions
<1>2. /\ Outranks(bp, "UP", "RANGE") <=> u >= r
      /\ Outranks(bp, "UP", "DOWN") <=> u >= d
      /\ Outranks(bp, "RANGE", "UP") <=> r > u
      /\ Outranks(bp, "RANGE", "DOWN") <=> r >= d
      /\ Outranks(bp, "DOWN", "UP") <=> d > u
      /\ Outranks(bp, "DOWN", "RANGE") <=> d > r
  BY <1>1 DEF Outranks, Rank
<1> HIDE DEF u, r, d
<1> DEFINE up == "UP" \in S
           rg == "RANGE" \in S
           dn == "DOWN" \in S
<1>3. /\ up => "UP" \in S
      /\ rg => "RANGE" \in S
      /\ dn => "DOWN" \in S
      /\ up \/ rg \/ dn
  BY DEF Directions
<1>4. /\ \A b \in S \ {"UP"} : (b = "RANGE" /\ rg) \/ (b = "DOWN" /\ dn)
      /\ \A b \in S \ {"RANGE"} : (b = "UP" /\ up) \/ (b = "DOWN" /\ dn)
      /\ \A b \in S \ {"DOWN"} : (b = "UP" /\ up) \/ (b = "RANGE" /\ rg)
  BY DEF Directions
<1> HIDE DEF up, rg, dn
<1>5. CASE up /\ (rg => u >= r) /\ (dn => u >= d)
  <2>1. \A b \in S \ {"UP"} : Outranks(bp, "UP", b)
    BY <1>2, <1>4, <1>5
  <2>2. QED
    BY <1>3, <1>5, <2>1
<1>6. CASE rg /\ (up => r > u) /\ (dn => r >= d)
  <2>1. \A b \in S \ {"RANGE"} : Outranks(bp, "RANGE", b)
    BY <1>2, <1>4, <1>6
  <2>2. QED
    BY <1>3, <1>6, <2>1
<1>7. CASE dn /\ (up => d > u) /\ (rg => d > r)
  <2>1. \A b \in S \ {"DOWN"} : Outranks(bp, "DOWN", b)
    BY <1>2, <1>4, <1>7
  <2>2. QED
    BY <1>3, <1>7, <2>1
<1>8. \/ up /\ (rg => u >= r) /\ (dn => u >= d)
      \/ rg /\ (up => r > u) /\ (dn => r >= d)
      \/ dn /\ (up => d > u) /\ (rg => d > r)
  BY <1>1, <1>3
<1>9. QED
  BY <1>5, <1>6, <1>7, <1>8

(* What evaluate_vote returns: at most one vote, enough neighbours, the    *)
(* basis points of their mass, and a winner ahead of every other direction *)
(* by the edge.                                                            *)
LEMMA VoteShape ==
  ASSUME NEW query, query.at \in Int, NEW samples \in Seq(Labelled), NEW estimator,
         NEW v \in Vote(query, samples, estimator)
  PROVE  LET near   == Neighbors(query, samples, estimator)
             weight == Weights(query, samples, estimator)
             bp     == BasisPoints(VoteMass(query, samples, estimator))
         IN  /\ Vote(query, samples, estimator) = {v}
             /\ v.winning \in Directions /\ v.edge \in 0..Unit
             /\ v.probabilities = bp
             /\ \A c \in Directions \ {v.winning} : bp[v.winning] >= bp[c] + v.edge
             /\ \A c \in Directions : bp[v.winning] >= bp[c]
             /\ ~(Cardinality(near) < estimator.support)
             /\ v.passages = {[weight |-> weight[i], bars |-> samples[i].passage, sample |-> i] :
                                i \in {j \in near : samples[j].direction = v.winning}}
<1> DEFINE near   == Neighbors(query, samples, estimator)
           weight == Weights(query, samples, estimator)
           mass   == VoteMass(query, samples, estimator)
           bp     == BasisPoints(mass)
           w == CHOOSE c \in Directions : \A b \in Directions \ {c} : Outranks(bp, c, b)
           s == CHOOSE c \in Directions \ {w} : \A b \in Directions \ {w, c} : Outranks(bp, c, b)
           vote == [winning |-> w, edge |-> bp[w] - bp[s], probabilities |-> bp,
                    support |-> Cardinality(near),
                    passages |->
                      {[weight |-> weight[i], bars |-> samples[i].passage, sample |-> i] :
                         i \in {j \in near : samples[j].direction = w}}]
<1>1. Vote(query, samples, estimator) =
        IF Cardinality(near) < estimator.support THEN {} ELSE {vote}
  BY DEF Vote, VoteMass, Weights
<1>2. ~(Cardinality(near) < estimator.support) /\ v = vote /\ Vote(query, samples, estimator) = {v}
  <2> HIDE DEF near, vote
  <2> QED BY <1>1
<1>3. bp \in [Directions -> 0..Unit] /\ Unit \in Nat
  <2>1. mass \in [Directions -> Nat]
    BY MassNatural
  <2> HIDE DEF mass
  <2>2. QED
    BY <2>1, PointsFaithful, VoteAssumption
<1> HIDE DEF near, weight, mass, bp
<1>4. /\ v.winning = w /\ v.edge = bp[w] - bp[s] /\ v.probabilities = bp
      /\ v.passages = {[weight |-> weight[i], bars |-> samples[i].passage, sample |-> i] :
                         i \in {j \in near : samples[j].direction = w}}
  BY <1>2
<1>5. w \in Directions /\ \A b \in Directions \ {w} : Outranks(bp, w, b)
  <2>1. bp \in [Directions -> Int] /\ Directions # {}
    BY <1>3 DEF Directions
  <2>2. \E c \in Directions : \A b \in Directions \ {c} : Outranks(bp, c, b)
    BY <2>1, SomeoneOutranks
  <2>3. QED
    BY <2>2
<1> HIDE DEF w
<1>6. s \in Directions \ {w} /\ \A b \in Directions \ {w, s} : Outranks(bp, s, b)
  <2>1. bp \in [Directions -> Int] /\ Directions \ {w} # {}
    <3>1. "UP" \in Directions \ {w} \/ "RANGE" \in Directions \ {w}
      BY DEF Directions
    <3>2. QED
      BY <1>3, <3>1
  <2>2. \E c \in Directions \ {w} : \A b \in (Directions \ {w}) \ {c} : Outranks(bp, c, b)
    BY <2>1, SomeoneOutranks
  <2>3. \E c \in Directions \ {w} : \A b \in Directions \ {w, c} : Outranks(bp, c, b)
    BY <2>2
  <2>4. QED
    BY <2>3
<1> HIDE DEF s
<1>7. \A c \in Directions : bp[c] \in 0..Unit
  BY <1>3
<1>8. bp[w] >= bp[s] /\ \A c \in Directions \ {w} : bp[s] >= bp[c]
  BY <1>5, <1>6, <1>7 DEF Outranks
<1>9. v.edge \in 0..Unit
  BY <1>3, <1>4, <1>5, <1>6, <1>7, <1>8
<1>10. \A c \in Directions \ {w} : bp[w] >= bp[c] + v.edge
  BY <1>4, <1>5, <1>6, <1>7, <1>8
<1>11. \A c \in Directions : bp[w] >= bp[c]
  BY <1>5, <1>6, <1>7, <1>8
<1>12. QED
  BY <1>2, <1>4, <1>5, <1>9, <1>10, <1>11 DEF near, weight, bp, mass


-----------------------------------------------------------------------------
(* Quantiles of first passages.                                            *)

(* The weight of the passages within the bars, and the bars by which       *)
(* quarters/4 of all the weight has passed.                                *)
By(passages, bars) ==
  SumFunctionOnSet([p \in passages |-> p.weight], {p \in passages : p.bars <= bars})
Whole(passages) == SumFunctionOnSet([p \in passages |-> p.weight], passages)
Reached(passages, quarters) ==
  {p.bars : p \in {q \in passages : 4 * By(passages, q.bars) >= quarters * Whole(passages)}}

(* weighted_quantile is the least of them.                                 *)
LEMMA QuantileIs ==
  ASSUME NEW passages, NEW quarters
  PROVE  Quantile(passages, quarters) =
           CHOOSE b \in Reached(passages, quarters) : \A c \in Reached(passages, quarters) : b <= c
BY DEF Quantile, Reached, By, Whole

(* Some passage is reached, and fewer for more quarters.                   *)
LEMMA SomeReached ==
  ASSUME NEW passages, IsFiniteSet(passages), passages # {},
         \A p \in passages : p.weight \in Nat /\ p.bars \in Nat,
         NEW quarters \in 1..3
  PROVE  /\ Reached(passages, quarters) # {}
         /\ Reached(passages, quarters) \subseteq {p.bars : p \in passages}
         /\ \A more \in 1..3 : quarters <= more =>
              Reached(passages, more) \subseteq Reached(passages, quarters)
<1> DEFINE weight == [p \in passages |-> p.weight]
           total  == Whole(passages)
<1>1. \A bars : By(passages, bars) \in Nat
  <2> TAKE bars
  <2> DEFINE part == {p \in passages : p.bars <= bars}
  <2>1. IsFiniteSet(part) /\ \A p \in part : weight[p] \in Nat
    BY FS_Subset
  <2> HIDE DEF part, weight
  <2>2. SumFunctionOnSet(weight, part) \in Nat
    BY <2>1, SumNatural
  <2>3. QED
    BY <2>2 DEF By, part, weight
<1>2. total \in Nat
  <2>1. \A p \in passages : weight[p] \in Nat
    OBVIOUS
  <2> HIDE DEF weight
  <2>2. SumFunctionOnSet(weight, passages) \in Nat
    BY <2>1, SumNatural
  <2>3. QED
    BY <2>2 DEF Whole, weight
<1>3. Reached(passages, quarters) # {}
  <2> DEFINE T == {p.bars : p \in passages}
  <2>1. PICK last \in passages : \A p \in passages : p.bars <= last.bars
    <3> DEFINE bars == [p \in passages |-> p.bars]
    <3>1. IsFiniteSet(T) /\ T # {} /\ T \in SUBSET Nat
      <4>1. T = {bars[p] : p \in passages}
        OBVIOUS
      <4>2. IsFiniteSet({bars[p] : p \in passages})
        <5> HIDE DEF bars
        <5> QED BY ImageFinite
      <4>3. QED
        BY <4>1, <4>2
    <3>2. \E b \in T : \A c \in T : c <= b
      <4> HIDE DEF T
      <4> QED BY <3>1, FiniteGreatest
    <3>3. QED
      BY <3>2
  <2>2. {p \in passages : p.bars <= last.bars} = passages
    BY <2>1
  <2>3. By(passages, last.bars) = total
    BY <2>2 DEF By, Whole
  <2>4. 4 * total >= quarters * total
    <3>1. quarters = 1 \/ quarters = 2 \/ quarters = 3
      OBVIOUS
    <3> HIDE DEF total
    <3>2. 1 * total = total /\ 4 * total >= 2 * total /\ 4 * total >= 3 * total
          /\ 4 * total >= total
      BY <1>2
    <3>3. QED
      BY <3>1, <3>2
  <2>5. QED
    BY <2>3, <2>4 DEF Reached
<1>4. ASSUME NEW more \in 1..3, quarters <= more
      PROVE  Reached(passages, more) \subseteq Reached(passages, quarters)
  <2> HIDE DEF total
  <2>1. PICK extra \in Nat : more = quarters + extra
    <3>1. more - quarters \in Nat /\ more = quarters + (more - quarters)
      BY <1>4
    <3>2. QED
      BY <3>1
  <2>2. more * total >= quarters * total
    <3>1. (quarters + extra) * total = quarters * total + extra * total
      BY <1>2
    <3>2. extra * total \in Nat /\ quarters * total \in Nat
      BY <1>2
    <3>3. QED
      BY <2>1, <3>1, <3>2
  <2>3. more * total \in Nat /\ quarters * total \in Nat
    BY <1>2
  <2>4. ASSUME NEW p \in passages, 4 * By(passages, p.bars) >= more * total
        PROVE  4 * By(passages, p.bars) >= quarters * total
    <3>1. 4 * By(passages, p.bars) \in Nat
      BY <1>1
    <3>2. QED
      BY <2>2, <2>3, <2>4, <3>1
  <2>5. QED
    BY <2>4 DEF Reached, total
<1>5. QED
  BY <1>3, <1>4 DEF Reached

(* The quartiles are first passages, in order.                             *)
LEMMA QuartilesOrdered ==
  ASSUME NEW passages, IsFiniteSet(passages), passages # {},
         \A p \in passages : p.weight \in Nat /\ p.bars \in Nat
  PROVE  LET h == HorizonOf(passages)
         IN  /\ \A k \in 1..3 : h[k] \in {p.bars : p \in passages}
             /\ h[1] <= h[2] /\ h[2] <= h[3]
<1>1. ASSUME NEW k \in 1..3
      PROVE  /\ Quantile(passages, k) \in Reached(passages, k)
             /\ \A c \in Reached(passages, k) : Quantile(passages, k) <= c
  <2> DEFINE T == Reached(passages, k)
  <2>1. T # {} /\ T \subseteq {p.bars : p \in passages}
    BY SomeReached
  <2>2. T \in SUBSET Nat
    BY <2>1
  <2>3. Quantile(passages, k) = CHOOSE b \in T : \A c \in T : b <= c
    BY QuantileIs
  <2> HIDE DEF T
  <2>4. \E b \in T : \A c \in T : b <= c
    BY <2>1, <2>2, LeastNatural
  <2>5. QED
    BY <2>3, <2>4 DEF T
<1>2. ASSUME NEW k \in 1..3, NEW l \in 1..3, k <= l
      PROVE  Quantile(passages, k) <= Quantile(passages, l)
  <2>1. Quantile(passages, l) \in Reached(passages, k)
    BY <1>1, <1>2, SomeReached
  <2>2. QED
    BY <1>1, <2>1
<1>3. ASSUME NEW k \in 1..3 PROVE Quantile(passages, k) \in {p.bars : p \in passages}
  BY <1>1, SomeReached
<1>4. HorizonOf(passages) =
        <<Quantile(passages, 1), Quantile(passages, 2), Quantile(passages, 3)>>
  BY DEF HorizonOf
<1>5. /\ Quantile(passages, 1) <= Quantile(passages, 2)
      /\ Quantile(passages, 2) <= Quantile(passages, 3)
  BY <1>2
<1>6. QED
  BY <1>3, <1>4, <1>5


-----------------------------------------------------------------------------
(* A vote about a query of the runtime.                                    *)

Tried == UNION {Menu[i] : i \in DOMAIN Menu}

(* A query has a coordinate.                                               *)
LEMMA QueryAt == ASSUME NEW query \in Queries PROVE query.at \in Int
<1>1. query \in Snapshot({"UNRESOLVED"})
  BY MenuAssumption
<1>2. QED
  BY <1>1 DEF Snapshot

(* The neighbours of a vote have weight.                                   *)
LEMMA HeavyVote ==
  ASSUME NEW query \in Queries, NEW samples \in Seq(Labelled),
         \A i \in 1..Len(samples) : samples[i] \in Tried,
         NEW estimator, estimator.support \in Nat \ {0},
         NEW v \in Vote(query, samples, estimator)
  PROVE  SumFunctionOnSet(VoteMass(query, samples, estimator), Directions) > 0
<1> DEFINE near   == Neighbors(query, samples, estimator)
           weight == Weights(query, samples, estimator)
           mass   == VoteMass(query, samples, estimator)
<1>1. query.at \in Int
  BY QueryAt
<1>2. /\ near \subseteq 1..Len(samples) /\ IsFiniteSet(near)
      /\ Cardinality(near) \in Nat /\ ~(Cardinality(near) < estimator.support)
  <2>1. /\ near \subseteq 1..Len(samples) /\ IsFiniteSet(near)
        /\ Cardinality(near) \in 0..Len(samples)
    BY NeighborsMatch
  <2>2. ~(Cardinality(near) < estimator.support)
    BY <1>1, VoteShape
  <2>3. QED
    BY <2>1, <2>2
<1>3. PICK n \in near : TRUE
  <2>1. Cardinality(near) # 0
    BY <1>2
  <2> HIDE DEF near
  <2>2. near # {}
    BY <2>1, FS_EmptySet
  <2>3. QED
    BY <2>2
<1>4. ASSUME NEW i \in near PROVE weight[i] \in Nat /\ weight[i] > 0
  <2>1. samples[i] \in Labelled /\ samples[i] \in Tried
    BY <1>2
  <2>2. samples[i].at \in Int
    BY <2>1 DEF Labelled, Snapshot
  <2> DEFINE far == Distance(query, samples[i])
  <2>3. far \in Nat
    BY <1>1, <2>2, DistanceNatural
  <2>4. far # 0 => DistanceScale % far = 0
    BY <2>1, DistanceAssumption DEF Tried
  <2>5. weight[i] = Weight(far, estimator.power)
    BY DEF Weights
  <2> HIDE DEF far
  <2>6. QED
    BY <2>3, <2>4, <2>5, WeightPositive
<1>5. mass \in [Directions -> Nat]
  BY <1>1, MassNatural
<1> DEFINE d == samples[n].direction
<1>6. d \in Directions
  <2>1. samples[n] \in Labelled
    BY <1>2, <1>3
  <2>2. QED
    BY <2>1 DEF Labelled, Snapshot
<1>7. mass[d] > 0
  <2> DEFINE part == {i \in near : samples[i].direction = d}
  <2>1. IsFiniteSet(part) /\ part # {} /\ \A i \in part : weight[i] \in Nat /\ weight[i] > 0
    BY <1>2, <1>3, <1>4, FS_Subset
  <2>2. mass[d] = SumFunctionOnSet(weight, part)
    BY <1>6 DEF VoteMass, Mass
  <2> HIDE DEF part, weight
  <2>3. QED
    BY <2>1, <2>2, SumNatural
<1> HIDE DEF mass, d
<1>8. SumFunctionOnSet(mass, Directions) = mass["UP"] + mass["RANGE"] + mass["DOWN"]
  BY <1>5, DirectionSum
<1>9. mass["UP"] \in Nat /\ mass["RANGE"] \in Nat /\ mass["DOWN"] \in Nat
  BY <1>5 DEF Directions
<1>10. d = "UP" \/ d = "RANGE" \/ d = "DOWN"
  BY <1>6 DEF Directions
<1>11. SumFunctionOnSet(mass, Directions) > 0
  BY <1>7, <1>8, <1>9, <1>10
<1>12. QED
  BY <1>11 DEF mass

(* The winner of a vote with weight has neighbours that went its way.      *)
LEMMA WinnerHasPassages ==
  ASSUME NEW query \in Queries, NEW samples \in Seq(Labelled),
         \A i \in 1..Len(samples) : samples[i] \in Tried,
         NEW estimator, estimator.support \in Nat \ {0},
         NEW v \in Vote(query, samples, estimator)
  PROVE  /\ IsFiniteSet(v.passages) /\ v.passages # {}
         /\ \A p \in v.passages :
              /\ p.weight \in Nat /\ p.bars \in Nat
              /\ \E i \in Matching(query, samples) : /\ samples[i].passage = p.bars
                                                     /\ samples[i].direction = v.winning
<1> DEFINE near   == Neighbors(query, samples, estimator)
           weight == Weights(query, samples, estimator)
           mass   == VoteMass(query, samples, estimator)
           bp     == BasisPoints(mass)
           total  == SumFunctionOnSet(mass, Directions)
           part   == {j \in near : samples[j].direction = v.winning}
           seen   == [i \in part |->
                        [weight |-> weight[i], bars |-> samples[i].passage, sample |-> i]]
<1>1. query.at \in Int
  BY QueryAt
<1>2. /\ near \subseteq 1..Len(samples) /\ IsFiniteSet(near)
      /\ near \subseteq Matching(query, samples)
  BY NeighborsMatch
<1>3. /\ v.winning \in Directions
      /\ \A c \in Directions : bp[v.winning] >= bp[c]
      /\ v.passages =
           {[weight |-> weight[i], bars |-> samples[i].passage, sample |-> i] : i \in part}
  BY <1>1, VoteShape
<1>4. v.passages = {seen[i] : i \in part}
  BY <1>3
<1>5. IsFiniteSet(part)
  BY <1>2, FS_Subset
<1>6. \A i \in near : weight[i] \in Nat
  BY <1>1, MassNatural
<1>7. \A i \in near : samples[i].passage \in Nat
  <2> TAKE i \in near
  <2>1. samples[i] \in Labelled
    BY <1>2
  <2>2. QED
    BY <2>1 DEF Labelled, Snapshot
<1>8. part # {}
  <2>1. mass \in [Directions -> Nat]
    BY <1>1, MassNatural
  <2>2. total > 0
    BY HeavyVote
  <2>3. Unit \in Nat \ {0}
    BY VoteAssumption
  <2>4. mass[v.winning] = SumFunctionOnSet(weight, part)
    BY <1>3 DEF VoteMass, Mass
  <2>5. part = {} => mass[v.winning] = 0
    <3> HIDE DEF part, weight, mass
    <3> QED BY <2>4, SumEmpty
  <2> HIDE DEF part, weight, mass, total, bp
  <2>6. total \in Nat
    <3>1. total = mass["UP"] + mass["RANGE"] + mass["DOWN"]
      BY <2>1, DirectionSum DEF total
    <3>2. QED
      BY <2>1, <3>1 DEF Directions
  <2>7. /\ bp \in [Directions -> 0..Unit] /\ SumFunctionOnSet(bp, Directions) = Unit
        /\ bp[v.winning] * total < mass[v.winning] * Unit + total
    BY <1>3, <2>1, <2>2, PointsFaithful DEF bp, total
  <2>8. bp[v.winning] # 0
    <3>1. SumFunctionOnSet(bp, Directions) = bp["UP"] + bp["RANGE"] + bp["DOWN"]
      BY <2>7, DirectionSum
    <3>2. bp["UP"] \in 0..Unit /\ bp["RANGE"] \in 0..Unit /\ bp["DOWN"] \in 0..Unit
      BY <2>7 DEF Directions
    <3>3. /\ bp[v.winning] >= bp["UP"] /\ bp[v.winning] >= bp["RANGE"]
          /\ bp[v.winning] >= bp["DOWN"]
      BY <1>3 DEF Directions
    <3>4. QED
      BY <2>3, <2>7, <3>1, <3>2, <3>3
  <2>9. bp[v.winning] \in Nat \ {0}
    BY <1>3, <2>3, <2>7, <2>8
  <2>10. bp[v.winning] * total >= total
    <3>1. PICK rest \in Nat : bp[v.winning] = rest + 1
      <4>1. bp[v.winning] - 1 \in Nat /\ bp[v.winning] = (bp[v.winning] - 1) + 1
        BY <2>9
      <4>2. QED
        BY <4>1
    <3>2. (rest + 1) * total = rest * total + total /\ rest * total \in Nat
      BY <2>6
    <3>3. QED
      BY <2>6, <3>1, <3>2
  <2>11. mass[v.winning] = 0 => mass[v.winning] * Unit + total = total
    BY <2>3, <2>6
  <2>12. bp[v.winning] * total \in Nat
    BY <2>6, <2>9
  <2>13. QED
    BY <2>5, <2>6, <2>7, <2>10, <2>11, <2>12
<1>9. IsFiniteSet({seen[i] : i \in part})
  <2> HIDE DEF seen, part
  <2> QED BY <1>5, ImageFinite
<1>10. v.passages # {}
  <2> HIDE DEF seen, part
  <2>1. PICK i \in part : TRUE
    BY <1>8
  <2>2. seen[i] \in v.passages
    BY <1>4, <2>1
  <2>3. QED
    BY <2>2
<1>11. ASSUME NEW p \in v.passages
       PROVE  /\ p.weight \in Nat /\ p.bars \in Nat
              /\ \E i \in Matching(query, samples) : /\ samples[i].passage = p.bars
                                                     /\ samples[i].direction = v.winning
  <2>1. PICK i \in part : p = [weight |-> weight[i], bars |-> samples[i].passage, sample |-> i]
    BY <1>3
  <2>2. p.weight = weight[i] /\ p.bars = samples[i].passage
    BY <2>1
  <2>3. i \in near /\ samples[i].direction = v.winning
    BY <2>1
  <2> HIDE DEF near, weight, part
  <2>4. QED
    BY <1>2, <1>6, <1>7, <2>2, <2>3
<1>12. QED
  BY <1>4, <1>9, <1>10, <1>11


-----------------------------------------------------------------------------
(* The segments of the corpus.                                             *)

(* The test has at least one snapshot.                                     *)
LEMMA CountsPositive ==
  ASSUME NEW n \in Nat
  PROVE  /\ IntegerSqrt(n) \in Nat /\ IntegerLog2(n) \in Nat
         /\ TestCount(n) \in Nat \ {0}
<1>1. IntegerSqrt(n) \in Nat
  <2> DEFINE T == {r \in 1..n : r * r <= n}
  <2>1. IsFiniteSet(1..n) /\ T \subseteq 1..n
    BY FS_Interval
  <2> HIDE DEF T
  <2>2. Cardinality(T) \in Nat
    BY <2>1, FS_Subset, FS_CardinalityType
  <2>3. QED
    BY <2>2 DEF IntegerSqrt, T
<1>2. IntegerLog2(n) \in Nat
  <2> DEFINE T == {k \in 0..n : 2^k <= n}
  <2>1. T \subseteq 0..n
    BY Zenon
  <2>2. IntegerLog2(n) = Cardinality(T)
    BY Zenon DEF IntegerLog2
  <2> HIDE DEF T
  <2>3. IsFiniteSet(0..n)
    BY FS_Interval
  <2>4. Cardinality(T) \in Nat
    BY <2>1, <2>3, FS_Subset, FS_CardinalityType
  <2>5. QED
    BY <2>2, <2>4
<1>3. TestCount(n) \in Nat \ {0}
  BY <1>1 DEF TestCount, Greatest
<1>4. QED
  BY <1>1, <1>2, <1>3

(* A segment.                                                              *)
LEMMA Segment ==
  ASSUME NEW S, NEW s \in Seq(S), NEW a \in Nat \ {0}, NEW b \in Int, b <= Len(s)
  PROVE  /\ SubSeq(s, a, b) \in Seq(S)
         /\ Len(SubSeq(s, a, b)) = IF a <= b + 1 THEN b + 1 - a ELSE 0
         /\ \A i \in 1..Len(SubSeq(s, a, b)) : SubSeq(s, a, b)[i] = s[a + i - 1]
OBVIOUS

(* Segments of equal parts of two sequences are equal.                     *)
LEMMA SameSegment ==
  ASSUME NEW S, NEW s \in Seq(S), NEW t \in Seq(S), Len(s) = Len(t),
         NEW a \in Nat \ {0}, NEW b \in Int, b <= Len(s),
         \A j \in 1..b : s[j] = t[j]
  PROVE  SubSeq(s, a, b) = SubSeq(t, a, b)
OBVIOUS


-----------------------------------------------------------------------------
(* Held-out cases.                                                         *)

Cases(n) ==
  {cases \in SUBSET [row : 1..n, actual : Directions, predicted : Directions,
                     probabilities : [Directions -> 0..Unit], edge : 0..Unit] :
     \A c, d \in cases : c.row = d.row => c = d}

(* Every row gives at most one case.                                       *)
LEMMA CasesOfScore ==
  ASSUME NEW rows \in Seq(Labelled), NEW samples \in Seq(Labelled), NEW estimator
  PROVE  Score(rows, samples, estimator) \in Cases(Len(rows))
<1> DEFINE cases == Score(rows, samples, estimator)
<1>1. ASSUME NEW c \in cases
      PROVE  /\ c.row \in 1..Len(rows)
             /\ \E v \in Vote(rows[c.row], samples, estimator) :
                  c = [row |-> c.row, actual |-> rows[c.row].direction, predicted |-> v.winning,
                       probabilities |-> v.probabilities, edge |-> v.edge]
  <2>1. PICK i \in DOMAIN rows : \E v \in Vote(rows[i], samples, estimator) :
          c = [row |-> i, actual |-> rows[i].direction, predicted |-> v.winning,
               probabilities |-> v.probabilities, edge |-> v.edge]
    BY DEF Score
  <2>2. c.row = i /\ DOMAIN rows = 1..Len(rows)
    BY <2>1
  <2>3. QED
    BY <2>1, <2>2
<1> HIDE DEF cases
<1>2. ASSUME NEW i \in 1..Len(rows) PROVE rows[i].at \in Int /\ rows[i].direction \in Directions
  <2>1. rows[i] \in Labelled
    OBVIOUS
  <2>2. QED
    BY <2>1 DEF Labelled, Snapshot
<1>3. ASSUME NEW i \in 1..Len(rows), NEW v \in Vote(rows[i], samples, estimator)
      PROVE  /\ v.winning \in Directions /\ v.probabilities \in [Directions -> 0..Unit]
             /\ v.edge \in 0..Unit /\ Vote(rows[i], samples, estimator) = {v}
  <2>1. PICK q : q = rows[i]
    OBVIOUS
  <2>2. q.at \in Int /\ v \in Vote(q, samples, estimator)
    BY <1>2, <1>3, <2>1
  <2>3. VoteMass(q, samples, estimator) \in [Directions -> Nat]
    BY <2>2, MassNatural
  <2>4. BasisPoints(VoteMass(q, samples, estimator)) \in [Directions -> 0..Unit]
    BY <2>3, PointsFaithful
  <2>5. QED
    BY <2>1, <2>2, <2>4, VoteShape
<1>4. ASSUME NEW c \in cases
      PROVE  c \in [row : 1..Len(rows), actual : Directions, predicted : Directions,
                    probabilities : [Directions -> 0..Unit], edge : 0..Unit]
  BY <1>1, <1>2, <1>3
<1>5. ASSUME NEW c \in cases, NEW d \in cases, c.row = d.row PROVE c = d
  <2>1. PICK i \in 1..Len(rows) : i = c.row /\ i = d.row
    BY <1>1, <1>5
  <2>2. PICK v \in Vote(rows[i], samples, estimator) :
          c = [row |-> i, actual |-> rows[i].direction, predicted |-> v.winning,
               probabilities |-> v.probabilities, edge |-> v.edge]
    BY <1>1, <2>1
  <2>3. PICK w \in Vote(rows[i], samples, estimator) :
          d = [row |-> i, actual |-> rows[i].direction, predicted |-> w.winning,
               probabilities |-> w.probabilities, edge |-> w.edge]
    BY <1>1, <2>1
  <2>4. v = w
    BY <1>3
  <2>5. QED
    BY <2>2, <2>3, <2>4
<1>6. QED
  BY <1>4, <1>5 DEF Cases, cases

(* There are no more cases than rows.                                      *)
LEMMA CasesFinite ==
  ASSUME NEW n \in Nat, NEW cases \in Cases(n)
  PROVE  IsFiniteSet(cases) /\ Cardinality(cases) \in 0..n
<1> DEFINE f == [c \in cases |-> c.row]
<1>1. f \in Injection(cases, 1..n)
  BY DEF Cases, Injection, IsInjective
<1>2. IsFiniteSet(1..n) /\ Cardinality(1..n) = n
  BY FS_Interval
<1> HIDE DEF f
<1>3. IsFiniteSet(cases) /\ Cardinality(cases) <= n
  BY <1>1, <1>2, FS_Injection
<1>4. QED
  BY <1>3, FS_CardinalityType

(* So are the cases of one direction.                                      *)
LEMMA SomeCases ==
  ASSUME NEW n \in Nat, NEW cases \in Cases(n), NEW part \in SUBSET cases
  PROVE  part \in Cases(n)
BY DEF Cases

(* The cases that were right.                                              *)
LEMMA RightCases ==
  ASSUME NEW n \in Nat, NEW cases \in Cases(n)
  PROVE  /\ IsFiniteSet(Right(cases)) /\ Right(cases) \subseteq cases
         /\ Cardinality(Right(cases)) \in 0..Cardinality(cases)
<1>1. IsFiniteSet(cases) /\ Right(cases) \subseteq cases
  BY CasesFinite DEF Right
<1>2. IsFiniteSet(Right(cases)) /\ Cardinality(Right(cases)) <= Cardinality(cases)
  BY <1>1, FS_Subset
<1>3. QED
  BY <1>1, <1>2, FS_CardinalityType

(* A lower bound is a number of basis points, and positive where few       *)
(* trials had a success.                                                   *)
LEMMA LowerBoundType ==
  ASSUME NEW n \in 0..Len(Menu), NEW cases \in Cases(n)
  PROVE  /\ LowerBound(cases) \in 0..Unit
         /\ n <= TestCount(Len(Menu)) /\ Right(cases) # {} => LowerBound(cases) > 0
<1> DEFINE k == Cardinality(Right(cases))
           m == Cardinality(cases)
<1>1. /\ m \in 0..n /\ k \in 0..m /\ n \in Nat /\ Len(Menu) \in Nat
      /\ Right(cases) # {} => k # 0
  <2>1. n \in Nat /\ Len(Menu) \in Nat
    BY MenuAssumption
  <2>2. m \in 0..n
    BY <2>1, CasesFinite
  <2>3. k \in 0..m /\ IsFiniteSet(Right(cases))
    BY <2>1, RightCases
  <2>4. Right(cases) # {} => k # 0
    BY <2>3, FS_EmptySet
  <2>5. QED
    BY <2>1, <2>2, <2>3, <2>4
<1>2. LowerBound(cases) = WilsonLower(k, m)
  BY DEF LowerBound
<1> HIDE DEF k, m
<1>3. m \in 0..Len(Menu)
  BY <1>1
<1>4. WilsonLower(k, m) \in 0..Unit
  BY <1>1, <1>3, WilsonAssumption
<1>5. ASSUME n <= TestCount(Len(Menu)), Right(cases) # {} PROVE WilsonLower(k, m) > 0
  <2>1. TestCount(Len(Menu)) \in Nat
    BY <1>1, CountsPositive
  <2>2. m \in 1..TestCount(Len(Menu)) /\ k \in 1..m
    BY <1>1, <1>5, <2>1
  <2>3. QED
    BY <2>2, WilsonSeparates
<1>6. QED
  BY <1>2, <1>4, <1>5

(* The upper median of the edges of the right cases exists; without one    *)
(* the least edge is all of the basis points.                              *)
LEMMA MinimumEdgeType ==
  ASSUME NEW n \in Nat, NEW cases \in Cases(n)
  PROVE  MinimumEdge(cases) \in 0..Unit /\ (Right(cases) = {} => MinimumEdge(cases) = Unit)
<1> DEFINE right  == Right(cases)
           half   == Cardinality(right) \div 2
           edges  == {c.edge : c \in right}
           To(e)  == {c \in right : c.edge <= e}
           most   == {e \in edges : Cardinality(To(e)) > half}
<1>1. Unit \in Nat
  BY VoteAssumption
<1>2. CASE right = {}
  BY <1>1, <1>2 DEF MinimumEdge
<1>3. CASE right # {}
  <2>1. IsFiniteSet(right) /\ \A c \in right : c.edge \in 0..Unit
    <3>1. \A c \in cases : c.edge \in 0..Unit
      BY DEF Cases
    <3>2. QED
      BY <3>1, RightCases
  <2>2. Cardinality(right) \in Nat \ {0}
    BY <1>3, <2>1, FS_CardinalityType, FS_EmptySet
  <2>3. half \in Nat /\ half < Cardinality(right)
    <3> DEFINE size == Cardinality(right)
    <3>1. size \in Nat \ {0}
      BY <2>2
    <3> HIDE DEF size
    <3>2. size = 2 * (size \div 2) + (size % 2) /\ size % 2 \in 0..1 /\ size \div 2 \in Nat
      BY <3>1, Division
    <3>3. size \div 2 < size
      BY <3>1, <3>2
    <3>4. QED
      BY <3>2, <3>3 DEF size
  <2>4. MinimumEdge(cases) =
          CHOOSE e \in edges : Cardinality({c \in right : c.edge < e}) <= half
                               /\ Cardinality(To(e)) > half
    BY <1>3 DEF MinimumEdge
  <2>5. IsFiniteSet(edges) /\ edges # {} /\ edges \in SUBSET (0..Unit)
    <3> DEFINE edge == [c \in right |-> c.edge]
    <3>1. edges = {edge[c] : c \in right}
      OBVIOUS
    <3>2. edges # {} /\ edges \in SUBSET (0..Unit)
      BY <1>3, <2>1
    <3> HIDE DEF edge, edges, right
    <3>3. QED
      BY <2>1, <3>1, <3>2, ImageFinite
  <2>6. PICK top \in edges : \A e \in edges : e <= top
    <3> HIDE DEF edges
    <3> QED BY <1>1, <2>5, FiniteGreatest
  <2>7. top \in most
    <3>1. To(top) = right
      BY <2>6
    <3>2. QED
      BY <2>3, <2>6, <3>1
  <2>8. PICK e \in most : \A f \in most : e <= f
    <3>1. most # {} /\ most \subseteq edges
      BY <2>7
    <3> HIDE DEF most, edges
    <3>2. most \in SUBSET Nat
      BY <1>1, <2>5, <3>1
    <3>3. QED
      BY <3>1, <3>2, LeastNatural
  <2>9. Cardinality({c \in right : c.edge < e}) <= half
    <3> DEFINE below == {f \in edges : f < e}
    <3>1. CASE below = {}
      <4>1. {c \in right : c.edge < e} = {}
        BY <3>1
      <4>2. Cardinality({c \in right : c.edge < e}) = 0
        BY <4>1, FS_EmptySet
      <4> HIDE DEF half
      <4>3. QED
        BY <2>3, <4>2
    <3>2. CASE below # {}
      <4>1. PICK f \in below : \A g \in below : g <= f
        <5>1. IsFiniteSet(below) /\ below \in SUBSET Nat
          BY <2>5, FS_Subset
        <5> HIDE DEF below
        <5>2. QED
          BY <3>2, <5>1, FiniteGreatest
      <4>2. e \in Nat /\ f \in Nat /\ f < e /\ f \in edges
        BY <2>5, <2>8, <4>1
      <4>3. {c \in right : c.edge < e} = To(f)
        <5>1. ASSUME NEW c \in right PROVE c.edge < e <=> c.edge <= f
          <6>1. c.edge \in 0..Unit /\ c.edge \in edges
            BY <2>1
          <6>2. c.edge < e => c.edge <= f
            BY <4>1, <6>1
          <6>3. QED
            BY <1>1, <4>2, <6>1, <6>2
        <5>2. QED
          BY <5>1
      <4>4. f \notin most
        BY <2>8, <4>2
      <4>5. ~(Cardinality(To(f)) > half)
        BY <4>2, <4>4
      <4>6. Cardinality(To(f)) \in Nat
        <5>1. IsFiniteSet(To(f))
          BY <2>1, FS_Subset
        <5>2. QED
          BY <5>1, FS_CardinalityType
      <4>7. PICK m \in Nat : m = Cardinality(To(f)) /\ m = Cardinality({c \in right : c.edge < e})
        BY <4>3, <4>6
      <4> HIDE DEF To, half, right
      <4>8. QED
        BY <2>3, <4>5, <4>7
    <3>3. QED
      BY <3>1, <3>2
  <2>10. e \in edges /\ Cardinality(To(e)) > half
    BY <2>8
  <2> HIDE DEF To, half, edges, right, most
  <2>11. MinimumEdge(cases) \in edges
    BY <2>4, <2>9, <2>10
  <2>12. QED
    BY <1>3, <2>5, <2>11 DEF right
<1>4. QED
  BY <1>2, <1>3


-----------------------------------------------------------------------------
(* The builder.                                                            *)

(* Parameters are selected in one way, and a reliability gate of zero      *)
(* comes with an edge gate of everything.                                  *)
LEMMA SelectedGates ==
  ASSUME NEW training \in Seq(Labelled), NEW validation \in Seq(Labelled),
         Len(validation) <= Len(Menu), Len(validation) <= TestCount(Len(Menu)),
         NEW s \in Selected(training, validation)
  PROVE  /\ Selected(training, validation) = {s}
         /\ s.estimator.support \in Nat \ {0}
         /\ s.minimumEdge \in 0..Unit /\ s.minimumReliability \in 0..Unit
         /\ s.minimumReliability = 0 => s.minimumEdge = Unit
<1> DEFINE count   == Greatest(IntegerSqrt(Len(training)), 1)
           cutoffs == UNION {KthDistance(validation[i], training, count) :
                               i \in DOMAIN validation}
           Estimator(p) ==
             [count    |-> count,
              support  |-> Least(Greatest(IntegerLog2(Len(training)), 1), count),
              distance |-> CHOOSE d \in cutoffs : \A e \in cutoffs : e <= d,
              power    |-> p]
           one     == Score(validation, training, Estimator(1))
           two     == Score(validation, training, Estimator(2))
           power   == IF Cardinality(Right(two)) > Cardinality(Right(one)) THEN 2 ELSE 1
           cases   == IF power = 2 THEN two ELSE one
           chosen  == [estimator          |-> Estimator(power),
                       minimumEdge        |-> MinimumEdge(cases),
                       minimumReliability |-> LowerBound(cases)]
<1>1. Selected(training, validation) =
        IF Len(training) < MinimumSegment \/ cutoffs = {} THEN {} ELSE {chosen}
  BY DEF Selected
<1>2. s = chosen /\ Selected(training, validation) = {s}
  <2> HIDE DEF chosen, cutoffs
  <2> QED BY <1>1
<1>3. one \in Cases(Len(validation)) /\ two \in Cases(Len(validation))
  <2> HIDE DEF Estimator
  <2> QED BY CasesOfScore
<1>4. s.estimator.support = Least(Greatest(IntegerLog2(Len(training)), 1), count)
  <2> HIDE DEF power, cases, count, cutoffs
  <2> QED BY <1>2
<1>5. s.minimumEdge = MinimumEdge(cases) /\ s.minimumReliability = LowerBound(cases)
  <2> HIDE DEF power, cases, Estimator
  <2> QED BY <1>2
<1> HIDE DEF one, two, power
<1>6. cases \in Cases(Len(validation))
  BY <1>3
<1> HIDE DEF cases
<1>7. /\ Len(validation) \in 0..Len(Menu) /\ Len(validation) \in Nat
      /\ Len(training) \in Nat
  BY MenuAssumption
<1>8. /\ LowerBound(cases) \in 0..Unit
      /\ Right(cases) # {} => LowerBound(cases) > 0
  BY <1>6, <1>7, LowerBoundType
<1>9. MinimumEdge(cases) \in 0..Unit /\ (Right(cases) = {} => MinimumEdge(cases) = Unit)
  BY <1>6, <1>7, MinimumEdgeType
<1>10. s.estimator.support \in Nat \ {0}
  <2>1. IntegerLog2(Len(training)) \in Nat /\ IntegerSqrt(Len(training)) \in Nat
    BY <1>7, CountsPositive
  <2>2. QED
    BY <1>4, <2>1 DEF Least, Greatest
<1>11. s.minimumReliability = 0 => s.minimumEdge = Unit
  <2>1. LowerBound(cases) = 0 => Right(cases) = {}
    BY <1>8
  <2>2. QED
    BY <1>5, <1>9, <2>1
<1>12. QED
  BY <1>2, <1>5, <1>8, <1>9, <1>10, <1>11

(* Without cases there is no positive skill.                               *)
LEMMA NoCasesNoSkill ==
  ASSUME NEW samples \in Seq(Labelled)
  PROVE  ~PositiveSkill({}, samples)
<1> DEFINE n == Len(samples)
           climate == [c \in Directions |-> Cardinality({i \in 1..n : samples[i].direction = c})]
           loss    == [c \in {} |-> SquaredError(c.probabilities, Unit, c.actual)]
           guess   == [c \in {} |-> SquaredError(climate, n, c.actual)]
<1>1. PositiveSkill({}, samples) <=>
        SumFunctionOnSet(loss, {}) * n * n < SumFunctionOnSet(guess, {}) * Unit * Unit
  BY DEF PositiveSkill
<1>2. SumFunctionOnSet(loss, {}) = 0 /\ SumFunctionOnSet(guess, {}) = 0
  <2> HIDE DEF loss, guess
  <2> QED BY SumEmpty
<1>3. n \in Nat /\ Unit \in Nat
  BY VoteAssumption
<1> HIDE DEF n, loss, guess
<1>4. 0 * n * n = 0 /\ 0 * Unit * Unit = 0
  BY <1>3
<1>5. QED
  BY <1>1, <1>2, <1>4

(* What a profile is.                                                      *)
ProfileOK(p) ==
  /\ p.samples \in Seq(Labelled)
  /\ \A i \in 1..Len(p.samples) : p.samples[i] \in Tried
  /\ p.evidence \in Evidence
  /\ p.selected.estimator.support \in Nat \ {0}
  /\ p.selected.minimumEdge \in 0..Unit
  /\ p.selected.minimumReliability \in 0..Unit
  /\ p.selected.minimumReliability = 0 => p.selected.minimumEdge = Unit
  /\ p.lowerBound \in 0..Unit
  /\ p.byDirection \in [DOMAIN p.byDirection -> 0..Unit]
  /\ p.skill => DOMAIN p.byDirection # {}

(* What a profile was made from.                                           *)
ProfileFrom(p, rows) ==
  /\ p.samples = Library(rows)
  /\ Selected(Training(rows), Validation(rows)) = {p.selected}

Corpus(rows) ==
  /\ rows \in Seq(Labelled) /\ Len(rows) <= Len(Menu)
  /\ \A i \in 1..Len(rows) : rows[i] \in Menu[i]

(* The library is what comes before the test segment.                      *)
LEMMA LibraryIs ==
  ASSUME NEW rows, Corpus(rows)
  PROVE  \E n, t, size \in Nat :
           /\ n = Len(rows) /\ t = TestCount(n) /\ size = Len(Library(rows))
           /\ size = IF t <= n THEN n - t ELSE 0
           /\ Library(rows) \in Seq(Labelled)
           /\ \A i \in 1..size : i \in 1..n /\ i <= n - t /\ Library(rows)[i] = rows[i]
           /\ \A i \in 1..n : i <= n - t => i \in 1..size
<1>1. PICK n \in Nat, t \in Nat \ {0} :
        n = Len(rows) /\ t = TestCount(n) /\ rows \in Seq(Labelled)
  <2>1. Len(rows) \in Nat /\ rows \in Seq(Labelled)
    BY DEF Corpus
  <2>2. QED
    BY <2>1, CountsPositive
<1>2. PICK last \in Int : last = n - t /\ last <= n
  BY <1>1
<1>3. Library(rows) = SubSeq(rows, 1, last)
  BY <1>1, <1>2 DEF Library
<1>4. /\ Library(rows) \in Seq(Labelled)
      /\ Len(Library(rows)) = IF 1 <= last + 1 THEN last + 1 - 1 ELSE 0
      /\ \A i \in 1..Len(Library(rows)) : Library(rows)[i] = rows[1 + i - 1]
  BY <1>1, <1>2, <1>3, Segment
<1>5. PICK size \in Nat : size = Len(Library(rows)) /\ size = IF t <= n THEN n - t ELSE 0
  BY <1>1, <1>2, <1>4
<1>6. ASSUME NEW i \in 1..size
      PROVE  i \in 1..n /\ i <= n - t /\ Library(rows)[i] = rows[i]
  <2>1. 1 + i - 1 = i /\ i \in 1..n /\ i <= n - t
    BY <1>1, <1>5
  <2>2. QED
    BY <1>4, <1>5, <2>1
<1>7. \A i \in 1..n : i <= n - t => i \in 1..size
  BY <1>1, <1>5
<1>8. QED
  BY <1>1, <1>4, <1>5, <1>6, <1>7

(* The segments of the whole corpus.                                       *)
LEMMA Segments ==
  ASSUME NEW rows, Corpus(rows)
  PROVE  /\ Training(rows) \in Seq(Labelled) /\ Validation(rows) \in Seq(Labelled)
         /\ Library(rows) \in Seq(Labelled) /\ Test(rows) \in Seq(Labelled)
         /\ Len(Validation(rows)) <= TestCount(Len(rows))
         /\ Len(Validation(rows)) <= Len(Menu) /\ Len(Test(rows)) <= Len(Menu)
         /\ \A i \in 1..Len(Library(rows)) : Library(rows)[i] \in Tried
<1> DEFINE n == Len(rows)
           t == TestCount(n)
<1>1. n \in Nat /\ t \in Nat \ {0} /\ rows \in Seq(Labelled) /\ n <= Len(Menu)
  <2>1. n \in Nat /\ rows \in Seq(Labelled) /\ n <= Len(Menu)
    BY DEF Corpus
  <2> HIDE DEF n
  <2>2. QED
    BY <2>1, CountsPositive
<1>2. /\ Training(rows) = SubSeq(rows, 1, n - 2 * t)
      /\ Validation(rows) = SubSeq(rows, Len(Training(rows)) + 1, n - t)
      /\ Library(rows) = SubSeq(rows, 1, n - t)
      /\ Test(rows) = SubSeq(rows, Len(Library(rows)) + 1, n)
  BY DEF Training, Validation, Library, Test
<1> HIDE DEF t
<1>3. /\ Training(rows) \in Seq(Labelled)
      /\ Len(Training(rows)) = IF 1 <= n - 2 * t + 1 THEN n - 2 * t ELSE 0
  BY <1>1, <1>2, Segment
<1>4. PICK a \in Nat : a = Len(Training(rows)) /\ a >= n - 2 * t
  <2>1. PICK a \in Nat : a = Len(Training(rows))
    BY <1>3
  <2>2. a >= n - 2 * t
    <3>1. PICK b \in Int : b = n - 2 * t
      BY <1>1
    <3>2. a = IF 1 <= b + 1 THEN b ELSE 0
      BY <1>3, <2>1, <3>1
    <3>3. a >= b
      BY <3>1, <3>2
    <3>4. QED
      BY <3>1, <3>3
  <2>3. QED
    BY <2>1, <2>2
<1>5. /\ Validation(rows) \in Seq(Labelled)
      /\ Len(Validation(rows)) = IF a + 1 <= n - t + 1 THEN n - t + 1 - (a + 1) ELSE 0
  <2>1. Validation(rows) = SubSeq(rows, a + 1, n - t) /\ n - t <= n /\ n - t \in Int
        /\ a + 1 \in Nat \ {0}
    BY <1>1, <1>2, <1>4
  <2>2. QED
    BY <1>1, <2>1, Segment
<1>6. /\ Library(rows) \in Seq(Labelled) /\ Len(Library(rows)) \in Nat
      /\ \A i \in 1..Len(Library(rows)) : i \in 1..n /\ Library(rows)[i] = rows[i]
  BY LibraryIs
<1>7. /\ Test(rows) \in Seq(Labelled)
      /\ Len(Test(rows)) <= n
  <2>1. PICK b \in Nat : b = Len(Library(rows))
    BY <1>6
  <2>2. Test(rows) = SubSeq(rows, b + 1, n) /\ b + 1 \in Nat \ {0} /\ n \in Int /\ n <= n
    BY <1>1, <1>2, <2>1
  <2>3. /\ Test(rows) \in Seq(Labelled)
        /\ Len(Test(rows)) = IF b + 1 <= n + 1 THEN n + 1 - (b + 1) ELSE 0
    BY <1>1, <2>2, Segment
  <2>4. QED
    BY <1>1, <2>3
<1>8. /\ Len(Validation(rows)) <= t /\ Len(Validation(rows)) <= Len(Menu)
      /\ Len(Test(rows)) <= Len(Menu)
  BY <1>1, <1>4, <1>5, <1>7, MenuAssumption
<1>9. ASSUME NEW i \in 1..Len(Library(rows)) PROVE Library(rows)[i] \in Tried
  <2>1. i \in 1..n /\ Library(rows)[i] = rows[i]
    BY <1>6
  <2>2. rows[i] \in Menu[i] /\ i \in DOMAIN Menu
    BY <1>1, <2>1, MenuAssumption DEF Corpus
  <2>3. QED
    BY <2>1, <2>2 DEF Tried
<1>10. QED
  BY <1>3, <1>5, <1>6, <1>7, <1>8, <1>9 DEF t

(* A profile of the whole corpus.                                          *)
LEMMA ProfileBuilt ==
  ASSUME NEW rows, Corpus(rows), Len(rows) = Len(Menu), NEW evidence \in Evidence,
         NEW selected \in Selected(Training(rows), Validation(rows))
  PROVE  LET p == Profile(rows, selected, evidence) IN ProfileOK(p) /\ ProfileFrom(p, rows)
<1> DEFINE cases == Score(Test(rows), Library(rows), selected.estimator)
           p     == Profile(rows, selected, evidence)
<1>1. /\ p.samples = Library(rows) /\ p.selected = selected /\ p.evidence = evidence
      /\ p.skill = PositiveSkill(cases, Library(rows))
      /\ p.lowerBound = LowerBound(cases)
      /\ p.byDirection = [d \in {c.predicted : c \in cases} |->
                            LowerBound({c \in cases : c.predicted = d})]
  BY DEF Profile
<1>2. /\ Selected(Training(rows), Validation(rows)) = {selected}
      /\ selected.estimator.support \in Nat \ {0}
      /\ selected.minimumEdge \in 0..Unit /\ selected.minimumReliability \in 0..Unit
      /\ selected.minimumReliability = 0 => selected.minimumEdge = Unit
  BY Segments, SelectedGates
<1>3. cases \in Cases(Len(Test(rows)))
  BY Segments, CasesOfScore
<1> HIDE DEF cases, p
<1>4. Len(Test(rows)) \in Nat /\ Len(Test(rows)) \in 0..Len(Menu)
  BY Segments, MenuAssumption
<1>5. p.lowerBound \in 0..Unit
  BY <1>1, <1>3, <1>4, LowerBoundType
<1>6. ASSUME NEW d PROVE LowerBound({c \in cases : c.predicted = d}) \in 0..Unit
  <2> DEFINE part == {c \in cases : c.predicted = d}
  <2>1. part \in Cases(Len(Test(rows)))
    BY <1>3, <1>4, SomeCases
  <2> HIDE DEF part
  <2>2. LowerBound(part) \in 0..Unit
    BY <1>4, <2>1, LowerBoundType
  <2>3. QED
    BY <2>2 DEF part
<1>7. p.byDirection \in [DOMAIN p.byDirection -> 0..Unit]
  <2>1. DOMAIN p.byDirection = {c.predicted : c \in cases}
    BY <1>1
  <2>2. ASSUME NEW d \in DOMAIN p.byDirection PROVE p.byDirection[d] \in 0..Unit
    <3>1. p.byDirection[d] = LowerBound({c \in cases : c.predicted = d})
      BY <1>1, <2>1
    <3>2. QED
      BY <1>6, <3>1
  <2>3. p.byDirection = [d \in DOMAIN p.byDirection |-> p.byDirection[d]]
    BY <1>1
  <2>4. QED
    BY <2>2, <2>3
<1>8. p.skill => DOMAIN p.byDirection # {}
  <2>1. cases = {} => ~PositiveSkill(cases, Library(rows))
    BY Segments, NoCasesNoSkill
  <2>2. DOMAIN p.byDirection = {c.predicted : c \in cases}
    BY <1>1
  <2>3. cases # {} => {c.predicted : c \in cases} # {}
    OBVIOUS
  <2>4. QED
    BY <1>1, <2>1, <2>2, <2>3
<1>9. ProfileOK(p)
  <2>1. /\ p.samples \in Seq(Labelled)
        /\ \A i \in 1..Len(p.samples) : p.samples[i] \in Tried
    BY <1>1, Segments
  <2>2. QED
    BY <1>1, <1>2, <1>5, <1>7, <1>8, <2>1 DEF ProfileOK
<1>10. ProfileFrom(p, rows)
  BY <1>1, <1>2 DEF ProfileFrom
<1>11. QED
  BY <1>9, <1>10 DEF p

(* A correction of the test leaves the other segments alone.               *)
LEMMA TestCorrected ==
  ASSUME NEW rows, Corpus(rows), NEW revised, Corpus(revised), Len(revised) = Len(rows),
         \A j \in 1..Len(rows) : j <= Len(rows) - TestCount(Len(rows)) => revised[j] = rows[j]
  PROVE  /\ Training(revised) = Training(rows) /\ Validation(revised) = Validation(rows)
         /\ Library(revised) = Library(rows)
<1> DEFINE n == Len(rows)
           t == TestCount(n)
<1>1. /\ n \in Nat /\ t \in Nat \ {0} /\ rows \in Seq(Labelled) /\ revised \in Seq(Labelled)
      /\ Len(revised) = n
  <2>1. n \in Nat /\ rows \in Seq(Labelled) /\ revised \in Seq(Labelled) /\ Len(revised) = n
    BY DEF Corpus
  <2> HIDE DEF n
  <2>2. QED
    BY <2>1, CountsPositive
<1>2. \A j \in 1..n : j <= n - t => rows[j] = revised[j]
  OBVIOUS
<1>3. /\ Training(rows) = SubSeq(rows, 1, n - 2 * t)
      /\ Validation(rows) = SubSeq(rows, Len(Training(rows)) + 1, n - t)
      /\ Library(rows) = SubSeq(rows, 1, n - t)
      /\ Training(revised) = SubSeq(revised, 1, n - 2 * t)
      /\ Validation(revised) = SubSeq(revised, Len(Training(revised)) + 1, n - t)
      /\ Library(revised) = SubSeq(revised, 1, n - t)
  BY <1>1 DEF Training, Validation, Library
<1> HIDE DEF t, n
<1>4. ASSUME NEW a \in Nat \ {0}, NEW b \in Int, b <= n - t
      PROVE  SubSeq(rows, a, b) = SubSeq(revised, a, b)
  <2>1. b <= Len(rows) /\ \A j \in 1..b : rows[j] = revised[j]
    BY <1>1, <1>2, <1>4 DEF n
  <2>2. QED
    BY <1>1, <2>1, SameSegment DEF n
<1>5. n - 2 * t <= n - t /\ n - 2 * t \in Int /\ n - t \in Int
  BY <1>1
<1>6. Training(revised) = Training(rows)
  <2>1. PICK b \in Int : b = n - 2 * t /\ b <= n - t
    BY <1>5
  <2>2. SubSeq(rows, 1, b) = SubSeq(revised, 1, b)
    BY <1>4, <2>1
  <2>3. QED
    BY <1>3, <2>1, <2>2
<1>7. Len(Training(rows)) \in Nat
  BY Segments
<1>8. Validation(revised) = Validation(rows)
  <2>1. PICK a \in Nat \ {0}, b \in Int : a = Len(Training(rows)) + 1 /\ b = n - t
    BY <1>5, <1>7
  <2>2. SubSeq(rows, a, b) = SubSeq(revised, a, b)
    <3>1. b <= n - t
      BY <2>1
    <3>2. QED
      BY <1>4, <3>1
  <2>3. QED
    BY <1>3, <1>6, <2>1, <2>2
<1>9. Library(revised) = Library(rows)
  <2>1. SubSeq(rows, 1, n - t) = SubSeq(revised, 1, n - t)
    BY <1>4, <1>5
  <2>2. QED
    BY <1>3, <2>1
<1>10. QED
  BY <1>6, <1>8, <1>9

(* A snapshot as corrections of the bars from one on have left it, however *)
(* many there were, and also from an earlier bar on.                       *)
LEMMA RelabelledAgain ==
  ASSUME NEW i \in Nat, NEW old \in Labelled, NEW new \in Labelled, NEW newer \in Labelled,
         NEW bar \in Nat, NEW later \in Nat, bar <= later,
         Relabelled(i, old, new, bar), Relabelled(i, new, newer, later)
  PROVE  Relabelled(i, old, newer, bar)
<1>1. old.passage \in Nat /\ new.passage \in Nat /\ newer.passage \in Nat
  BY DEF Labelled, Snapshot
<1>2. CASE new = old
  BY <1>1, <1>2 DEF Relabelled
<1>3. CASE new # old
  BY <1>1, <1>3 DEF Relabelled
<1>4. QED
  BY <1>2, <1>3

-----------------------------------------------------------------------------
(* The invariant: a profile is what the builder made of an earlier corpus, *)
(* an answer is what the runtime makes of the profile.  The corpus of now  *)
(* may differ from that one before the test segment only in labels that    *)
(* looked, and still look, into it.                                        *)

Origin(p, rows, corrected) ==
  /\ Corpus(rows) /\ Len(corrected) = Len(rows)
  /\ ProfileFrom(p, rows)
  /\ \A i \in 1..Len(rows) :
       i <= Len(rows) - TestCount(Len(rows)) =>
         Relabelled(i, rows[i], corrected[i], Len(rows) - TestCount(Len(rows)) + 1)

AnswerFrom(p, a) ==
  /\ a.query \in Queries
  /\ a.vote = Vote(a.query, p.samples, p.selected.estimator)
  /\ a.resolution = IF a.vote = {} THEN Unresolved("INSUFFICIENT_MATCHED_SUPPORT")
                    ELSE Resolution(p, CHOOSE v \in a.vote : TRUE)

ResolutionInv ==
  /\ Corpus(frames)
  /\ artifact # {} => Len(frames) = Len(Menu)
  /\ \A p \in artifact :
       artifact = {p} /\ ProfileOK(p) /\ \E rows : Origin(p, rows, frames)
  /\ answer # {} => artifact # {}
  /\ \A p \in artifact, a \in answer : AnswerFrom(p, a)

(* Initially there is no snapshot, no profile and no answer.               *)
LEMMA ResolutionInitially == Init => ResolutionInv
<1> SUFFICES ASSUME Init PROVE ResolutionInv
  OBVIOUS
<1>1. frames = << >> /\ artifact = {} /\ answer = {}
  BY DEF Init
<1>2. Len(Menu) \in Nat
  BY MenuAssumption
<1>3. Corpus(<< >>)
  BY <1>2 DEF Corpus
<1>4. QED
  BY <1>1, <1>3 DEF ResolutionInv

(* A snapshot of the menu is labelled.                                     *)
LEMMA MenuLabelled ==
  ASSUME NEW i \in DOMAIN Menu, NEW sample \in Menu[i]
  PROVE  sample \in Labelled
<1>1. Menu[i] \in SUBSET Snapshot(Directions)
  BY MenuAssumption
<1>2. QED
  BY <1>1 DEF Labelled

(* The corpus grows by one snapshot.                                       *)
LEMMA CorpusGrows ==
  ASSUME NEW rows, Corpus(rows), Len(rows) < Len(Menu), NEW sample \in Menu[Len(rows) + 1]
  PROVE  Corpus(Append(rows, sample))
<1> DEFINE n == Len(rows)
<1>1. /\ rows \in Seq(Labelled) /\ n \in Nat /\ Len(Menu) \in Nat /\ n < Len(Menu)
      /\ DOMAIN Menu = 1..Len(Menu) /\ \A i \in 1..n : rows[i] \in Menu[i]
  BY MenuAssumption DEF Corpus
<1>2. sample \in Labelled
  <2>1. n + 1 \in DOMAIN Menu
    BY <1>1
  <2>2. QED
    BY <2>1, MenuLabelled
<1>3. /\ Append(rows, sample) \in Seq(Labelled) /\ Len(Append(rows, sample)) = n + 1
      /\ Append(rows, sample)[n + 1] = sample
      /\ \A i \in 1..n : Append(rows, sample)[i] = rows[i]
  BY <1>1, <1>2
<1> HIDE DEF n
<1>4. ASSUME NEW i \in 1..(n + 1) PROVE Append(rows, sample)[i] \in Menu[i]
  <2>1. CASE i = n + 1
    BY <1>3, <2>1 DEF n
  <2>2. CASE i # n + 1
    <3>1. i \in 1..n
      BY <1>1, <2>2
    <3>2. QED
      BY <1>1, <1>3, <3>1
  <2>3. QED
    BY <2>1, <2>2
<1>5. QED
  BY <1>1, <1>3, <1>4 DEF Corpus

(* A bar of the corpus is corrected.                                       *)
Corrected(rows, change) ==
  [i \in DOMAIN rows |-> IF i \in DOMAIN change THEN change[i] ELSE rows[i]]

(* A corrected corpus is a corpus of the same length.                      *)
LEMMA CorpusCorrected ==
  ASSUME NEW rows, Corpus(rows), NEW change \in Corrections
  PROVE  /\ Corpus(Corrected(rows, change)) /\ Len(Corrected(rows, change)) = Len(rows)
         /\ \A i \in 1..Len(rows) :
              Corrected(rows, change)[i] = IF i \in DOMAIN change THEN change[i] ELSE rows[i]
<1>1. PICK n \in Nat : /\ n = Len(rows) /\ n <= Len(Menu) /\ DOMAIN rows = 1..n
                       /\ \A i \in 1..n : rows[i] \in Menu[i] /\ rows[i] \in Labelled
  BY DEF Corpus
<1>2. PICK revised : revised = Corrected(rows, change)
  OBVIOUS
<1>3. revised = [i \in 1..n |-> IF i \in DOMAIN change THEN change[i] ELSE rows[i]]
  BY <1>1, <1>2 DEF Corrected
<1>4. \A i \in DOMAIN change : i \in DOMAIN Menu /\ change[i] \in Menu[i]
  BY CorrectionAssumption
<1>5. ASSUME NEW i \in 1..n PROVE revised[i] \in Menu[i] /\ revised[i] \in Labelled
  <2>1. CASE i \in DOMAIN change
    <3>1. revised[i] = change[i] /\ i \in DOMAIN Menu /\ change[i] \in Menu[i]
      BY <1>3, <1>4, <2>1
    <3>2. QED
      BY <3>1, MenuLabelled
  <2>2. CASE i \notin DOMAIN change
    BY <1>1, <1>3, <2>2
  <2>3. QED
    BY <2>1, <2>2
<1>6. revised \in Seq(Labelled) /\ Len(revised) = n
  <2>1. revised = [i \in 1..n |-> revised[i]]
    BY <1>3
  <2>2. revised \in [1..n -> Labelled]
    BY <1>5, <2>1
  <2>3. QED
    BY <2>1, <2>2
<1>7. Corpus(revised)
  BY <1>1, <1>5, <1>6 DEF Corpus
<1>8. QED
  BY <1>1, <1>2, <1>3, <1>6, <1>7

(* After a correction of the test a profile still is of the corpus it was  *)
(* built from.                                                             *)
LEMMA OriginKept ==
  ASSUME NEW p, NEW rows, NEW corpus, Origin(p, rows, corpus), Corpus(corpus),
         NEW revised, Corpus(revised), Len(revised) = Len(corpus),
         NEW bar \in 1..Len(corpus), bar > Len(Library(corpus)),
         \A i \in 1..Len(corpus) : i < bar => Relabelled(i, corpus[i], revised[i], bar)
  PROVE  Origin(p, rows, revised)
<1>1. PICK n \in Nat, t \in Nat, size \in Nat :
        /\ n = Len(corpus) /\ t = TestCount(n) /\ size = Len(Library(corpus))
        /\ \A i \in 1..n : i <= n - t => i \in 1..size
  BY LibraryIs
<1>2. Len(rows) = n /\ Len(revised) = n /\ bar \in Nat /\ size < bar
  BY <1>1 DEF Origin
<1>3. ASSUME NEW i \in 1..n, i <= n - t
      PROVE  Relabelled(i, rows[i], revised[i], n - t + 1)
  <2>1. i < bar /\ n - t + 1 \in Nat /\ n - t + 1 <= bar
    <3>1. \A k \in 1..n : k <= n - t => k < bar
      BY <1>1, <1>2
    <3>2. n - t \in 1..n
      BY <1>3
    <3>3. QED
      BY <1>3, <3>1, <3>2
  <2>2. Relabelled(i, rows[i], corpus[i], n - t + 1)
    BY <1>1, <1>2, <1>3 DEF Origin
  <2>3. Relabelled(i, corpus[i], revised[i], bar)
    BY <1>1, <2>1
  <2>4. /\ rows[i] \in Labelled /\ corpus[i] \in Labelled /\ revised[i] \in Labelled
        /\ i \in Nat
    BY <1>1, <1>2 DEF Origin, Corpus
  <2>5. PICK first \in Nat : first = n - t + 1 /\ first <= bar
    BY <2>1
  <2>6. QED
    BY <1>2, <2>2, <2>3, <2>4, <2>5, RelabelledAgain
<1>4. QED
  BY <1>1, <1>2, <1>3 DEF Origin

(* What a correction of the test may do to a profile that is built again.  *)
ThroughLabels(p, q) ==
  /\ Len(q.samples) = Len(p.samples)
  /\ \A i \in DOMAIN p.samples :
       Relabelled(i, p.samples[i], q.samples[i], Len(p.samples) + 1)
  /\ q.samples = p.samples => q.selected = p.selected

(* A profile built from a corrected corpus differs from the one built      *)
(* before in nothing but what the labels carry.                            *)
LEMMA BuiltAgain ==
  ASSUME NEW p, NEW q, NEW rows, NEW corpus, Origin(p, rows, corpus),
         Corpus(corpus), ProfileFrom(q, corpus)
  PROVE  ThroughLabels(p, q)
<1>1. PICK n \in Nat, t \in Nat, size \in Nat :
        /\ n = Len(rows) /\ t = TestCount(n) /\ size = Len(Library(rows))
        /\ size = IF t <= n THEN n - t ELSE 0
        /\ Library(rows) \in Seq(Labelled)
        /\ \A i \in 1..size : i \in 1..n /\ i <= n - t /\ Library(rows)[i] = rows[i]
        /\ \A i \in 1..n : i <= n - t => i \in 1..size
  BY LibraryIs DEF Origin
<1>2. /\ Len(corpus) = n /\ size = Len(Library(corpus))
      /\ \A i \in 1..size : Library(corpus)[i] = corpus[i]
  <2>1. Len(corpus) = n
    BY <1>1 DEF Origin
  <2>2. QED
    BY <1>1, <2>1, LibraryIs
<1>3. /\ p.samples = Library(rows) /\ q.samples = Library(corpus)
      /\ Selected(Training(rows), Validation(rows)) = {p.selected}
      /\ Selected(Training(corpus), Validation(corpus)) = {q.selected}
  BY DEF Origin, ProfileFrom
<1>4. ASSUME NEW i \in 1..size
      PROVE  Relabelled(i, p.samples[i], q.samples[i], size + 1)
  <2>1. i \in 1..n /\ i <= n - t /\ size = n - t
    BY <1>1
  <2>2. Relabelled(i, rows[i], corpus[i], n - t + 1)
    BY <1>1, <2>1 DEF Origin
  <2>3. QED
    BY <1>1, <1>2, <1>3, <2>1, <2>2
<1>5. ASSUME q.samples = p.samples PROVE q.selected = p.selected
  <2>1. \A i \in 1..n : i <= n - t => corpus[i] = rows[i]
    BY <1>1, <1>2, <1>3, <1>5
  <2>2. Corpus(rows)
    BY DEF Origin
  <2>3. /\ Training(corpus) = Training(rows) /\ Validation(corpus) = Validation(rows)
    BY <1>1, <1>2, <2>1, <2>2, TestCorrected
  <2>4. {q.selected} = {p.selected}
    BY <1>3, <2>3
  <2>5. QED
    BY <2>4
<1>6. DOMAIN p.samples = 1..size
  <2>1. PICK library : library = Library(rows)
    OBVIOUS
  <2>2. library \in Seq(Labelled) /\ Len(library) = size
    BY <1>1, <2>1
  <2>3. DOMAIN library = 1..size
    BY <2>2
  <2>4. QED
    BY <1>3, <2>1, <2>3
<1>7. Len(p.samples) = size /\ Len(q.samples) = size
  BY <1>1, <1>2, <1>3
<1>8. QED
  BY <1>4, <1>5, <1>6, <1>7 DEF ThroughLabels

(* A profile that is not built again.                                      *)
LEMMA SameProfile == ASSUME NEW p PROVE ThroughLabels(p, p)
BY DEF ThroughLabels, Relabelled

(* Every step keeps the invariant, and what it tunes it tunes through the  *)
(* labels of the library.                                                  *)
LEMMA ResolutionInvariant ==
  ResolutionInv /\ [Next]_vars =>
    /\ ResolutionInv'
    /\ \A p \in artifact, q \in artifact' : ThroughLabels(p, q)
<1> SUFFICES ASSUME ResolutionInv, [Next]_vars
             PROVE  /\ ResolutionInv'
                    /\ \A p \in artifact, q \in artifact' : ThroughLabels(p, q)
  OBVIOUS
<1> USE DEF ResolutionInv
<1>1. ASSUME artifact' = artifact
      PROVE  \A p \in artifact, q \in artifact' : ThroughLabels(p, q)
  <2>1. \A p \in artifact, q \in artifact' : q = p
    BY <1>1
  <2>2. QED
    BY <2>1, SameProfile
<1>2. CASE UNCHANGED vars
  <2>1. frames' = frames /\ artifact' = artifact /\ answer' = answer
    BY <1>2 DEF vars
  <2>2. ResolutionInv'
    BY <2>1
  <2>3. QED
    BY <1>1, <2>1, <2>2
<1>3. ASSUME Len(frames) < Len(Menu), NEW sample \in Menu[Len(frames) + 1], Label(sample)
      PROVE  /\ ResolutionInv'
             /\ \A p \in artifact, q \in artifact' : ThroughLabels(p, q)
  <2>1. artifact = {} /\ artifact' = {} /\ answer' = {} /\ frames' = Append(frames, sample)
    BY <1>3 DEF Label
  <2>2. Corpus(frames')
    BY <1>3, <2>1, CorpusGrows
  <2>3. QED
    BY <2>1, <2>2
<1>4. ASSUME NEW bar \in DOMAIN frames, NEW change \in Corrections, Revise(bar, change)
      PROVE  /\ ResolutionInv'
             /\ \A p \in artifact, q \in artifact' : ThroughLabels(p, q)
  <2>1. /\ artifact' = artifact /\ answer' = answer /\ answer = {} /\ artifact # {}
        /\ frames' = Corrected(frames, change)
        /\ bar > Len(Library(frames))
        /\ \A i \in DOMAIN change : i < bar => Relabelled(i, frames[i], change[i], bar)
    BY <1>4 DEF Revise, Corrected
  <2>2. PICK revised : revised = Corrected(frames, change)
    OBVIOUS
  <2>3. /\ Corpus(frames) /\ bar \in 1..Len(frames)
        /\ Corpus(revised) /\ Len(revised) = Len(frames)
        /\ \A i \in 1..Len(frames) :
             revised[i] = IF i \in DOMAIN change THEN change[i] ELSE frames[i]
    <3>1. Corpus(frames)
      OBVIOUS
    <3>2. bar \in 1..Len(frames)
      BY <3>1 DEF Corpus
    <3>3. QED
      BY <2>2, <3>1, <3>2, CorpusCorrected
  <2>4. \A i \in 1..Len(frames) : i < bar => Relabelled(i, frames[i], revised[i], bar)
    BY <2>1, <2>3 DEF Relabelled
  <2>5. ASSUME NEW p \in artifact PROVE \E rows : Origin(p, rows, revised)
    <3>1. PICK rows : Origin(p, rows, frames)
      OBVIOUS
    <3>2. Origin(p, rows, revised)
      BY <2>1, <2>3, <2>4, <3>1, OriginKept
    <3>3. QED
      BY <3>2
  <2>6. ResolutionInv'
    BY <2>1, <2>2, <2>3, <2>5
  <2>7. QED
    BY <1>1, <2>1, <2>6
<1>5. ASSUME Len(frames) = Len(Menu), NEW evidence \in Evidence, Build(evidence)
      PROVE  /\ ResolutionInv'
             /\ \A p \in artifact, q \in artifact' : ThroughLabels(p, q)
  <2>1. PICK selected \in Selected(Training(frames), Validation(frames)) :
          artifact' = {Profile(frames, selected, evidence)}
    BY <1>5 DEF Build
  <2>2. answer = {} /\ answer' = {} /\ frames' = frames
    BY <1>5 DEF Build
  <2>3. PICK q : q = Profile(frames, selected, evidence)
    OBVIOUS
  <2>4. Corpus(frames) /\ ProfileOK(q) /\ ProfileFrom(q, frames)
    BY <1>5, <2>1, <2>3, ProfileBuilt
  <2>5. Origin(q, frames, frames)
    BY <2>4 DEF Origin, Relabelled
  <2>6. ResolutionInv'
    BY <1>5, <2>1, <2>2, <2>3, <2>4, <2>5
  <2>7. ASSUME NEW p \in artifact PROVE ThroughLabels(p, q)
    <3>1. PICK rows : Origin(p, rows, frames)
      OBVIOUS
    <3>2. QED
      BY <2>4, <3>1, BuiltAgain
  <2>8. QED
    BY <2>1, <2>3, <2>6, <2>7
<1>6. ASSUME NEW query \in Queries, Resolve(query)
      PROVE  /\ ResolutionInv'
             /\ \A p \in artifact, q \in artifact' : ThroughLabels(p, q)
  <2>1. PICK p \in artifact :
          LET vote == Vote(query, p.samples, p.selected.estimator) IN
          answer' = {[query |-> query, vote |-> vote,
                      resolution |-> IF vote = {} THEN Unresolved("INSUFFICIENT_MATCHED_SUPPORT")
                                     ELSE Resolution(p, CHOOSE v \in vote : TRUE)]}
    BY <1>6 DEF Resolve
  <2>2. frames' = frames /\ artifact' = artifact /\ artifact = {p}
    BY <1>6 DEF Resolve
  <2>3. ASSUME NEW a \in answer' PROVE AnswerFrom(p, a)
    BY <2>1, <2>3 DEF AnswerFrom
  <2>4. ResolutionInv'
    BY <2>2, <2>3
  <2>5. QED
    BY <1>1, <2>2, <2>4
<1>7. QED
  BY <1>2, <1>3, <1>4, <1>5, <1>6 DEF Next

-----------------------------------------------------------------------------
(* What the runtime publishes.                                             *)

(* The vote an answer rests on.                                            *)
LEMMA AnswerVote ==
  ASSUME NEW p, ProfileOK(p), NEW a, AnswerFrom(p, a), NEW v \in a.vote
  PROVE  /\ a.vote = {v} /\ v \in Vote(a.query, p.samples, p.selected.estimator)
         /\ a.resolution = Resolution(p, v)
         /\ v.winning \in Directions /\ v.edge \in 0..Unit
         /\ a.query.at \in Int /\ p.samples \in Seq(Labelled)
<1>1. a.query.at \in Int /\ p.samples \in Seq(Labelled)
  BY QueryAt DEF AnswerFrom, ProfileOK
<1>2. v \in Vote(a.query, p.samples, p.selected.estimator)
  BY DEF AnswerFrom
<1>3. /\ Vote(a.query, p.samples, p.selected.estimator) = {v}
      /\ v.winning \in Directions /\ v.edge \in 0..Unit
  BY <1>1, <1>2, VoteShape
<1>4. a.vote = {v}
  BY <1>3 DEF AnswerFrom
<1>5. a.resolution = Resolution(p, CHOOSE w \in {v} : TRUE)
  BY <1>4 DEF AnswerFrom
<1>6. (CHOOSE w \in {v} : TRUE) = v
  OBVIOUS
<1>7. QED
  BY <1>1, <1>2, <1>3, <1>4, <1>5, <1>6

(* The gates, in the order of the code.                                    *)
LEMMA ResolutionGates ==
  ASSUME NEW p, p.evidence \in Evidence, NEW v, v.winning \in Directions
  PROVE  LET r == Resolution(p, v)
         IN  /\ r.direction \in Directions \cup {"UNRESOLVED"} /\ r.reason \in Reasons
             /\ r.direction # "UNRESOLVED" =>
                  /\ p.skill /\ ~(v.edge < p.selected.minimumEdge)
                  /\ r.direction = v.winning /\ r.probabilities = {v.probabilities}
                  /\ r.horizon = {HorizonOf(v.passages)}
<1> DEFINE r == Resolution(p, v)
<1>1. CASE p.evidence = "AWAITING"
  <2>1. r = Unresolved("PREREGISTERED_AWAITING_PROSPECTIVE_EVIDENCE")
    BY <1>1 DEF Resolution
  <2>2. QED
    BY <2>1 DEF Unresolved, Reasons
<1>2. CASE p.evidence = "CONSUMED"
  <2>1. r = Unresolved("CALIBRATION_EVIDENCE_NOT_PREREGISTERED")
    BY <1>2 DEF Resolution
  <2>2. QED
    BY <2>1 DEF Unresolved, Reasons
<1>3. CASE p.evidence = "UNTOUCHED"
  <2>1. r = IF ~p.skill
            THEN Unresolved("HELD_OUT_PROBABILITY_SKILL_NOT_POSITIVE")
            ELSE IF v.edge < p.selected.minimumEdge
            THEN Unresolved("CALIBRATED_DIRECTION_EDGE_NOT_MET")
            ELSE IF Reliability(p, v.winning) < p.selected.minimumReliability
            THEN Unresolved("HELD_OUT_RELIABILITY_NOT_MET")
            ELSE [direction     |-> v.winning,
                  reason        |-> "CALIBRATED_EVIDENCE_SATISFIED",
                  reliability   |-> {Reliability(p, v.winning)},
                  probabilities |-> {v.probabilities},
                  horizon       |-> {HorizonOf(v.passages)}]
    BY <1>3 DEF Resolution
  <2>2. CASE ~p.skill
    <3>1. r = Unresolved("HELD_OUT_PROBABILITY_SKILL_NOT_POSITIVE")
      BY <2>1, <2>2
    <3>2. QED
      BY <3>1 DEF Unresolved, Reasons
  <2>3. CASE p.skill /\ v.edge < p.selected.minimumEdge
    <3>1. r = Unresolved("CALIBRATED_DIRECTION_EDGE_NOT_MET")
      BY <2>1, <2>3
    <3>2. QED
      BY <3>1 DEF Unresolved, Reasons
  <2>4. CASE /\ p.skill /\ ~(v.edge < p.selected.minimumEdge)
             /\ Reliability(p, v.winning) < p.selected.minimumReliability
    <3>1. r = Unresolved("HELD_OUT_RELIABILITY_NOT_MET")
      BY <2>1, <2>4
    <3>2. QED
      BY <3>1 DEF Unresolved, Reasons
  <2>5. CASE /\ p.skill /\ ~(v.edge < p.selected.minimumEdge)
             /\ ~(Reliability(p, v.winning) < p.selected.minimumReliability)
    <3>1. r = [direction     |-> v.winning,
               reason        |-> "CALIBRATED_EVIDENCE_SATISFIED",
               reliability   |-> {Reliability(p, v.winning)},
               probabilities |-> {v.probabilities},
               horizon       |-> {HorizonOf(v.passages)}]
      BY <2>1, <2>5
    <3>2. QED
      BY <2>5, <3>1 DEF Reasons
  <2>6. QED
    BY <2>2, <2>3, <2>4, <2>5
<1>4. QED
  BY <1>1, <1>2, <1>3 DEF Evidence

(* A published answer rests on a vote that passed the gates.               *)
LEMMA PublishedVote ==
  ASSUME ResolutionInv, NEW p \in artifact, NEW a \in Published
  PROVE  \E v \in a.vote :
           /\ v \in Vote(a.query, p.samples, p.selected.estimator)
           /\ v.winning \in Directions /\ v.edge \in 0..Unit
           /\ p.skill /\ ~(v.edge < p.selected.minimumEdge)
           /\ a.resolution.direction = v.winning
           /\ a.resolution.probabilities = {v.probabilities}
           /\ a.resolution.horizon = {HorizonOf(v.passages)}
<1>1. ProfileOK(p) /\ AnswerFrom(p, a) /\ a.resolution.direction # "UNRESOLVED"
  BY DEF ResolutionInv, Published
<1>2. a.vote # {}
  <2>1. a.vote = {} => a.resolution = Unresolved("INSUFFICIENT_MATCHED_SUPPORT")
    BY <1>1 DEF AnswerFrom
  <2>2. QED
    BY <1>1, <2>1 DEF Unresolved
<1>3. PICK v \in a.vote : TRUE
  BY <1>2
<1>4. /\ v \in Vote(a.query, p.samples, p.selected.estimator)
      /\ a.resolution = Resolution(p, v)
      /\ v.winning \in Directions /\ v.edge \in 0..Unit
  BY <1>1, AnswerVote
<1>5. p.evidence \in Evidence
  BY <1>1 DEF ProfileOK
<1>6. /\ p.skill /\ ~(v.edge < p.selected.minimumEdge)
      /\ a.resolution.direction = v.winning
      /\ a.resolution.probabilities = {v.probabilities}
      /\ a.resolution.horizon = {HorizonOf(v.passages)}
  BY <1>1, <1>4, <1>5, ResolutionGates
<1>7. QED
  BY <1>4, <1>6

(* The invariant implies the type invariant.                               *)
LEMMA ResolutionTyped == ResolutionInv => ResolutionTypeOK
<1> SUFFICES ASSUME ResolutionInv PROVE ResolutionTypeOK
  OBVIOUS
<1>1. Len(frames) <= Len(Menu) /\ \A i \in DOMAIN frames : frames[i] \in Menu[i]
  BY DEF ResolutionInv, Corpus
<1>2. ASSUME NEW p \in artifact
      PROVE  /\ p.evidence \in Evidence
             /\ p.selected.minimumEdge \in 0..Unit /\ p.selected.minimumReliability \in 0..Unit
             /\ p.lowerBound \in 0..Unit
             /\ p.byDirection \in [DOMAIN p.byDirection -> 0..Unit]
  BY DEF ResolutionInv, ProfileOK
<1>3. ASSUME NEW a \in answer
      PROVE  /\ a.resolution.direction \in Directions \cup {"UNRESOLVED"}
             /\ a.resolution.reason \in Reasons
             /\ \A v \in a.vote : v.winning \in Directions /\ v.edge \in 0..Unit
  <2>1. PICK p \in artifact : ProfileOK(p) /\ AnswerFrom(p, a)
    BY DEF ResolutionInv
  <2>2. CASE a.vote = {}
    <3>1. a.resolution = Unresolved("INSUFFICIENT_MATCHED_SUPPORT")
      BY <2>1, <2>2 DEF AnswerFrom
    <3>2. QED
      BY <2>2, <3>1 DEF Unresolved, Reasons
  <2>3. CASE a.vote # {}
    <3>1. \A v \in a.vote : /\ v.winning \in Directions /\ v.edge \in 0..Unit
                            /\ a.resolution = Resolution(p, v)
      BY <2>1, AnswerVote
    <3>2. PICK v \in a.vote : TRUE
      BY <2>3
    <3>3. p.evidence \in Evidence
      BY <2>1 DEF ProfileOK
    <3>4. /\ a.resolution.direction \in Directions \cup {"UNRESOLVED"}
          /\ a.resolution.reason \in Reasons
      BY <3>1, <3>2, <3>3, ResolutionGates
    <3>5. QED
      BY <3>1, <3>4
  <2>4. QED
    BY <2>2, <2>3
<1>4. QED
  BY <1>1, <1>2, <1>3 DEF ResolutionTypeOK

(* The basis points of every answer are faithful to its neighbours.        *)
LEMMA PointsOfAnswer == ResolutionInv => BasisPointsFaithful
<1> SUFFICES ASSUME ResolutionInv, NEW p \in artifact, NEW a \in answer, NEW v \in a.vote
             PROVE  LET mass  == VoteMass(a.query, p.samples, p.selected.estimator)
                        total == SumFunctionOnSet(mass, Directions)
                    IN /\ SumFunctionOnSet(v.probabilities, Directions) = Unit
                       /\ \A c \in Directions :
                            /\ v.probabilities[c] * total < mass[c] * Unit + total
                            /\ v.probabilities[c] * total > mass[c] * Unit - total
                            /\ v.edge > 0 => mass[v.winning] >= mass[c]
                            /\ v.edge > 1 /\ c # v.winning => mass[v.winning] > mass[c]
  BY DEF BasisPointsFaithful, VoteMass, Weights
<1> DEFINE mass  == VoteMass(a.query, p.samples, p.selected.estimator)
           total == SumFunctionOnSet(mass, Directions)
           bp    == BasisPoints(mass)
           w     == v.winning
<1>1. ProfileOK(p) /\ AnswerFrom(p, a)
  BY DEF ResolutionInv
<1>2. /\ v \in Vote(a.query, p.samples, p.selected.estimator)
      /\ a.query.at \in Int /\ p.samples \in Seq(Labelled)
  BY <1>1, AnswerVote
<1>3. /\ v.winning \in Directions /\ v.edge \in 0..Unit /\ v.probabilities = bp
      /\ \A c \in Directions \ {v.winning} : bp[v.winning] >= bp[c] + v.edge
  BY <1>2, VoteShape
<1>4. mass \in [Directions -> Nat]
  BY <1>2, MassNatural
<1>5. total > 0
  <2>1. /\ a.query \in Queries /\ p.selected.estimator.support \in Nat \ {0}
        /\ \A i \in 1..Len(p.samples) : p.samples[i] \in Tried
    BY <1>1 DEF ProfileOK, AnswerFrom
  <2>2. QED
    BY <1>2, <2>1, HeavyVote
<1> HIDE DEF mass
<1>6. /\ bp \in [Directions -> 0..Unit] /\ SumFunctionOnSet(bp, Directions) = Unit
      /\ \A c \in Directions :
           /\ bp[c] * total < mass[c] * Unit + total
           /\ bp[c] * total > mass[c] * Unit - total
           /\ \A b \in Directions : /\ mass[c] <= mass[b] => bp[c] <= bp[b] + 1
                                    /\ mass[c] < mass[b] => bp[c] <= bp[b]
  BY <1>4, <1>5, PointsFaithful
<1> HIDE DEF bp, total, w
<1>7. Unit \in Nat
  BY VoteAssumption
<1>8. ASSUME NEW c \in Directions
      PROVE  /\ v.edge > 0 => mass[w] >= mass[c]
             /\ v.edge > 1 /\ c # w => mass[w] > mass[c]
  <2>1. CASE c = w
    <3>1. mass[w] \in Nat
      BY <1>3, <1>4 DEF w
    <3>2. QED
      BY <2>1, <3>1
  <2>2. CASE c # w
    <3>1. /\ w \in Directions /\ bp[w] >= bp[c] + v.edge /\ v.edge \in Nat
          /\ bp[w] \in Nat /\ bp[c] \in Nat /\ mass[w] \in Nat /\ mass[c] \in Nat
      BY <1>3, <1>4, <1>6, <1>7, <2>2 DEF w
    <3>2. (mass[w] <= mass[c] => bp[w] <= bp[c] + 1) /\ (mass[w] < mass[c] => bp[w] <= bp[c])
      BY <1>6, <3>1
    <3>3. QED
      BY <3>1, <3>2
  <2>3. QED
    BY <2>1, <2>2
<1>9. QED
  BY <1>3, <1>6, <1>8 DEF mass, total, w

(* A published horizon comes from evidence.                                *)
LEMMA HorizonOfAnswer == ResolutionInv => HorizonFromEvidence
<1> SUFFICES ASSUME ResolutionInv, NEW p \in artifact, NEW a \in Published,
                    NEW h \in a.resolution.horizon
             PROVE  /\ h[1] <= h[2] /\ h[2] <= h[3]
                    /\ \A k \in 1..3 : \E i \in Matching(a.query, p.samples) :
                         /\ p.samples[i].passage = h[k]
                         /\ p.samples[i].direction = a.resolution.direction
  BY DEF HorizonFromEvidence
<1>1. PICK v \in a.vote :
        /\ v \in Vote(a.query, p.samples, p.selected.estimator)
        /\ a.resolution.direction = v.winning
        /\ a.resolution.horizon = {HorizonOf(v.passages)}
  BY PublishedVote
<1>2. ProfileOK(p) /\ a.query \in Queries
  BY DEF ResolutionInv, Published, AnswerFrom
<1>3. /\ IsFiniteSet(v.passages) /\ v.passages # {}
      /\ \A q \in v.passages :
           /\ q.weight \in Nat /\ q.bars \in Nat
           /\ \E i \in Matching(a.query, p.samples) : /\ p.samples[i].passage = q.bars
                                                      /\ p.samples[i].direction = v.winning
  <2>1. /\ p.samples \in Seq(Labelled) /\ p.selected.estimator.support \in Nat \ {0}
        /\ \A i \in 1..Len(p.samples) : p.samples[i] \in Tried
    BY <1>2 DEF ProfileOK
  <2>2. QED
    BY <1>1, <1>2, <2>1, WinnerHasPassages
<1>4. h = HorizonOf(v.passages)
  BY <1>1
<1>5. /\ \A k \in 1..3 : h[k] \in {q.bars : q \in v.passages}
      /\ h[1] <= h[2] /\ h[2] <= h[3]
  BY <1>3, <1>4, QuartilesOrdered
<1>6. ASSUME NEW k \in 1..3
      PROVE  \E i \in Matching(a.query, p.samples) :
               /\ p.samples[i].passage = h[k]
               /\ p.samples[i].direction = a.resolution.direction
  <2>1. PICK q \in v.passages : q.bars = h[k]
    BY <1>5
  <2>2. QED
    BY <1>1, <1>3, <2>1
<1>7. QED
  BY <1>5, <1>6

(* A reliability gate of zero leaves only unanimous votes.                 *)
LEMMA UngatedAnswer == ResolutionInv => UngatedNeedsUnanimity
<1> SUFFICES ASSUME ResolutionInv, NEW p \in artifact, NEW a \in Published,
                    NEW probabilities \in a.resolution.probabilities,
                    p.selected.minimumReliability = 0
             PROVE  probabilities[a.resolution.direction] = Unit
  BY DEF UngatedNeedsUnanimity
<1>1. PICK v \in a.vote :
        /\ v \in Vote(a.query, p.samples, p.selected.estimator)
        /\ v.winning \in Directions /\ v.edge \in 0..Unit
        /\ ~(v.edge < p.selected.minimumEdge)
        /\ a.resolution.direction = v.winning
        /\ a.resolution.probabilities = {v.probabilities}
  BY PublishedVote
<1>2. ProfileOK(p) /\ AnswerFrom(p, a)
  BY DEF ResolutionInv, Published
<1>3. /\ a.query.at \in Int /\ p.samples \in Seq(Labelled)
      /\ p.selected.minimumEdge = Unit
  BY <1>1, <1>2, AnswerVote DEF ProfileOK
<1> DEFINE mass == VoteMass(a.query, p.samples, p.selected.estimator)
           bp   == BasisPoints(mass)
<1>4. /\ v.probabilities = bp
      /\ \A c \in Directions \ {v.winning} : bp[v.winning] >= bp[c] + v.edge
  BY <1>1, <1>3, VoteShape
<1>5. bp \in [Directions -> 0..Unit]
  <2>1. mass \in [Directions -> Nat]
    BY <1>3, MassNatural
  <2> HIDE DEF mass
  <2>2. QED
    BY <2>1, PointsFaithful
<1> HIDE DEF bp
<1>6. Unit \in Nat
  BY VoteAssumption
<1>7. v.edge = Unit
  BY <1>1, <1>3, <1>6
<1>8. PICK c \in Directions : c # v.winning
  <2>1. "UP" \in Directions /\ "RANGE" \in Directions
    BY DEF Directions
  <2>2. QED
    BY <2>1
<1>9. bp[v.winning] \in 0..Unit /\ bp[c] \in 0..Unit /\ bp[v.winning] >= bp[c] + Unit
  BY <1>1, <1>4, <1>5, <1>7, <1>8
<1>10. bp[v.winning] = Unit
  BY <1>6, <1>9
<1>11. QED
  BY <1>1, <1>4, <1>10

(* Nothing is published from a profile the test never scored.              *)
LEMMA ScoredAnswer == ResolutionInv => PublishedIsScored
<1> SUFFICES ASSUME ResolutionInv, NEW p \in artifact, NEW a \in Published
             PROVE  DOMAIN p.byDirection # {}
  BY DEF PublishedIsScored
<1>1. p.skill
  BY PublishedVote
<1>2. QED
  BY <1>1 DEF ResolutionInv, ProfileOK

-----------------------------------------------------------------------------
(* The theorems.                                                           *)

(* Every state of the estimator and the runtime satisfies the invariant.   *)
LEMMA ResolutionAlways == Spec => []ResolutionInv
<1>1. Init => ResolutionInv
  BY ResolutionInitially
<1>2. ResolutionInv /\ [Next]_vars => ResolutionInv'
  BY ResolutionInvariant
<1>3. QED
  BY <1>1, <1>2, PTL DEF Spec

(* Gates, bounds and edges are basis points, the medians and the winners   *)
(* they come from exist, and an answer has a direction and a reason of     *)
(* resolve_direction.                                                      *)
THEOREM ResolutionTypeCorrect == Spec => []ResolutionTypeOK
<1>1. QED
  BY ResolutionAlways, ResolutionTyped, PTL

(* probability_basis_points never invents an order: the basis points add   *)
(* up, are within one of the exact shares, and a winner with an edge of    *)
(* two or more outweighs every other direction.                            *)
THEOREM VotesAreFaithful == Spec => []BasisPointsFaithful
<1>1. QED
  BY ResolutionAlways, PointsOfAnswer, PTL

(* A published horizon is ordered and made of first passages of comparable *)
(* snapshots that went the published way: weighted_quantile always finds   *)
(* one.                                                                    *)
THEOREM HorizonsAreEvidence == Spec => []HorizonFromEvidence
<1>1. QED
  BY ResolutionAlways, HorizonOfAnswer, PTL

(* Where the reliability gate is zero, the edge gate lets only unanimous   *)
(* votes through.                                                          *)
THEOREM UngatedIsUnanimous == Spec => []UngatedNeedsUnanimity
<1>1. QED
  BY ResolutionAlways, UngatedAnswer, PTL

(* A profile publishes only what its test scored at least once.            *)
THEOREM PublicationsAreScored == Spec => []PublishedIsScored
<1>1. QED
  BY ResolutionAlways, ScoredAnswer, PTL

(* However the test is corrected, and however often, before the profile is *)
(* built again: only library labels that look into the test differ, and    *)
(* with the same library the parameters are the same.                      *)
THEOREM TestTunesByLabels == Spec => TestTunesThroughLabels
<1>1. ResolutionInv /\ [Next]_vars =>
        [\A p \in artifact, q \in artifact' :
           /\ Len(q.samples) = Len(p.samples)
           /\ \A i \in DOMAIN p.samples :
                Relabelled(i, p.samples[i], q.samples[i], Len(p.samples) + 1)
           /\ q.samples = p.samples => q.selected = p.selected]_vars
  BY ResolutionInvariant DEF ThroughLabels
<1>2. QED
  BY <1>1, ResolutionAlways, PTL DEF Spec, TestTunesThroughLabels

=============================================================================
