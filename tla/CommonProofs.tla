---------------------------- MODULE CommonProofs ----------------------------
(***************************************************************************)
(* Facts that the proofs of several components need: about numbers, their  *)
(* least and greatest and induction over them, about Ascending and Only,   *)
(* and about finite sums.                                                  *)
(***************************************************************************)
EXTENDS Common, Functions, FiniteSetTheorems, WellFoundedInduction, TLAPS

(* A set of natural numbers has a least element.                           *)
LEMMA LeastNatural ==
  ASSUME NEW T \in SUBSET Nat, T # {}
  PROVE  \E x \in T : \A y \in T : x <= y
<1>1. PICK x \in T : \A y \in T : ~(<<y, x>> \in OpToRel(<, Nat))
  BY NatLessThanWellFounded, WFMin
<1>2. \A y \in T : ~(y < x)
  BY <1>1 DEF OpToRel
<1>3. QED
  BY <1>2

(* Induction: a set with zero and all its successors has every natural.    *)
LEMMA NaturalInduction ==
  ASSUME NEW S, 0 \in S, \A n \in Nat : n \in S => n + 1 \in S
  PROVE  \A n \in Nat : n \in S
<1>1. SUFFICES ASSUME Nat \ S # {} PROVE FALSE
  OBVIOUS
<1>2. PICK x \in Nat \ S : \A y \in Nat \ S : x <= y
  BY <1>1, LeastNatural
<1>3. x - 1 \in Nat /\ x - 1 \notin Nat \ S
  BY <1>2
<1>4. QED
  BY <1>2, <1>3

(* Induction along an interval of integers.                                *)
LEMMA IntervalInduction ==
  ASSUME NEW first \in Int, NEW last \in Int, NEW P,
         first <= last => first \in P,
         \A i \in first..last : i # first /\ i - 1 \in P => i \in P
  PROVE  \A i \in first..last : i \in P
<1> DEFINE reached == {n \in Nat : first + n \in first..last => first + n \in P}
<1>1. 0 \in reached
  OBVIOUS
<1>2. ASSUME NEW n \in Nat, n \in reached PROVE n + 1 \in reached
  <2> SUFFICES ASSUME first + (n + 1) \in first..last PROVE first + (n + 1) \in P
    OBVIOUS
  <2>1. first + n \in P
    BY <1>2
  <2>2. first + (n + 1) # first /\ first + (n + 1) - 1 = first + n
    OBVIOUS
  <2>3. QED
    BY <2>1, <2>2
<1>3. \A n \in Nat : n \in reached
  <2> HIDE DEF reached
  <2> QED BY <1>1, <1>2, NaturalInduction
<1>4. ASSUME NEW i \in first..last PROVE i \in P
  <2>1. i - first \in Nat /\ first + (i - first) = i
    OBVIOUS
  <2>2. i - first \in reached
    BY <1>3, <2>1
  <2>3. QED
    BY <2>1, <2>2
<1>5. QED
  BY <1>4

(* A finite set of integers has a greatest element.                        *)
LEMMA GreatestInteger ==
  ASSUME NEW T \in SUBSET Int, T # {}, IsFiniteSet(T)
  PROVE  \E x \in T : \A y \in T : y <= x
<1> DEFINE small == {n \in Nat : \A S \in SUBSET T :
                       S # {} /\ Cardinality(S) = n => \E x \in S : \A y \in S : y <= x}
<1>1. 0 \in small
  <2>1. \A S \in SUBSET T : Cardinality(S) = 0 => S = {}
    BY FS_Subset, FS_EmptySet
  <2>2. QED
    BY <2>1
<1>2. ASSUME NEW n \in Nat, n \in small PROVE n + 1 \in small
  <2> SUFFICES ASSUME NEW S \in SUBSET T, S # {}, Cardinality(S) = n + 1
               PROVE  \E x \in S : \A y \in S : y <= x
    OBVIOUS
  <2>1. PICK z \in S : TRUE
    OBVIOUS
  <2>2. IsFiniteSet(S) /\ Cardinality(S \ {z}) = Cardinality(S) - 1
    BY FS_Subset, FS_RemoveElement
  <2>3. S \ {z} \in SUBSET T /\ Cardinality(S \ {z}) = n
    BY <2>2
  <2>4. CASE S \ {z} = {}
    <3>1. \A y \in S : y = z
      BY <2>4
    <3>2. QED
      BY <2>1, <3>1
  <2>5. CASE S \ {z} # {}
    <3>1. PICK x \in S \ {z} : \A y \in S \ {z} : y <= x
      BY <1>2, <2>3, <2>5
    <3>2. CASE x <= z
      <4>1. \A y \in S : y <= z
        BY <3>1, <3>2
      <4>2. QED
        BY <4>1
    <3>3. CASE z < x
      <4>1. \A y \in S : y <= x
        BY <3>1, <3>3
      <4>2. QED
        BY <3>1, <4>1
    <3>4. QED
      BY <3>1, <3>2, <3>3
  <2>6. QED
    BY <2>4, <2>5
<1>3. \A n \in Nat : n \in small
  <2> HIDE DEF small
  <2> QED BY <1>1, <1>2, NaturalInduction
<1>4. QED
  BY <1>3, FS_CardinalityType

(* A finite set of natural numbers has a greatest element.                 *)
LEMMA FiniteGreatest ==
  ASSUME NEW T \in SUBSET Nat, T # {}, IsFiniteSet(T)
  PROVE  \E x \in T : \A y \in T : y <= x
<1>1. T \in SUBSET Int
  OBVIOUS
<1>2. QED
  BY <1>1, GreatestInteger

(* What a function makes of a finite set is finite, and no larger.         *)
LEMMA ImageFinite ==
  ASSUME NEW f, NEW S, IsFiniteSet(S)
  PROVE  /\ IsFiniteSet({f[x] : x \in S})
         /\ Cardinality({f[x] : x \in S}) <= Cardinality(S)
<1> DEFINE T == {f[x] : x \in S}
           g == [x \in S |-> f[x]]
<1>1. g \in Surjection(S, T)
  BY DEF Surjection
<1> HIDE DEF T, g
<1>2. IsFiniteSet(T) /\ Cardinality(T) <= Cardinality(S)
  BY <1>1, FS_Surjection
<1>3. QED
  BY <1>2 DEF T

(* A finite set of integers has a least element.                           *)
LEMMA LeastInteger ==
  ASSUME NEW T \in SUBSET Int, T # {}, IsFiniteSet(T)
  PROVE  \E x \in T : \A y \in T : x <= y
<1>1. PICK minus : minus = [x \in Int |-> -x]
  OBVIOUS
<1>2. \A x \in T : x \in Int /\ minus[x] \in Int /\ minus[x] = -x
  BY <1>1
<1> DEFINE M == {minus[x] : x \in T}
<1>3. IsFiniteSet(M)
  BY ImageFinite
<1>4. M \in SUBSET Int /\ M # {}
  BY <1>2
<1>5. \A x \in T : minus[x] \in M
  OBVIOUS
<1>6. \A m \in M : \E x \in T : m = minus[x]
  OBVIOUS
<1> HIDE DEF M
<1>7. PICK m \in M : \A n \in M : n <= m
  BY <1>3, <1>4, GreatestInteger
<1>8. PICK x \in T : m = minus[x]
  BY <1>6
<1>9. ASSUME NEW y \in T PROVE x <= y
  BY <1>2, <1>5, <1>7, <1>8
<1>10. QED
  BY <1>9

-----------------------------------------------------------------------------
(* Ascending                                                               *)

(* The numbers of S up to x.                                               *)
UpTo(S, x) == {y \in S : y <= x}

(* Counting up to the members of a finite set of naturals: every number    *)
(* from one to the size of the set is reached at exactly one member.       *)
LEMMA EveryRank ==
  ASSUME NEW S \in SUBSET Nat, IsFiniteSet(S), NEW k \in 1..Cardinality(S)
  PROVE  \E x \in S : Cardinality(UpTo(S, x)) = k
<1>1. \A x \in S : IsFiniteSet(UpTo(S, x)) /\ Cardinality(UpTo(S, x)) \in Nat
  BY FS_Subset, FS_CardinalityType DEF UpTo
<1> DEFINE T == {x \in S : Cardinality(UpTo(S, x)) >= k}
<1>2. Cardinality(S) \in Nat
  BY FS_CardinalityType
<1>3. S # {}
  BY <1>2, FS_EmptySet
<1>4. PICK last \in S : \A y \in S : y <= last
  BY <1>3, FiniteGreatest
<1> HIDE DEF T
<1>5. UpTo(S, last) = S
  BY <1>4 DEF UpTo
<1>6. T # {} /\ T \in SUBSET Nat
  <2>1. T \in SUBSET Nat
    BY DEF T
  <2>2. last \in T
    <3>1. Cardinality(UpTo(S, last)) >= k
      BY <1>5, <1>2
    <3>2. QED
      BY <3>1, <1>4 DEF T
  <2>3. QED
    BY <2>1, <2>2
<1>7. PICK x \in T : \A y \in T : x <= y
  BY <1>6, LeastNatural
<1> x \in S /\ x \in Nat /\ Cardinality(UpTo(S, x)) >= k
  BY <1>7 DEF T
<1> DEFINE below == {y \in S : y < x}
<1>8. IsFiniteSet(below) /\ Cardinality(below) \in Nat /\ x \notin below
  BY FS_Subset, FS_CardinalityType
<1>9. UpTo(S, x) = below \cup {x}
  <2>1. \A y \in S : y \in Nat /\ (y <= x <=> (y < x \/ y = x))
    OBVIOUS
  <2>2. QED
    BY <2>1 DEF UpTo
<1>10. Cardinality(UpTo(S, x)) = Cardinality(below) + 1
  BY <1>8, <1>9, FS_AddElement
<1>11. Cardinality(below) < k
  <2>1. CASE below = {}
    BY <2>1, FS_EmptySet
  <2>2. CASE below # {}
    <3>1. PICK m \in below : \A y \in below : y <= m
      BY <2>2, <1>8, FiniteGreatest
    <3>2. UpTo(S, m) = below
      <4>1. \A y \in S : y \in Nat /\ (y < x => y <= m) /\ (y <= m => y < x)
        BY <3>1
      <4>2. QED
        BY <4>1 DEF UpTo
    <3>3. Cardinality(UpTo(S, m)) < k
      <4>1. m \notin T
        BY <3>1, <1>7
      <4>2. QED
        BY <3>1, <4>1, <1>1 DEF T
    <3>4. QED
      BY <3>1, <3>2, <3>3, <1>1
  <2>3. QED
    BY <2>1, <2>2
<1>12. QED
  BY <1>7, <1>8, <1>10, <1>11, <1>1

(* Ascending lists the members of a finite set of naturals, each at its    *)
(* rank.                                                                   *)
LEMMA AscendingRanks ==
  ASSUME NEW S \in SUBSET Nat, IsFiniteSet(S)
  PROVE  /\ Cardinality(S) \in Nat
         /\ Ascending(S) \in Seq(S)
         /\ Len(Ascending(S)) = Cardinality(S)
         /\ \A k \in 1..Cardinality(S) : Cardinality(UpTo(S, Ascending(S)[k])) = k
<1>1. Cardinality(S) \in Nat
  BY FS_CardinalityType
<1>2. \A k \in 1..Cardinality(S) :
        Ascending(S)[k] \in S /\ Cardinality(UpTo(S, Ascending(S)[k])) = k
  BY EveryRank DEF Ascending, UpTo
<1>3. Ascending(S) = [k \in 1..Cardinality(S) |-> Ascending(S)[k]]
  BY DEF Ascending
<1>4. QED
  BY <1>1, <1>2, <1>3

(* The list is in ascending order and misses none of them.                 *)
LEMMA AscendingOrdered ==
  ASSUME NEW S \in SUBSET Nat, IsFiniteSet(S)
  PROVE  /\ \A k, l \in 1..Len(Ascending(S)) : k < l => Ascending(S)[k] < Ascending(S)[l]
         /\ \A x \in S : \E k \in 1..Len(Ascending(S)) : Ascending(S)[k] = x
<1> DEFINE a == Ascending(S)
<1>1. /\ Cardinality(S) \in Nat /\ a \in Seq(S) /\ Len(a) = Cardinality(S)
      /\ \A k \in 1..Len(a) : Cardinality(UpTo(S, a[k])) = k
  BY AscendingRanks
<1>2. \A x \in S : /\ IsFiniteSet(UpTo(S, x)) /\ Cardinality(UpTo(S, x)) \in Nat
                   /\ Cardinality(UpTo(S, x)) <= Cardinality(S)
  BY FS_Subset, FS_CardinalityType DEF UpTo
<1>3. \A x, y \in S : x <= y => Cardinality(UpTo(S, x)) <= Cardinality(UpTo(S, y))
  <2> SUFFICES ASSUME NEW x \in S, NEW y \in S, x <= y
               PROVE  Cardinality(UpTo(S, x)) <= Cardinality(UpTo(S, y))
    OBVIOUS
  <2>1. UpTo(S, x) \subseteq UpTo(S, y)
    <3>1. \A z \in S : z \in Nat /\ (z <= x => z <= y)
      OBVIOUS
    <3>2. QED
      BY <3>1 DEF UpTo
  <2>2. QED
    BY <2>1, <1>2, FS_Subset
<1> HIDE DEF a
<1>4. \A k \in 1..Len(a) : a[k] \in S /\ a[k] \in Nat
  <2>1. \A k \in 1..Len(a) : a[k] \in S
    BY <1>1
  <2>2. QED
    BY <2>1
<1>5. ASSUME NEW k \in 1..Len(a), NEW l \in 1..Len(a), k < l
      PROVE  a[k] < a[l]
  <2>1. SUFFICES ASSUME a[l] <= a[k] PROVE FALSE
    BY <1>4
  <2>2. Cardinality(UpTo(S, a[l])) <= Cardinality(UpTo(S, a[k]))
    BY <2>1, <1>3, <1>4
  <2>3. Cardinality(UpTo(S, a[l])) = l /\ Cardinality(UpTo(S, a[k])) = k
    BY <1>1
  <2>4. l <= k /\ k \in Nat /\ l \in Nat
    BY <2>2, <2>3, <1>1
  <2>5. QED
    BY <2>4, <1>5
<1>6. ASSUME NEW x \in S PROVE \E k \in 1..Len(a) : a[k] = x
  <2> DEFINE k == Cardinality(UpTo(S, x))
  <2>1. x \in UpTo(S, x)
    BY DEF UpTo
  <2>2. k \in 1..Len(a)
    <3>1. k # 0
      BY <2>1, <1>2, FS_EmptySet
    <3>2. QED
      BY <3>1, <1>1, <1>2
  <2>3. Cardinality(UpTo(S, a[k])) = k /\ a[k] \in S /\ a[k] \in Nat /\ x \in Nat
    BY <2>2, <1>1, <1>4
  <2> HIDE DEF k
  <2> DEFINE z == a[k]
  <2>a. z \in S /\ z \in Nat /\ Cardinality(UpTo(S, z)) = k
    BY <2>3
  <2> HIDE DEF z
  <2>4. CASE z < x
    <3>1. UpTo(S, z) \subseteq UpTo(S, x) \ {x}
      <4>1. \A y \in S : y \in Nat /\ (y <= z => y <= x /\ y # x)
        BY <2>3, <2>a, <2>4
      <4>2. QED
        BY <4>1 DEF UpTo
    <3>2. Cardinality(UpTo(S, x) \ {x}) = k - 1 /\ IsFiniteSet(UpTo(S, x) \ {x})
      BY <2>1, <1>2, FS_RemoveElement DEF k
    <3>3. Cardinality(UpTo(S, z)) <= k - 1
      BY <3>1, <3>2, FS_Subset
    <3>4. QED
      BY <3>3, <2>a, <2>2
  <2>5. CASE x < z
    <3>1. UpTo(S, x) \subseteq UpTo(S, z) \ {z}
      <4>1. \A y \in S : y \in Nat /\ (y <= x => y <= z /\ y # z)
        BY <2>3, <2>a, <2>5
      <4>2. QED
        BY <4>1 DEF UpTo
    <3>2. z \in UpTo(S, z)
      BY <2>a DEF UpTo
    <3>3. /\ Cardinality(UpTo(S, z) \ {z}) = k - 1
          /\ IsFiniteSet(UpTo(S, z) \ {z})
      BY <3>2, <2>a, <1>2, FS_RemoveElement
    <3>4. k <= k - 1
      BY <3>1, <3>3, FS_Subset DEF k
    <3>5. QED
      BY <3>4, <2>2
  <2>6. QED
    BY <2>2, <2>3, <2>a, <2>4, <2>5 DEF z
<1>7. QED
  BY <1>5, <1>6 DEF a

(* What a sequence over a set consists of; a larger set will do as well.   *)
LEMMA Members ==
  ASSUME NEW A, NEW B, NEW s \in Seq(A), A \subseteq B
  PROVE  /\ Len(s) \in Nat /\ DOMAIN s = 1..Len(s)
         /\ \A i \in 1..Len(s) : s[i] \in A
         /\ s \in Seq(B)
<1>1. Len(s) \in Nat /\ DOMAIN s = 1..Len(s) /\ \A i \in 1..Len(s) : s[i] \in A
  OBVIOUS
<1>2. s \in [1..Len(s) -> B]
  BY <1>1
<1>3. QED
  BY <1>1, <1>2

(* The places of a sequence are a finite set of numbers.                   *)
LEMMA Places ==
  ASSUME NEW R, NEW s \in Seq(R), NEW P \in SUBSET DOMAIN s
  PROVE  P \in SUBSET Nat /\ IsFiniteSet(P) /\ P \subseteq 1..Len(s)
<1>1. P \subseteq 1..Len(s) /\ Len(s) \in Nat
  OBVIOUS
<1>2. IsFiniteSet(1..Len(s))
  BY <1>1, FS_Interval
<1>3. QED
  BY <1>1, <1>2, FS_Subset

(* Only has what the sequence has at the given places, and nothing else.   *)
LEMMA OnlyThese ==
  ASSUME NEW R, NEW s \in Seq(R), NEW P \in SUBSET DOMAIN s
  PROVE  /\ Only(s, P) \in Seq(R)
         /\ Len(Only(s, P)) = Cardinality(P)
         /\ \A k \in DOMAIN Only(s, P) : \E i \in P : Only(s, P)[k] = s[i]
         /\ \A i \in P : \E k \in DOMAIN Only(s, P) : Only(s, P)[k] = s[i]
<1> DEFINE a == Ascending(P)
<1>1. a \in Seq(P) /\ Len(a) = Cardinality(P)
  BY Places, AscendingRanks
<1>2. \A x \in P : \E k \in 1..Len(a) : a[k] = x
  BY Places, AscendingOrdered
<1>3. Only(s, P) = [k \in DOMAIN a |-> s[a[k]]]
  BY DEF Only
<1> HIDE DEF a
<1>4. DOMAIN a = 1..Len(a) /\ Len(a) \in Nat /\ \A k \in 1..Len(a) : a[k] \in P
  BY <1>1
<1>5. \A i \in P : s[i] \in R
  OBVIOUS
<1>6. Only(s, P) = [k \in 1..Len(a) |-> s[a[k]]]
  BY <1>3, <1>4
<1>7. Only(s, P) \in Seq(R) /\ Len(Only(s, P)) = Len(a) /\ DOMAIN Only(s, P) = 1..Len(a)
  BY <1>4, <1>5, <1>6
<1>8. \A k \in 1..Len(a) : Only(s, P)[k] = s[a[k]]
  BY <1>6
<1>9. \A k \in DOMAIN Only(s, P) : \E i \in P : Only(s, P)[k] = s[i]
  BY <1>4, <1>7, <1>8
<1>10. \A i \in P : \E k \in DOMAIN Only(s, P) : Only(s, P)[k] = s[i]
  BY <1>2, <1>7, <1>8
<1>11. QED
  BY <1>1, <1>7, <1>9, <1>10

(* Only keeps the order of the sequence.                                   *)
LEMMA OnlyOrdered ==
  ASSUME NEW R, NEW s \in Seq(R), NEW P \in SUBSET DOMAIN s
  PROVE  \A k, l \in DOMAIN Only(s, P) :
           k < l => \E i, j \in P : i < j /\ Only(s, P)[k] = s[i] /\ Only(s, P)[l] = s[j]
<1>1. PICK a : a = Ascending(P)
  OBVIOUS
<1>2. a \in Seq(P) /\ \A k, l \in 1..Len(a) : k < l => a[k] < a[l]
  BY <1>1, Places, AscendingRanks, AscendingOrdered
<1>3. DOMAIN a = 1..Len(a) /\ \A k \in 1..Len(a) : a[k] \in P
  BY <1>2
<1>4. Only(s, P) = [k \in 1..Len(a) |-> s[a[k]]]
  BY <1>1, <1>3 DEF Only
<1>5. QED
  BY <1>2, <1>3, <1>4

-----------------------------------------------------------------------------
(* SumFunctionOnSet is defined by a recursive function on the subsets of   *)
(* the index set; that function exists, for every finite index set.        *)

OneOf(s) == CHOOSE x \in s : TRUE

SumRule(w, g, s) == IF s = {} THEN 0 ELSE w[OneOf(s)] + g[s \ {OneOf(s)}]

Partial(w, S) == CHOOSE g : g = [s \in SUBSET S |-> SumRule(w, g, s)]

(* What SumFunctionOnSet is.                                               *)
LEMMA SumIsPartial ==
  ASSUME NEW w, NEW S
  PROVE  SumFunctionOnSet(w, S) = Partial(w, S)[S]
BY DEF SumFunctionOnSet, FoldFunctionOnSet, MapThenFoldSet, Partial, SumRule, OneOf

Small(S, n) == {s \in SUBSET S : Cardinality(s) <= n}

(* Sums over the subsets of at most n elements can be extended to those of *)
(* one element more.                                                       *)
LEMMA PartialExtends ==
  ASSUME NEW w, NEW S, IsFiniteSet(S), NEW n \in Nat, NEW g,
         g = [s \in Small(S, n) |-> SumRule(w, g, s)]
  PROVE  \E h : h = [s \in Small(S, n + 1) |-> SumRule(w, h, s)]
<1> DEFINE h == [s \in Small(S, n + 1) |-> IF s \in Small(S, n) THEN g[s] ELSE SumRule(w, g, s)]
<1>1. ASSUME NEW s \in Small(S, n + 1), s # {}
      PROVE  s \ {OneOf(s)} \in Small(S, n) /\ s \ {OneOf(s)} \in Small(S, n + 1)
  <2>1. IsFiniteSet(s) /\ OneOf(s) \in s
    BY <1>1, FS_Subset DEF Small, OneOf
  <2>2. Cardinality(s \ {OneOf(s)}) = Cardinality(s) - 1 /\ Cardinality(s) \in Nat
    BY <2>1, FS_RemoveElement, FS_CardinalityType
  <2>3. QED
    BY <2>2 DEF Small
<1>2. ASSUME NEW s \in Small(S, n + 1) PROVE h[s] = SumRule(w, h, s)
  <2>1. h[s] = SumRule(w, g, s)
    <3>1. s \in Small(S, n) => g[s] = SumRule(w, g, s)
      OBVIOUS
    <3>2. QED
      BY <3>1
  <2>2. s # {} => h[s \ {OneOf(s)}] = g[s \ {OneOf(s)}]
    BY <1>1
  <2>3. QED
    BY <2>1, <2>2 DEF SumRule
<1>3. h = [s \in Small(S, n + 1) |-> SumRule(w, h, s)]
  <2>1. h = [s \in Small(S, n + 1) |-> h[s]]
    OBVIOUS
  <2> HIDE DEF h
  <2>2. QED
    BY <1>2, <2>1
<1>4. QED
  BY <1>3

(* The recursion of a finite sum is well founded.                          *)
LEMMA PartialDefined ==
  ASSUME NEW w, NEW S, IsFiniteSet(S)
  PROVE  Partial(w, S) = [s \in SUBSET S |-> SumRule(w, Partial(w, S), s)]
<1> DEFINE defined == {n \in Nat : \E g : g = [s \in Small(S, n) |-> SumRule(w, g, s)]}
<1>1. 0 \in defined
  <2> DEFINE g == [s \in Small(S, 0) |-> 0]
  <2>1. \A s \in Small(S, 0) : s = {}
    <3> TAKE s \in Small(S, 0)
    <3>1. IsFiniteSet(s) /\ Cardinality(s) = 0
      BY FS_Subset, FS_CardinalityType DEF Small
    <3>2. QED
      BY <3>1, FS_EmptySet
  <2>2. g = [s \in Small(S, 0) |-> SumRule(w, g, s)]
    BY <2>1 DEF SumRule
  <2>3. QED
    BY <2>2
<1>2. ASSUME NEW n \in Nat, n \in defined PROVE n + 1 \in defined
  <2>1. PICK g : g = [s \in Small(S, n) |-> SumRule(w, g, s)]
    BY <1>2
  <2>2. QED
    BY <2>1, PartialExtends
<1>3. \A n \in Nat : n \in defined
  <2> HIDE DEF defined
  <2> QED BY <1>1, <1>2, NaturalInduction
<1>4. Cardinality(S) \in Nat /\ Small(S, Cardinality(S)) = SUBSET S
  BY FS_CardinalityType, FS_Subset DEF Small
<1>5. \E g : g = [s \in SUBSET S |-> SumRule(w, g, s)]
  BY <1>3, <1>4
<1>6. QED
  BY <1>5 DEF Partial

(* A sum is nothing, or an element and the sum of the rest.                *)
LEMMA PartialStep ==
  ASSUME NEW w, NEW S, IsFiniteSet(S), NEW s \in SUBSET S
  PROVE  /\ s = {} => Partial(w, S)[s] = 0
         /\ s # {} => \E x \in s : Partial(w, S)[s] = w[x] + Partial(w, S)[s \ {x}]
<1> DEFINE g == Partial(w, S)
<1>0. g = [t \in SUBSET S |-> SumRule(w, g, t)]
  BY PartialDefined
<1> HIDE DEF g
<1>1. g[s] = SumRule(w, g, s)
  BY <1>0
<1>2. s # {} => OneOf(s) \in s
  BY DEF OneOf
<1>3. QED
  BY <1>1, <1>2 DEF SumRule, g

(* Sums of natural numbers are natural numbers.                            *)
LEMMA PartialNatural ==
  ASSUME NEW w, NEW S, IsFiniteSet(S), \A x \in S : w[x] \in Nat
  PROVE  \A s \in SUBSET S : Partial(w, S)[s] \in Nat
<1> DEFINE natural == {n \in Nat : \A s \in SUBSET S :
                         Cardinality(s) = n => Partial(w, S)[s] \in Nat}
<1>1. 0 \in natural
  <2> SUFFICES ASSUME NEW s \in SUBSET S, Cardinality(s) = 0
               PROVE  Partial(w, S)[s] \in Nat
    OBVIOUS
  <2>1. s = {}
    BY FS_Subset, FS_EmptySet
  <2>2. QED
    BY <2>1, PartialStep
<1>2. ASSUME NEW n \in Nat, n \in natural PROVE n + 1 \in natural
  <2> SUFFICES ASSUME NEW s \in SUBSET S, Cardinality(s) = n + 1
               PROVE  Partial(w, S)[s] \in Nat
    OBVIOUS
  <2>1. IsFiniteSet(s) /\ s # {}
    BY FS_Subset, FS_EmptySet
  <2>2. PICK x \in s : Partial(w, S)[s] = w[x] + Partial(w, S)[s \ {x}]
    BY <2>1, PartialStep
  <2>3. s \ {x} \in SUBSET S /\ Cardinality(s \ {x}) = n
    <3>1. Cardinality(s \ {x}) = Cardinality(s) - 1
      BY <2>1, <2>2, FS_RemoveElement
    <3>2. QED
      BY <3>1
  <2>4. Partial(w, S)[s \ {x}] \in Nat
    BY <1>2, <2>3
  <2>5. QED
    BY <2>2, <2>4
<1>3. \A n \in Nat : n \in natural
  <2> HIDE DEF natural
  <2> QED BY <1>1, <1>2, NaturalInduction
<1>4. QED
  BY <1>3, FS_Subset, FS_CardinalityType

(* A sum of natural numbers is a natural number, and is positive if there  *)
(* is something to add and it is positive.                                 *)
LEMMA SumNatural ==
  ASSUME NEW w, NEW S, IsFiniteSet(S), \A x \in S : w[x] \in Nat
  PROVE  /\ SumFunctionOnSet(w, S) \in Nat
         /\ S # {} /\ (\A x \in S : w[x] > 0) => SumFunctionOnSet(w, S) > 0
<1>1. SumFunctionOnSet(w, S) = Partial(w, S)[S]
  BY SumIsPartial
<1>2. SumFunctionOnSet(w, S) \in Nat
  BY <1>1, PartialNatural
<1>3. ASSUME S # {}, \A x \in S : w[x] > 0 PROVE SumFunctionOnSet(w, S) > 0
  <2>1. PICK x \in S : Partial(w, S)[S] = w[x] + Partial(w, S)[S \ {x}]
    BY <1>3, PartialStep
  <2>2. Partial(w, S)[S \ {x}] \in Nat /\ w[x] \in Nat /\ w[x] > 0
    BY <1>3, PartialNatural
  <2>3. QED
    BY <1>1, <2>1, <2>2
<1>4. QED
  BY <1>2, <1>3

(* The sum of nothing.                                                     *)
LEMMA SumEmpty == ASSUME NEW w PROVE SumFunctionOnSet(w, {}) = 0
BY SumIsPartial, PartialStep, FS_EmptySet

(* The sum of three.                                                       *)
LEMMA SumOfThree ==
  ASSUME NEW w, NEW a, NEW b, NEW c, a # b, b # c, a # c,
         w[a] \in Int, w[b] \in Int, w[c] \in Int
  PROVE  SumFunctionOnSet(w, {a, b, c}) = w[a] + w[b] + w[c]
<1> DEFINE S   == {a, b, c}
           sum == Partial(w, S)
<1>1. IsFiniteSet(S)
  <2>1. IsFiniteSet({a} \cup {b} \cup {c})
    BY FS_Singleton, FS_Union
  <2>2. S = {a} \cup {b} \cup {c}
    OBVIOUS
  <2>3. QED
    BY <2>1, <2>2
<1>2. S = {a, b, c}
  OBVIOUS
<1> HIDE DEF S
<1>3. /\ \A s \in SUBSET S : s = {} => sum[s] = 0
      /\ \A s \in SUBSET S : s # {} => \E x \in s : sum[s] = w[x] + sum[s \ {x}]
  BY <1>1, PartialStep
<1>4. SumFunctionOnSet(w, S) = sum[S]
  BY SumIsPartial
<1> HIDE DEF sum
<1>5. ASSUME NEW x \in S PROVE sum[{x}] = w[x]
  <2>1. PICK y \in {x} : sum[{x}] = w[y] + sum[{x} \ {y}]
    BY <1>3
  <2>2. y = x /\ {x} \ {y} = {} /\ {} \in SUBSET S
    BY <2>1
  <2>3. sum[{x} \ {y}] = 0
    BY <1>3, <2>2
  <2>4. w[x] \in Int
    BY <1>2
  <2>5. QED
    BY <2>1, <2>2, <2>3, <2>4
<1>6. ASSUME NEW x \in S, NEW y \in S, x # y PROVE sum[{x, y}] = w[x] + w[y]
  <2>1. PICK z \in {x, y} : sum[{x, y}] = w[z] + sum[{x, y} \ {z}]
    BY <1>3
  <2>2. w[x] \in Int /\ w[y] \in Int
    BY <1>2
  <2>3. CASE z = x
    <3>1. {x, y} \ {z} = {y}
      BY <1>6, <2>3
    <3>2. sum[{x, y}] = w[x] + sum[{y}]
      BY <2>1, <2>3, <3>1
    <3>3. QED
      BY <1>5, <2>2, <3>2
  <2>4. CASE z = y
    <3>1. {x, y} \ {z} = {x}
      BY <1>6, <2>4
    <3>2. sum[{x, y}] = w[y] + sum[{x}]
      BY <2>1, <2>4, <3>1
    <3>3. sum[{x}] = w[x]
      BY <1>5
    <3>4. QED
      BY <2>2, <3>2, <3>3
  <2>5. QED
    BY <2>1, <2>3, <2>4
<1>7. PICK z \in S : sum[S] = w[z] + sum[S \ {z}]
  BY <1>3, <1>2
<1>8. sum[S] = w[a] + w[b] + w[c]
  <2>1. CASE z = a
    <3>1. S \ {z} = {b, c}
      BY <1>2, <2>1
    <3>2. sum[S] = w[a] + sum[{b, c}]
      BY <1>7, <2>1, <3>1
    <3>3. QED
      BY <1>2, <1>6, <3>2
  <2>2. CASE z = b
    <3>1. S \ {z} = {a, c}
      BY <1>2, <2>2
    <3>2. sum[S] = w[b] + sum[{a, c}]
      BY <1>7, <2>2, <3>1
    <3>3. QED
      BY <1>2, <1>6, <3>2
  <2>3. CASE z = c
    <3>1. S \ {z} = {a, b}
      BY <1>2, <2>3
    <3>2. sum[S] = w[c] + sum[{a, b}]
      BY <1>7, <2>3, <3>1
    <3>3. QED
      BY <1>2, <1>6, <3>2
  <2>4. QED
    BY <1>2, <1>7, <2>1, <2>2, <2>3
<1>9. QED
  BY <1>4, <1>2, <1>8

(* A property of the empty set and of every set that has it without one of *)
(* its elements is a property of every finite set.                         *)
LEMMA SubsetInduction ==
  ASSUME NEW S, IsFiniteSet(S), NEW P, {} \in P,
         \A s \in SUBSET S : s # {} /\ s \ {OneOf(s)} \in P => s \in P
  PROVE  \A s \in SUBSET S : s \in P
<1> DEFINE proved == {n \in Nat : \A s \in SUBSET S : Cardinality(s) = n => s \in P}
<1>1. 0 \in proved
  <2>1. \A s \in SUBSET S : Cardinality(s) = 0 => s = {}
    BY FS_Subset, FS_EmptySet
  <2>2. QED
    BY <2>1
<1>2. ASSUME NEW n \in Nat, n \in proved PROVE n + 1 \in proved
  <2> SUFFICES ASSUME NEW s \in SUBSET S, Cardinality(s) = n + 1 PROVE s \in P
    OBVIOUS
  <2>1. IsFiniteSet(s) /\ s # {}
    BY FS_Subset, FS_EmptySet
  <2>2. OneOf(s) \in s
    BY <2>1 DEF OneOf
  <2>3. s \ {OneOf(s)} \in SUBSET S /\ Cardinality(s \ {OneOf(s)}) = n
    <3>1. Cardinality(s \ {OneOf(s)}) = Cardinality(s) - 1
      BY <2>1, <2>2, FS_RemoveElement
    <3>2. QED
      BY <3>1
  <2>4. QED
    BY <1>2, <2>1, <2>3
<1>3. \A n \in Nat : n \in proved
  <2> HIDE DEF proved
  <2> QED BY <1>1, <1>2, NaturalInduction
<1>4. QED
  BY <1>3, FS_Subset, FS_CardinalityType

(* The recursion of a sum does not depend on the set it started from.      *)
LEMMA PartialRestricted ==
  ASSUME NEW w, NEW S, IsFiniteSet(S), NEW T \in SUBSET S
  PROVE  \A s \in SUBSET T : Partial(w, T)[s] = Partial(w, S)[s]
<1> DEFINE P == {s \in SUBSET T : Partial(w, T)[s] = Partial(w, S)[s]}
<1>1. IsFiniteSet(T)
  BY FS_Subset
<1>2. /\ \A s \in SUBSET T : Partial(w, T)[s] = SumRule(w, Partial(w, T), s)
      /\ \A s \in SUBSET T : Partial(w, S)[s] = SumRule(w, Partial(w, S), s)
  <2> DEFINE f == Partial(w, T)
             g == Partial(w, S)
  <2>0. f = [s \in SUBSET T |-> SumRule(w, f, s)]
    BY <1>1, PartialDefined
  <2>1. g = [s \in SUBSET S |-> SumRule(w, g, s)]
    BY PartialDefined
  <2> HIDE DEF f, g
  <2>2. \A s \in SUBSET T : f[s] = SumRule(w, f, s) /\ g[s] = SumRule(w, g, s)
    BY <2>0, <2>1
  <2>3. QED
    BY <2>2 DEF f, g
<1>3. {} \in P
  BY <1>2 DEF SumRule
<1>4. \A s \in SUBSET T : s # {} /\ s \ {OneOf(s)} \in P => s \in P
  BY <1>2 DEF SumRule
<1> HIDE DEF P
<1>5. \A s \in SUBSET T : s \in P
  BY <1>1, <1>3, <1>4, SubsetInduction
<1>6. QED
  BY <1>5 DEF P

(* A sum is the term of one of the elements and the sum of the others.     *)
LEMMA SumStep ==
  ASSUME NEW w, NEW S, IsFiniteSet(S), S # {}
  PROVE  /\ OneOf(S) \in S
         /\ SumFunctionOnSet(w, S) = w[OneOf(S)] + SumFunctionOnSet(w, S \ {OneOf(S)})
<1> DEFINE rest == S \ {OneOf(S)}
<1>1. OneOf(S) \in S
  BY DEF OneOf
<1>2. SumFunctionOnSet(w, S) = Partial(w, S)[S] /\ SumFunctionOnSet(w, rest) = Partial(w, rest)[rest]
  BY SumIsPartial
<1>3. Partial(w, rest)[rest] = Partial(w, S)[rest]
  BY PartialRestricted
<1>4. Partial(w, S)[S] = SumRule(w, Partial(w, S), S)
  <2> DEFINE g == Partial(w, S)
  <2>1. g = [s \in SUBSET S |-> SumRule(w, g, s)]
    BY PartialDefined
  <2> HIDE DEF g
  <2>2. g[S] = SumRule(w, g, S)
    BY <2>1
  <2>3. QED
    BY <2>2 DEF g
<1>5. QED
  BY <1>1, <1>2, <1>3, <1>4 DEF SumRule

(* Functions that have the same, or the opposite, values on a set, and one *)
(* that has natural numbers there.                                         *)
Same(f, g, S)    == \A x \in S : f[x] = g[x]
Opposed(f, g, S) == \A x \in S : f[x] \in Int /\ g[x] = -f[x]
Counts(f, S)     == \A x \in S : f[x] \in Nat

(* Equal terms have equal sums.                                            *)
LEMMA SumAgrees ==
  ASSUME NEW v, NEW w, NEW S, IsFiniteSet(S), Same(v, w, S)
  PROVE  SumFunctionOnSet(v, S) = SumFunctionOnSet(w, S)
<1> USE DEF Same
<1> DEFINE P == {s \in SUBSET S : SumFunctionOnSet(v, s) = SumFunctionOnSet(w, s)}
<1>1. {} \in P
  BY SumEmpty
<1>2. ASSUME NEW s \in SUBSET S, s # {}, s \ {OneOf(s)} \in P PROVE s \in P
  <2>1. IsFiniteSet(s)
    BY FS_Subset
  <2>2. /\ OneOf(s) \in s
        /\ SumFunctionOnSet(v, s) = v[OneOf(s)] + SumFunctionOnSet(v, s \ {OneOf(s)})
        /\ SumFunctionOnSet(w, s) = w[OneOf(s)] + SumFunctionOnSet(w, s \ {OneOf(s)})
    BY <1>2, <2>1, SumStep
  <2>3. QED
    BY <1>2, <2>2
<1> HIDE DEF P
<1>3. S \in P
  BY <1>1, <1>2, SubsetInduction
<1>4. QED
  BY <1>3 DEF P

(* The sum of integers is an integer; the sum of their opposites is its    *)
(* opposite.                                                               *)
LEMMA SumOpposite ==
  ASSUME NEW v, NEW w, NEW S, IsFiniteSet(S), Opposed(w, v, S)
  PROVE  /\ SumFunctionOnSet(w, S) \in Int
         /\ SumFunctionOnSet(v, S) = -SumFunctionOnSet(w, S)
<1> USE DEF Opposed
<1> DEFINE P == {s \in SUBSET S : /\ SumFunctionOnSet(w, s) \in Int
                                  /\ SumFunctionOnSet(v, s) = -SumFunctionOnSet(w, s)}
<1>1. {} \in P
  BY SumEmpty
<1>2. ASSUME NEW s \in SUBSET S, s # {}, s \ {OneOf(s)} \in P PROVE s \in P
  <2>1. IsFiniteSet(s)
    BY FS_Subset
  <2>2. /\ OneOf(s) \in s
        /\ SumFunctionOnSet(v, s) = v[OneOf(s)] + SumFunctionOnSet(v, s \ {OneOf(s)})
        /\ SumFunctionOnSet(w, s) = w[OneOf(s)] + SumFunctionOnSet(w, s \ {OneOf(s)})
    BY <1>2, <2>1, SumStep
  <2>3. QED
    BY <1>2, <2>2
<1> HIDE DEF P
<1>3. S \in P
  BY <1>1, <1>2, SubsetInduction
<1>4. QED
  BY <1>3 DEF P

(* The sum of integers is an integer.                                      *)
LEMMA SumInteger ==
  ASSUME NEW w, NEW S, IsFiniteSet(S), \A x \in S : w[x] \in Int
  PROVE  SumFunctionOnSet(w, S) \in Int
<1>1. PICK v : v = [x \in S |-> -w[x]]
  OBVIOUS
<1>2. Opposed(w, v, S)
  BY <1>1 DEF Opposed
<1>3. QED
  BY <1>2, SumOpposite


(* The square of a sum is at most the number of its terms times the sum of *)
(* their squares: n * Q - S * S is the sum of the squared differences of   *)
(* the terms, which grows with every term by its differences to the rest.  *)
LEMMA SumSquares ==
  ASSUME NEW w, NEW q, NEW S, IsFiniteSet(S), \A x \in S : w[x] \in Int /\ q[x] = w[x] * w[x]
  PROVE  /\ SumFunctionOnSet(w, S) \in Int /\ SumFunctionOnSet(q, S) \in Int
         /\ SumFunctionOnSet(w, S) * SumFunctionOnSet(w, S)
              <= Cardinality(S) * SumFunctionOnSet(q, S)
<1> DEFINE Sum(s) == SumFunctionOnSet(w, s)
           Squares(s) == SumFunctionOnSet(q, s)
           Apart(s, y) == Cardinality(s) * (y * y) + Squares(s) - 2 * (y * Sum(s))
           P == {s \in SUBSET S : /\ Sum(s) * Sum(s) <= Cardinality(s) * Squares(s)
                                  /\ \A y \in Int : Apart(s, y) >= 0}
<1>1. \A s \in SUBSET S : /\ IsFiniteSet(s) /\ Cardinality(s) \in Nat
                          /\ Sum(s) \in Int /\ Squares(s) \in Int
  <2> SUFFICES ASSUME NEW s \in SUBSET S
               PROVE  /\ IsFiniteSet(s) /\ Cardinality(s) \in Nat
                      /\ Sum(s) \in Int /\ Squares(s) \in Int
    OBVIOUS
  <2>1. IsFiniteSet(s) /\ Cardinality(s) \in Nat
    BY FS_Subset, FS_CardinalityType
  <2>2. \A x \in s : w[x] \in Int /\ q[x] \in Int
    OBVIOUS
  <2>3. QED
    BY <2>1, <2>2, SumInteger
<1>2. {} \in P
  <2>1. Sum({}) = 0 /\ Squares({}) = 0 /\ Cardinality({}) = 0
    BY SumEmpty, FS_EmptySet
  <2>2. \A y \in Int : y * y \in Int
    OBVIOUS
  <2>3. QED
    BY <2>1, <2>2
<1>3. ASSUME NEW s \in SUBSET S, s # {}, s \ {OneOf(s)} \in P PROVE s \in P
  <2>1. PICK x \in S : /\ x \in s /\ s \ {x} \in P
                       /\ Sum(s) = w[x] + Sum(s \ {x}) /\ Squares(s) = q[x] + Squares(s \ {x})
    <3>1. IsFiniteSet(s)
      BY <1>1
    <3> HIDE DEF P
    <3>2. /\ OneOf(s) \in s
          /\ Sum(s) = w[OneOf(s)] + Sum(s \ {OneOf(s)})
          /\ Squares(s) = q[OneOf(s)] + Squares(s \ {OneOf(s)})
      BY <1>3, <3>1, SumStep
    <3> HIDE DEF Sum, Squares
    <3>3. QED
      BY <1>3, <3>2
  <2>2. PICK n \in Nat, a \in Int, b \in Int, c \in Int :
          /\ n = Cardinality(s \ {x}) /\ a = Sum(s \ {x}) /\ b = Squares(s \ {x}) /\ c = w[x]
    <3>1. s \ {x} \in SUBSET S
      OBVIOUS
    <3> HIDE DEF P, Sum, Squares
    <3>2. QED
      BY <1>1, <3>1
  <2>3. /\ Cardinality(s) = n + 1 /\ Sum(s) = c + a /\ Squares(s) = c * c + b
    <3>1. Cardinality(s \ {x}) = Cardinality(s) - 1 /\ Cardinality(s) \in Nat
      <4> HIDE DEF P, Sum, Squares
      <4> QED BY <1>1, <2>1, FS_RemoveElement
    <3> HIDE DEF P, Sum, Squares
    <3>2. QED
      BY <2>1, <2>2, <3>1
  <2>4. a * a <= n * b /\ \A y \in Int : n * (y * y) + b - 2 * (y * a) >= 0
    <3>1. s \ {x} \in P
      BY <2>1
    <3> HIDE DEF Sum, Squares
    <3>2. QED
      BY <2>2, <3>1
  <2> HIDE DEF P, Sum, Squares
  <2>5. (c + a) * (c + a) <= (n + 1) * (c * c + b)
    <3>1. n * (c * c) + b - 2 * (c * a) >= 0
      BY <2>4
    <3>2. (c + a) * (c + a) = c * c + 2 * (c * a) + a * a
      OBVIOUS
    <3>3. (n + 1) * (c * c + b) = n * (c * c) + n * b + c * c + b
      OBVIOUS
    <3>4. /\ n * (c * c) \in Int /\ n * b \in Int /\ c * c \in Int /\ c * a \in Int
          /\ a * a \in Int
      OBVIOUS
    <3>5. QED
      BY <2>4, <3>1, <3>2, <3>3, <3>4
  <2>6. ASSUME NEW y \in Int
        PROVE  (n + 1) * (y * y) + (c * c + b) - 2 * (y * (c + a)) >= 0
    <3>1. n * (y * y) + b - 2 * (y * a) >= 0
      BY <2>4
    <3>2. (y - c) * (y - c) >= 0
      <4>1. PICK d \in Int : d = y - c
        OBVIOUS
      <4>2. d * d >= 0
        OBVIOUS
      <4>3. QED
        BY <4>1, <4>2
    <3>3. (y - c) * (y - c) = y * y - 2 * (y * c) + c * c
      OBVIOUS
    <3>4. (n + 1) * (y * y) = n * (y * y) + y * y
      OBVIOUS
    <3>5. y * (c + a) = y * c + y * a
      OBVIOUS
    <3>6. n * (y * y) \in Int /\ y * y \in Int /\ c * c \in Int /\ y * c \in Int /\ y * a \in Int
      OBVIOUS
    <3>7. QED
      BY <3>1, <3>2, <3>3, <3>4, <3>5, <3>6
  <2>7. QED
    BY <2>3, <2>5, <2>6 DEF P
<1>4. S \in P
  <2> HIDE DEF P
  <2>1. QED
    BY <1>2, <1>3, SubsetInduction
<1>5. QED
  BY <1>1, <1>4


=============================================================================
