---------------------------- MODULE NeighborVote ----------------------------
(***************************************************************************)
(* The vote of the nearest labelled snapshots (calibration.rs:             *)
(* admissible_neighbors, evaluate_vote and what they call), used by the    *)
(* estimator of the profile and by the audits.                             *)
(*                                                                         *)
(* A snapshot is a record with its availability mask, its one effective,   *)
(* already normalized coordinate "at", and, once labelled, its direction   *)
(* and first passage.  A library is a sequence of them, oldest first.      *)
(***************************************************************************)
EXTENDS Common, FiniteSetsExt

CONSTANTS
  Unit,            \* 10 000 basis points
  DistanceScale,   \* a multiple of every distance
  NearScale        \* 1 / distance_floor: the weight of a coincident snapshot

ASSUME VoteAssumption == {Unit, DistanceScale, NearScale} \subseteq Nat \ {0}

Directions == {"UP", "RANGE", "DOWN"}

(* direction_order                                                         *)
Rank == [UP |-> 0, RANGE |-> 1, DOWN |-> 2]

-----------------------------------------------------------------------------
(* The vote of the neighbours.                                             *)

Distance(a, b) == Greatest(a.at - b.at, b.at - a.at)

Matching(query, samples) == {i \in DOMAIN samples : samples[i].mask = query.mask}

(* admissible_neighbors, truncated: nearest first, the earlier snapshot    *)
(* before a later one at the same distance.                                *)
Neighbors(query, samples, estimator) ==
  LET d == [i \in Matching(query, samples) |-> Distance(query, samples[i])]
      admissible == {i \in DOMAIN d : d[i] <= estimator.distance}
      Closer(i, j) == d[i] < d[j] \/ (d[i] = d[j] /\ i < j)
  IN {i \in admissible :
        Cardinality({j \in admissible : Closer(j, i)}) < estimator.count}

(* 1 / max(distance, floor)^power, on a common integer scale; the power is *)
(* one or two.                                                             *)
Weight(distance, power) ==
  LET closeness == IF distance = 0 THEN DistanceScale * NearScale
                                   ELSE DistanceScale \div distance
  IN IF power = 2 THEN closeness * closeness ELSE closeness

(* probability_basis_points: floors, and the largest remainders get the    *)
(* basis points that are left.                                             *)
FaultyBasisPoints(mass) ==
  LET total == SumFunctionOnSet(mass, Directions)
  IN [c \in Directions |-> (mass[c] * Unit + total \div 2) \div total]
BasisPoints(mass) ==
  LET total        == SumFunctionOnSet(mass, Directions)
      floor        == [c \in Directions |-> (mass[c] * Unit) \div total]
      remainder    == [c \in Directions |-> (mass[c] * Unit) % total]
      remaining    == Unit - SumFunctionOnSet(floor, Directions)
      Earlier(a, b) == \/ remainder[a] > remainder[b]
                       \/ remainder[a] = remainder[b] /\ Rank[a] < Rank[b]
  IN IF total = 0
     THEN [c \in Directions |-> IF c = "RANGE" THEN Unit ELSE 0]
     ELSE [c \in Directions |->
             floor[c] + (IF Cardinality({b \in Directions : Earlier(b, c)}) < remaining
                         THEN 1 ELSE 0)]

Mass(neighbors, weight, samples) ==
  [c \in Directions |->
     SumFunctionOnSet(weight, {i \in neighbors : samples[i].direction = c})]

(* ranked: the largest first, UP before RANGE before DOWN on a tie.        *)
FaultyOutranks(bp, c, b) == bp[c] < bp[b] \/ (bp[c] = bp[b] /\ Rank[c] < Rank[b])
Outranks(bp, c, b) == bp[c] > bp[b] \/ (bp[c] = bp[b] /\ Rank[c] < Rank[b])

(* evaluate_vote: None below the minimum support.                          *)
Vote(query, samples, estimator) ==
  LET neighbors == Neighbors(query, samples, estimator)
      weight    == [i \in neighbors |-> Weight(Distance(query, samples[i]), estimator.power)]
      bp        == BasisPoints(Mass(neighbors, weight, samples))
      winning   == CHOOSE c \in Directions : \A b \in Directions \ {c} : Outranks(bp, c, b)
      second    == CHOOSE c \in Directions \ {winning} :
                     \A b \in Directions \ {winning, c} : Outranks(bp, c, b)
  IN IF Cardinality(neighbors) < estimator.support THEN {}
     ELSE {[winning       |-> winning,
            edge          |-> bp[winning] - bp[second],
            probabilities |-> bp,
            support       |-> Cardinality(neighbors),
            passages      |-> {[weight |-> weight[i], bars |-> samples[i].passage, sample |-> i] :
                                 i \in {j \in neighbors : samples[j].direction = winning}}]}

(* kth_distance: None when no sample has the query's mask.                 *)
KthDistance(query, samples, count) ==
  LET matching == Matching(query, samples)
      k        == Least(count, Cardinality(matching))
      Within(d) == Cardinality({i \in matching : Distance(query, samples[i]) <= d})
      reached  == {d \in {Distance(query, samples[i]) : i \in matching} : Within(d) >= k}
  IN IF matching = {} THEN {} ELSE {CHOOSE d \in reached : \A e \in reached : d <= e}

(* The terms of multiclass_brier_score and climatology_brier_score: a      *)
(* forecast that adds up to "whole" against the direction that came.       *)
SquaredError(forecast, whole, actual) ==
  MapThenSumSet(LAMBDA c : (forecast[c] - (IF c = actual THEN whole ELSE 0))^2, Directions)

=============================================================================
