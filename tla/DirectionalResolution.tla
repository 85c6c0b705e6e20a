------------------------ MODULE DirectionalResolution ------------------------
(***************************************************************************)
(* The estimator side of the calibration and what the runtime publishes    *)
(* from it (calibration.rs: the second half of build_resolution_profile,   *)
(* evaluate_vote, resolve_direction).  Labelled snapshots arrive in time   *)
(* order, the builder fits an estimator on training and validation and     *)
(* scores it on the test, and a query is answered from the artifact.       *)
(*                                                                         *)
(* A snapshot has one effective coordinate, already normalized.  Which     *)
(* evidence a profile may claim is CalibrationEvidence's subject and an    *)
(* input here.                                                             *)
(***************************************************************************)
EXTENDS NeighborVote

CONSTANTS
  Menu,            \* bound: Menu[i] are the i-th snapshots tried
  Corrections,     \* bound: what a corrected bar may make of some of them
  Queries,         \* bound: the snapshots asked about
  MinimumSegment,  \* 4, the least training segment
  WilsonLower(_, _) \* wilson_lower_bp(successes, trials)

(* A snapshot before or after it got a label.                              *)
Snapshot(directions) == [mask : STRING, at : Int, direction : directions, passage : Nat]

ASSUME MenuAssumption ==
  /\ Menu \in Seq(SUBSET Snapshot(Directions)) /\ Queries \subseteq Snapshot({"UNRESOLVED"})
  /\ MinimumSegment \in Nat

ASSUME CorrectionAssumption ==
  \A change \in Corrections : \A i \in DOMAIN change : i \in DOMAIN Menu /\ change[i] \in Menu[i]

(* The scale of the weights is a multiple of every distance that occurs.   *)
ASSUME DistanceAssumption ==
  LET tried == UNION {Menu[i] : i \in DOMAIN Menu}
  IN \A a \in Queries \cup tried, b \in tried :
       Distance(a, b) # 0 => DistanceScale % Distance(a, b) = 0

ASSUME WilsonAssumption ==
  \A n \in 0..Len(Menu) : \A k \in 0..n :
    /\ WilsonLower(k, n) \in 0..Unit
    /\ WilsonLower(0, n) = 0
    /\ n > 0 => WilsonLower(k, n) * n <= k * Unit

VARIABLES
  frames,    \* the labelled snapshots, oldest first
  artifact,  \* Option of a profile
  answer     \* Option of a resolution with the query it answers

vars == <<frames, artifact, answer>>

Evidence   == {"UNTOUCHED", "AWAITING", "CONSUMED"}
Reasons ==
  {"INSUFFICIENT_MATCHED_SUPPORT", "PREREGISTERED_AWAITING_PROSPECTIVE_EVIDENCE",
   "CALIBRATION_EVIDENCE_NOT_PREREGISTERED", "HELD_OUT_PROBABILITY_SKILL_NOT_POSITIVE",
   "CALIBRATED_DIRECTION_EDGE_NOT_MET", "HELD_OUT_RELIABILITY_NOT_MET",
   "CALIBRATED_EVIDENCE_SATISFIED"}

-----------------------------------------------------------------------------
(* weighted_quantile: the first passage by which quarters/4 of the weight  *)
(* has passed.                                                             *)
Quantile(passages, quarters) ==
  LET weight   == [p \in passages |-> p.weight]
      By(bars) == SumFunctionOnSet(weight, {p \in passages : p.bars <= bars})
      total    == SumFunctionOnSet(weight, passages)
      reached  == {p.bars : p \in {q \in passages : 4 * By(q.bars) >= quarters * total}}
  IN CHOOSE b \in reached : \A c \in reached : b <= c

FaultyHorizonOf(passages) ==
  <<Quantile(passages, 3), Quantile(passages, 2), Quantile(passages, 1)>>
HorizonOf(passages) ==
  <<Quantile(passages, 1), Quantile(passages, 2), Quantile(passages, 3)>>

-----------------------------------------------------------------------------
(* The builder.                                                            *)

(* score_power: the held-out rows that got a vote.                         *)
Score(rows, samples, estimator) ==
  UNION {{[row |-> i, actual |-> rows[i].direction, predicted |-> v.winning,
           probabilities |-> v.probabilities, edge |-> v.edge] :
            v \in Vote(rows[i], samples, estimator)} : i \in DOMAIN rows}

Right(cases) == {c \in cases : c.predicted = c.actual}

LowerBound(cases) == WilsonLower(Cardinality(Right(cases)), Cardinality(cases))

(* median_u16, the upper median; unanimity where validation was never right. *)
FaultyMinimumEdge(cases) ==
  LET edges == {c.edge : c \in Right(cases)} IN
  IF edges = {} THEN 0 ELSE CHOOSE e \in edges : \A f \in edges : e <= f
MinimumEdge(cases) ==
  LET right == Right(cases) IN
  IF right = {} THEN Unit
  ELSE CHOOSE e \in {c.edge : c \in right} :
         /\ Cardinality({c \in right : c.edge < e}) <= Cardinality(right) \div 2
         /\ Cardinality({c \in right : c.edge <= e}) > Cardinality(right) \div 2

(* multiclass_brier_score against climatology_brier_score of the library,  *)
(* both times the number of cases; without cases the skill is zero.        *)
FaultyPositiveSkill(cases, samples) == TRUE
PositiveSkill(cases, samples) ==
  LET n       == Len(samples)
      climate == [c \in Directions |-> Cardinality({i \in 1..n : samples[i].direction = c})]
      loss    == [c \in cases |-> SquaredError(c.probabilities, Unit, c.actual)]
      guess   == [c \in cases |-> SquaredError(climate, n, c.actual)]
  IN SumFunctionOnSet(loss, cases) * n * n < SumFunctionOnSet(guess, cases) * Unit * Unit

(* The three segments, oldest first, and the library of the runtime.       *)
TestCount(n) == Greatest(IntegerSqrt(n), 1)

(* One success is enough for a positive bound: in basis points it rounds   *)
(* to zero only from 3531 trials on, a corpus of twelve million snapshots. *)
ASSUME WilsonSeparates ==
  \A n \in 1..TestCount(Len(Menu)) : \A k \in 1..n : WilsonLower(k, n) > 0

Training(rows) == SubSeq(rows, 1, Len(rows) - 2 * TestCount(Len(rows)))
FaultyValidation(rows) == SubSeq(rows, Len(Training(rows)) + 1, Len(rows))
Validation(rows) == SubSeq(rows, Len(Training(rows)) + 1, Len(rows) - TestCount(Len(rows)))
Library(rows) == SubSeq(rows, 1, Len(rows) - TestCount(Len(rows)))
Test(rows) == SubSeq(rows, Len(Library(rows)) + 1, Len(rows))

(* The parameters selected on training and validation, as an Option: None  *)
(* with too little data or no comparable validation snapshot.  The higher  *)
(* power is taken only when it is right more often.                        *)
Selected(training, validation) ==
  LET count   == Greatest(IntegerSqrt(Len(training)), 1)
      cutoffs == UNION {KthDistance(validation[i], training, count) : i \in DOMAIN validation}
      Estimator(p) ==
        [count    |-> count,
         support  |-> Least(Greatest(IntegerLog2(Len(training)), 1), count),
         distance |-> CHOOSE d \in cutoffs : \A e \in cutoffs : e <= d,
         power    |-> p]
      one     == Score(validation, training, Estimator(1))
      two     == Score(validation, training, Estimator(2))
      power   == IF Cardinality(Right(two)) > Cardinality(Right(one)) THEN 2 ELSE 1
      cases   == IF power = 2 THEN two ELSE one
  IN IF Len(training) < MinimumSegment \/ cutoffs = {} THEN {}
     ELSE {[estimator          |-> Estimator(power),
            minimumEdge        |-> MinimumEdge(cases),
            minimumReliability |-> LowerBound(cases)]}

(* The profile: what was selected, scored on the test with the library.    *)
Profile(rows, selected, evidence) ==
  LET cases == Score(Test(rows), Library(rows), selected.estimator) IN
  [samples     |-> Library(rows),
   selected    |-> selected,
   evidence    |-> evidence,
   skill       |-> PositiveSkill(cases, Library(rows)),
   lowerBound  |-> LowerBound(cases),
   byDirection |-> [d \in {c.predicted : c \in cases} |->
                      LowerBound({c \in cases : c.predicted = d})]]

-----------------------------------------------------------------------------
(* The runtime.                                                            *)

Unresolved(reason) ==
  [direction |-> "UNRESOLVED", reason |-> reason,
   reliability |-> {}, probabilities |-> {}, horizon |-> {}]

(* A direction the test never predicted has no reliability of its own and  *)
(* takes the aggregate.                                                    *)
Reliability(profile, direction) ==
  IF direction \in DOMAIN profile.byDirection
  THEN profile.byDirection[direction] ELSE profile.lowerBound

(* The first gate that fails, in the order of the code.                    *)
Resolution(profile, v) ==
  CASE profile.evidence = "AWAITING" ->
         Unresolved("PREREGISTERED_AWAITING_PROSPECTIVE_EVIDENCE")
    [] profile.evidence = "CONSUMED" ->
         Unresolved("CALIBRATION_EVIDENCE_NOT_PREREGISTERED")
    [] profile.evidence = "UNTOUCHED" ->
         IF ~profile.skill
         THEN Unresolved("HELD_OUT_PROBABILITY_SKILL_NOT_POSITIVE")
         ELSE IF v.edge < profile.selected.minimumEdge
         THEN Unresolved("CALIBRATED_DIRECTION_EDGE_NOT_MET")
         ELSE IF Reliability(profile, v.winning) < profile.selected.minimumReliability
         THEN Unresolved("HELD_OUT_RELIABILITY_NOT_MET")
         ELSE [direction     |-> v.winning,
               reason        |-> "CALIBRATED_EVIDENCE_SATISFIED",
               reliability   |-> {Reliability(profile, v.winning)},
               probabilities |-> {v.probabilities},
               horizon       |-> {HorizonOf(v.passages)}]

Init == frames = << >> /\ artifact = {} /\ answer = {}

(* The next snapshot of the corpus gets its label.                         *)
Label(sample) ==
  /\ artifact = {}
  /\ frames' = Append(frames, sample)
  /\ UNCHANGED <<artifact, answer>>

(* What label_outcome makes of an earlier snapshot i once a bar has been   *)
(* corrected: nothing, unless the label had looked at the bar, and then it *)
(* still is not known before it.                                           *)
Relabelled(i, old, new, bar) ==
  \/ new = old
  \/ /\ new.mask = old.mask /\ new.at = old.at
     /\ i + old.passage >= bar /\ i + new.passage >= bar

(* The source of the corpus corrects a bar of the test segment after the   *)
(* profile was written.  The i-th snapshot is that of the i-th bar: those  *)
(* from the bar on are taken anew, and labels are attached before the      *)
(* corpus is split, those that look into the test segment too.             *)
Revise(bar, change) ==
  /\ artifact # {} /\ answer = {}
  /\ bar > Len(Library(frames))
  /\ \A i \in DOMAIN change : i < bar => Relabelled(i, frames[i], change[i], bar)
  /\ frames' = [i \in DOMAIN frames |-> IF i \in DOMAIN change THEN change[i] ELSE frames[i]]
  /\ UNCHANGED <<artifact, answer>>

(* calibrate-direction with --overwrite; a run without a profile is an     *)
(* error that writes nothing.                                              *)
Build(evidence) ==
  /\ answer = {}
  /\ \E selected \in Selected(Training(frames), Validation(frames)) :
       artifact' = {Profile(frames, selected, evidence)}
  /\ UNCHANGED <<frames, answer>>

Resolve(query) ==
  /\ answer = {}
  /\ \E profile \in artifact :
       LET vote == Vote(query, profile.samples, profile.selected.estimator) IN
       answer' = {[query |-> query, vote |-> vote,
                   resolution |-> IF vote = {} THEN Unresolved("INSUFFICIENT_MATCHED_SUPPORT")
                                  ELSE Resolution(profile, CHOOSE v \in vote : TRUE)]}
  /\ UNCHANGED <<frames, artifact>>

Next ==
  \/ /\ Len(frames) < Len(Menu)
     /\ \E sample \in Menu[Len(frames) + 1] : Label(sample)
  \/ \E bar \in DOMAIN frames, change \in Corrections : Revise(bar, change)
  \/ /\ Len(frames) = Len(Menu)
     /\ \E evidence \in Evidence : Build(evidence)
  \/ \E query \in Queries : Resolve(query)

Spec == Init /\ [][Next]_vars

-----------------------------------------------------------------------------
(* Properties.                                                             *)

(* Gates, bounds and edges are basis points; an answer names a direction   *)
(* and one of the reasons of resolve_direction.                            *)
ResolutionTypeOK ==
  /\ Len(frames) <= Len(Menu) /\ \A i \in DOMAIN frames : frames[i] \in Menu[i]
  /\ \A p \in artifact :
       /\ p.evidence \in Evidence
       /\ p.selected.minimumEdge \in 0..Unit /\ p.selected.minimumReliability \in 0..Unit
       /\ p.lowerBound \in 0..Unit
       /\ p.byDirection \in [DOMAIN p.byDirection -> 0..Unit]
  /\ \A a \in answer :
       /\ a.resolution.direction \in Directions \cup {"UNRESOLVED"}
       /\ a.resolution.reason \in Reasons
       /\ \A v \in a.vote : v.winning \in Directions /\ v.edge \in 0..Unit

Published == {a \in answer : a.resolution.direction # "UNRESOLVED"}

(* What rounding may do: the basis points of a vote add up to the whole,   *)
(* each is within one of the exact share of the neighbours' weight, and a  *)
(* winner with an edge is outweighed by no direction.  An edge of one may  *)
(* still be an exact tie; a larger one is not.                             *)
BasisPointsFaithful ==
  \A p \in artifact, a \in answer : \A v \in a.vote :
    LET near  == Neighbors(a.query, p.samples, p.selected.estimator)
        mass  == Mass(near, [i \in near |-> Weight(Distance(a.query, p.samples[i]),
                                                   p.selected.estimator.power)], p.samples)
        total == SumFunctionOnSet(mass, Directions)
    IN /\ SumFunctionOnSet(v.probabilities, Directions) = Unit
       /\ \A c \in Directions :
            /\ v.probabilities[c] * total < mass[c] * Unit + total
            /\ v.probabilities[c] * total > mass[c] * Unit - total
            /\ v.edge > 0 => mass[v.winning] >= mass[c]
            /\ v.edge > 1 /\ c # v.winning => mass[v.winning] > mass[c]

(* A published horizon is ordered, and its quartiles are first passages of *)
(* library snapshots with the query's mask that went the published way.    *)
HorizonFromEvidence ==
  \A p \in artifact, a \in Published : \A h \in a.resolution.horizon :
    /\ h[1] <= h[2] /\ h[2] <= h[3]
    /\ \A k \in 1..3 : \E i \in Matching(a.query, p.samples) :
         /\ p.samples[i].passage = h[k]
         /\ p.samples[i].direction = a.resolution.direction

(* A validation that was never right, or never got a vote, leaves a        *)
(* reliability gate that lets everything through; the edge gate then lets  *)
(* only a unanimous vote through.                                          *)
UngatedNeedsUnanimity ==
  \A p \in artifact, a \in Published : \A probabilities \in a.resolution.probabilities :
    p.selected.minimumReliability = 0 => probabilities[a.resolution.direction] = Unit

(* Nothing is published from a profile whose test never got a vote: the    *)
(* reliability that is published is that of some trial.                    *)
PublishedIsScored ==
  \A p \in artifact : Published # {} => DOMAIN p.byDirection # {}

(* A correction of the test reaches the parameters only through labels     *)
(* that looked into it: in a profile rebuilt after it the library differs  *)
(* in such labels alone, none of which has become known before the test,   *)
(* and with the same library the estimator and the gates are the same.     *)
TestTunesThroughLabels ==
  [][\A p \in artifact, q \in artifact' :
       /\ Len(q.samples) = Len(p.samples)
       /\ \A i \in DOMAIN p.samples :
            Relabelled(i, p.samples[i], q.samples[i], Len(p.samples) + 1)
       /\ q.samples = p.samples => q.selected = p.selected]_vars

(* What the frozen protocol records of its reliability gate,               *)
(* per_direction_lower_bound: a published direction passed the gate with a *)
(* lower bound of its own.                                                 *)
GatePerDirection ==
  \A p \in artifact, a \in Published :
    /\ a.resolution.direction \in DOMAIN p.byDirection
    /\ p.byDirection[a.resolution.direction] >= p.selected.minimumReliability

=============================================================================
