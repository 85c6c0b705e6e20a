---------------------------- MODULE WalkForward ----------------------------
(***************************************************************************)
(* The development audits (calibration.rs: build_dynamics_ablation_audit,  *)
(* the conditional, sequential and frozen-velocity audits built on it, and *)
(* the right-censoring audit), re-run while the sources they read grow.    *)
(*                                                                         *)
(* A corpus is calibrated once.  After that the market goes on: the label  *)
(* source gains bars, and the feature source may be replaced by one that   *)
(* reaches further.  An audit is a function of both sources and the        *)
(* profile, and writes a report over the one before.                       *)
(*                                                                         *)
(* Every bar has a range and all frames one availability mask.  The one    *)
(* coordinate of a snapshot is PRAMA's delta, so that the median and the   *)
(* MAD the audits normalize with rescale every distance alike and change   *)
(* no vote.                                                                *)
(***************************************************************************)
EXTENDS NeighborVote

CONSTANTS
  Trajectories,      \* bound: the coordinates tried, one for every bar
  Openings,          \* bound: the price moves of the first bars
  Moves,             \* bound: the price moves tried after them
  Barrier,           \* the move that is a passage, up or down
  Horizon,           \* maximum_horizon_bars
  CorpusBars,        \* bound: the length of the corpus that is calibrated
  MaxBars,           \* bound: the length of the market
  DynamicsWarmup,    \* the frames before the added dynamics are complete
  MinimumFrames,     \* 16, the least frames and complete timestamps
  MinimumTraining    \* 4, the least training segment

SplitCount(n) == Greatest(IntegerSqrt(n), 1)

(* The horizon counts the binary digits of the corpus and the test segment *)
(* is the root of its frames: no horizon is longer than the test from 36   *)
(* frames on, and the corpora of the repository have 800 days.             *)
ASSUME HorizonAssumption ==
  /\ Horizon \in Nat \ {0} /\ MinimumFrames \in Nat \ {0} /\ CorpusBars \in Nat
  /\ Horizon <= SplitCount(CorpusBars)

ASSUME SourceAssumption ==
  /\ \A t \in Trajectories : t \in Seq(Int) /\ Len(t) = MaxBars
  /\ \A o \in Openings : o \in Seq(Int) /\ Len(o) <= CorpusBars
  /\ Moves \subseteq Int

VARIABLES
  at,        \* at[i]: the coordinate of the snapshot of bar i
  moves,     \* moves[i]: the price move of bar i, up to the end of the label source
  frames,    \* the frames of the feature source: those of bars 1..frames
  profile,   \* Option of a profile: its temporal split and its calibration end
  report     \* Option of the last reports of the audits

vars == <<at, moves, frames, profile, report>>

Labelled == Len(moves)

-----------------------------------------------------------------------------
(* outcome_label_state: the first passage; RANGE only after the whole      *)
(* horizon; otherwise right-censored.                                      *)

Travel(i, j) == SumFunctionOnSet(moves, (i + 1)..j)

Touches(i) ==
  {j \in (i + 1)..Least(i + Horizon, Labelled) :
     Travel(i, j) >= Barrier \/ Travel(i, j) <= -Barrier}

First(S) == CHOOSE x \in S : \A y \in S : x <= y

(* Option of an outcome: the direction and the bar it matures at.          *)
Outcome(i) ==
  IF Touches(i) # {}
  THEN LET j == First(Touches(i))
       IN {[direction |-> IF Travel(i, j) > 0 THEN "UP" ELSE "DOWN", matures |-> j]}
  ELSE IF i + Horizon <= Labelled
  THEN {[direction |-> "RANGE", matures |-> i + Horizon]}
  ELSE {}

(* The labelled snapshots among the given bars.                            *)
Row(i, o) == [mask |-> "FULL", at |-> at[i], direction |-> o.direction,
              passage |-> o.matures - i, bar |-> i, matures |-> o.matures]

Rows(bars) == UNION {{Row(i, o) : o \in Outcome(i)} : i \in bars \cap 1..frames}

-----------------------------------------------------------------------------
(* Walk-forward scoring.                                                   *)

(* What a query may learn from: the rows before it whose label was known.  *)
FaultyCausalLibrary(query, rows) == {r \in rows : r.bar < query.bar}
CausalLibrary(query, rows) == {r \in rows : r.bar < query.bar /\ r.matures < query.bar}

(* Rows are kept oldest first, as every library of a vote.                 *)
Chronological(rows) ==
  LET bars == Ascending({r.bar : r \in rows})
  IN  [k \in DOMAIN bars |-> CHOOSE r \in rows : r.bar = bars[k]]

(* causal_validation_maximum_distance: None without a comparable query or  *)
(* when all of them coincide with a training row.                          *)
MaximumDistance(queries, training, count) ==
  LET kth == UNION {KthDistance(q, Chronological(CausalLibrary(q, training)), count) :
                      q \in queries}
      largest == {d \in kth : \A e \in kth : e <= d}
  IN {d \in largest : d > 0}

(* The vote on a query, and what it is scored by.                          *)
Score(query, library, estimator) ==
  [query   |-> query.bar,
   actual  |-> query.direction,
   library |-> Len(library),
   climate |-> [c \in Directions |->
                  Cardinality({i \in DOMAIN library : library[i].direction = c})],
   vote    |-> Vote(query, library, estimator)]

(* score_dynamics_walk_forward                                             *)
WalkForward(queries, pool, estimator) ==
  {Score(q, Chronological(CausalLibrary(q, pool \cup queries)), estimator) : q \in queries}

(* The cases that got a vote.                                              *)
Cases(scores) ==
  UNION {{[query |-> s.query, actual |-> s.actual, predicted |-> v.winning,
           probabilities |-> v.probabilities] : v \in s.vote} : s \in scores}

(* dynamics_metric_order on two scorings of the same queries with the same *)
(* library: climatology, coverage and dimensions are equal, and a better   *)
(* Brier skill is a smaller squared error.                                 *)
TotalError(cases) ==
  MapThenSumSet(LAMBDA c : SquaredError(c.probabilities, Unit, c.actual), cases)

BalancedAccuracy(cases) ==
  LET Of(d) == {c \in cases : c.actual = d}
  IN MapThenSumSet(LAMBDA d : (Unit * Cardinality({c \in Of(d) : c.predicted = d}))
                                \div Cardinality(Of(d)),
                   {c.actual : c \in cases})

CalibrationError(cases) ==
  MapThenSumSet(
    LAMBDA d : LET gap == MapThenSumSet(LAMBDA c : c.probabilities[d], cases)
                            - Unit * Cardinality({c \in cases : c.actual = d})
               IN Greatest(gap, -gap),
    Directions)

Better(left, right) ==
  \/ TotalError(left) < TotalError(right)
  \/ /\ TotalError(left) = TotalError(right)
     /\ \/ BalancedAccuracy(left) > BalancedAccuracy(right)
        \/ /\ BalancedAccuracy(left) = BalancedAccuracy(right)
           /\ CalibrationError(left) < CalibrationError(right)

-----------------------------------------------------------------------------
(* The ablation audit of the authoritative snapshot (variant A).           *)

Complete(i) == i > DynamicsWarmup

(* frozen_feature_prefix_len: the frames up to the calibration end and the *)
(* one after it.                                                           *)
FrozenPrefix(p) == Least(p.end + 1, frames)

(* The first frame of the validation.                                      *)
ValidationFrame(p) == FrozenPrefix(p) - 2 * SplitCount(FrozenPrefix(p)) + 1

(* An estimator, and what the audit scores with it: the validation from    *)
(* the training, the evaluation from both.                                 *)
Candidate(training, validation, distance, power) ==
  LET count     == SplitCount(Cardinality(training))
      estimator == [count    |-> count,
                    support  |-> Least(Greatest(IntegerLog2(Cardinality(training)), 1), count),
                    distance |-> distance,
                    power    |-> power]
  IN [estimator  |-> estimator, validation |-> WalkForward(validation, training, estimator)]

(* The power that scores better on the validation, 1 unless 2 does.        *)
Selected(candidates) ==
  CHOOSE c \in candidates : \A other \in candidates \ {c} :
    IF c.estimator.power = 2
    THEN Better(Cases(c.validation), Cases(other.validation))
    ELSE ~Better(Cases(other.validation), Cases(c.validation))

(* Option of the estimator fitted on training and validation.              *)
Fitted(training, validation) ==
  {Selected({Candidate(training, validation, distance, power) : power \in {1, 2}}) :
     distance \in MaximumDistance(validation, training, SplitCount(Cardinality(training)))}

(* Option of the fitted estimator with both scorings of the audit.         *)
Ablation(p) ==
  LET common     == {i \in 1..Least(frames, p.end) : Complete(i)}
      rows       == Rows(common)
      training   == {r \in rows : r.bar < ValidationFrame(p)}
      validation == {r \in rows : ValidationFrame(p) <= r.bar /\ r.bar < p.split}
      evaluation == {r \in rows : p.split <= r.bar}
  IN IF \/ frames < MinimumFrames \/ Cardinality(common) < MinimumFrames
        \/ Cardinality(training) < MinimumTraining \/ validation = {} \/ evaluation = {}
     THEN {}
     ELSE {[estimator  |-> c.estimator,
            validation |-> c.validation,
            evaluation |-> WalkForward(evaluation, training \cup validation, c.estimator)] :
             c \in Fitted(training, validation)}

-----------------------------------------------------------------------------
(* The corrections: a line fitted on the residuals of the validation.      *)

(* dynamics.delta_velocity and dynamics.delta_acceleration                 *)
Velocity     == [i \in 2..MaxBars |-> at[i] - at[i - 1]]
Acceleration == [i \in 3..MaxBars |-> Velocity[i] - Velocity[i - 1]]

(* conditional_rows: the scores with a vote, with the value of a feature.  *)
ConditionalRows(scores, feature) ==
  {[query |-> c.query, actual |-> c.actual, probabilities |-> c.probabilities,
    value |-> feature[c.query]] : c \in Cases(scores)}

(* feature_mean and the fit of fit_conditional_residuals, on the scale of  *)
(* the sums: with n rows and D the deviations n * value - sum, the slope   *)
(* is moment / square per unit of D (the intercept drops out, as the       *)
(* deviations add up to zero) and the intercept is residual / n.           *)
Fit(rows) ==
  LET n   == Cardinality(rows)
      sum == MapThenSumSet(LAMBDA r : r.value, rows)
      Deviation(r) == n * r.value - sum
      Residual(r, c) == (IF r.actual = c THEN Unit ELSE 0) - r.probabilities[c]
  IN [n        |-> n,
      sum      |-> sum,
      square   |-> MapThenSumSet(LAMBDA r : Deviation(r)^2, rows),
      residual |-> [c \in Directions |-> MapThenSumSet(LAMBDA r : Residual(r, c), rows)],
      moment   |-> [c \in Directions |->
                      MapThenSumSet(LAMBDA r : Deviation(r) * Residual(r, c), rows)],
      least    |-> First({Deviation(r) : r \in rows}),
      greatest |-> CHOOSE d \in {Deviation(r) : r \in rows} :
                     \A r \in rows : Deviation(r) <= d]

(* A feature that does not vary on the validation is an error.             *)
Variable(fit) == fit.square > 0

(* The clamp of bounded_feature_probabilities: the support of the feature  *)
(* is that of the validation the line was fitted on.                       *)
Bounded(fit, deviation) == Greatest(fit.least, Least(fit.greatest, deviation))

(* add_residual_adjustment_at and project_probabilities: negative values   *)
(* are dropped and the rest is renormalized, to basis points here.         *)
Projected(fit, row, deviation, withIntercept) ==
  LET value == [c \in Directions |->
                  fit.n * fit.square * row.probabilities[c]
                    + (IF withIntercept THEN fit.square * fit.residual[c] ELSE 0)
                    + fit.n * fit.moment[c] * deviation]
      kept  == [c \in Directions |-> Greatest(value[c], 0)]
  IN BasisPoints(IF \A c \in Directions : kept[c] = 0 THEN [c \in Directions |-> 1] ELSE kept)

(* The audit of one feature by itself: the slope alone, the slope within   *)
(* the support, the intercept alone, and both.                             *)
Conditional(fit, rows) ==
  {LET d == fit.n * r.value - fit.sum IN
   [query         |-> r.query,
    featureOnly   |-> Projected(fit, r, d, FALSE),
    bounded       |-> Projected(fit, r, Bounded(fit, d), FALSE),
    interceptOnly |-> Projected(fit, r, 0, TRUE),
    adjusted      |-> Projected(fit, r, d, TRUE)] : r \in rows}

(* bounded_feature_probabilities followed by rows_with_probabilities: the  *)
(* corrected rows carry the next feature.                                  *)
Corrected(fit, rows, next) ==
  {[query |-> r.query, actual |-> r.actual,
    probabilities |-> Projected(fit, r, Bounded(fit, fit.n * r.value - fit.sum), FALSE),
    value |-> next[r.query]] : r \in rows}

(* build_dynamics_conditional_information_audit on both features, followed *)
(* by build_dynamics_sequential_residual_audit: velocity first, and        *)
(* acceleration on what it leaves.                                         *)
Sequential(ablation) ==
  LET validation == ConditionalRows(ablation.validation, Velocity)
      evaluation == ConditionalRows(ablation.evaluation, Velocity)
      velocity   == Fit(validation)
      raw        == Fit(ConditionalRows(ablation.validation, Acceleration))
      after      == Fit(Corrected(velocity, validation, Acceleration))
  IN IF validation = {} \/ ~Variable(velocity) \/ ~Variable(raw) THEN {}
     ELSE {[fits       |-> <<velocity, raw, after>>,
            velocities |-> Conditional(velocity, evaluation),
            accelerations |->
              Conditional(raw, ConditionalRows(ablation.evaluation, Acceleration)),
            sequential |-> Corrected(after, Corrected(velocity, evaluation, Acceleration),
                                     Acceleration)]}

(* build_dynamics_frozen_velocity_forward_audit: the rows after the frozen *)
(* prefix, voted on with the estimator of the ablation and corrected with  *)
(* the velocity line of its validation.                                    *)
Forward(p, ablation) ==
  LET rows       == Rows({i \in 1..frames : Complete(i)})
      prior      == {r \in rows : r.bar <= FrozenPrefix(p)}
      forward    == {r \in rows : r.bar > FrozenPrefix(p)}
      scores     == WalkForward(forward, prior, ablation.estimator)
      validation == ConditionalRows(ablation.validation, Velocity)
      fit        == Fit(validation)
  IN IF \/ prior = {} \/ forward = {}
        \/ validation = {} \/ ~Variable(fit) \/ Cases(scores) = {}
     THEN {}
     ELSE {[fit       |-> fit,
            scores    |-> scores,
            corrected |-> Corrected(fit, ConditionalRows(scores, Velocity), Velocity)]}

-----------------------------------------------------------------------------
(* build_right_censoring_audit: the frames of the test up to the           *)
(* calibration end, with an outcome or censored.                           *)
AuditCandidates(p) == {i \in 1..frames : p.split <= i /\ i <= p.end}

(* What the audits write.                                                  *)
Report(p, ablation) ==
  [labels     |-> {[query |-> i, outcome |-> Outcome(i)] :
                     i \in {j \in AuditCandidates(p) : Outcome(j) # {}}},
   censored   |-> {i \in AuditCandidates(p) : Outcome(i) = {} /\ i < Labelled},
   ablation   |-> ablation,
   sequential |-> UNION {Sequential(a) : a \in ablation},
   forward    |-> UNION {Forward(p, a) : a \in ablation}]

-----------------------------------------------------------------------------
(* The sources.                                                            *)

Init ==
  /\ at \in Trajectories
  /\ moves \in Openings
  /\ frames = Len(moves)
  /\ profile = {}
  /\ report = {}

(* build_resolution_profile: the split of the frames there are, and the    *)
(* last snapshot that had a label then.                                    *)
Calibrate ==
  /\ profile = {} /\ frames = CorpusBars
  /\ LET labelled == {i \in 1..frames : Outcome(i) # {}}
         split    == frames - SplitCount(frames) + 1
     IN /\ \E i \in labelled : i >= split
        /\ profile' = {[split |-> split,
                        end   |-> CHOOSE i \in labelled : \A j \in labelled : j <= i]}
  /\ UNCHANGED <<at, moves, frames, report>>

(* The market goes on; until it is calibrated the corpus follows it, and   *)
(* later only the label source does (replay_diagnostic_frames).            *)
Bar(move) ==
  /\ profile = {} => frames < CorpusBars
  /\ Labelled < MaxBars
  /\ moves' = Append(moves, move)
  /\ frames' = IF profile = {} THEN frames + 1 ELSE frames
  /\ UNCHANGED <<at, profile, report>>

(* A feature source that reaches further.                                  *)
Replay(n) ==
  /\ profile # {}
  /\ frames < n /\ n <= Labelled
  /\ frames' = n
  /\ UNCHANGED <<at, moves, profile, report>>

(* The audit subcommands.                                                  *)
Audit ==
  /\ \E p \in profile : report' = {Report(p, Ablation(p))}
  /\ UNCHANGED <<at, moves, frames, profile>>

Next ==
  \/ Calibrate
  \/ \E move \in Moves : Bar(move)
  \/ \E n \in 1..MaxBars : Replay(n)
  \/ Audit

Spec == Init /\ [][Next]_vars

-----------------------------------------------------------------------------
(* Properties.                                                             *)

KeptByAblation(old, new) ==
  /\ old.estimator = new.estimator
  /\ old.validation = new.validation
  /\ old.evaluation \subseteq new.evaluation

KeptBySequential(old, new) ==
  /\ old.fits = new.fits
  /\ old.velocities \subseteq new.velocities
  /\ old.accelerations \subseteq new.accelerations
  /\ old.sequential \subseteq new.sequential

KeptByForward(old, new) ==
  /\ old.fit = new.fit
  /\ old.scores \subseteq new.scores
  /\ old.corrected \subseteq new.corrected

(* The later report repeats what the earlier one says.                     *)
Kept(old, new) ==
  /\ old.labels \subseteq new.labels
  /\ new.censored \subseteq old.censored
  /\ \A o \in old.ablation : \E n \in new.ablation : KeptByAblation(o, n)
  /\ \A o \in old.sequential : \E n \in new.sequential : KeptBySequential(o, n)
  /\ \A o \in old.forward : \E n \in new.forward : KeptByForward(o, n)

(* What an audit has said stays said.  While the label source and the      *)
(* feature source grow, no estimator, no fitted line, no vote, no          *)
(* correction and no label that an audit has reported is reported          *)
(* differently later; the audits only gain queries, and a censored query   *)
(* can only get its label.  Otherwise a later bar would have reached into  *)
(* a prediction that claims to precede it.                                 *)
AuditsNotRewritten == [][\A old \in report, new \in report' : Kept(old, new)]_vars

=============================================================================
