# Verification of the PRAMAgraph financial structural signal

The repository computes a structural reading of a closed-bar market series (PRAMA kernel,
D_O observer, ODCE, K-MEM), a conventional technical direction next to it, and an optional
calibrated direction whose publication is gated on prospective evidence. An HTTP service
answers questions from a live provider or from a pinned corpus. This directory holds TLA+
models of the parts where order, history and interleaving decide what is said, the TLC
configurations that check them on small instances, and TLAPS proofs of the properties that
matter most for every value of the parameters. Paths below are relative to the repository.

## 1. Inventory

| Component | State it keeps | Operations | What makes it correct | Here |
|---|---|---|---|---|
| **D_O observer** `src/structural.rs` `do_trajectory` | last coherent regime, discontinuity and crystallizing runs, first evaluable window, trailing capacities, cumulative deficit | one window per bar; five branches | a viable regime is inherited for the grace windows and no longer; CRYSTALLIZED means TAU_WINDOWS uninterrupted windows; deficit is accumulated in eligible windows only | modelled, proved |
| **ODCE, K-MEM, structural vector** `src/structural.rs` | trailing rows and magnitude histories, exposure; memory state | one step per bar after D_O | references are strictly prior; the memory in a frame never holds the frame's own deficit; evidence only after its warm-up | modelled, proved |
| **Calibration evidence** `src/calibration.rs` `build_resolution_profile`, `validate_profile`; `calibrate-direction` in `src/main.rs` | the artifact on disk | split, label, gate, validate, write | a profile that claims an untouched test has read nothing of it | modelled in two halves (evidence, estimator), both proved |
| **Directional resolution** `resolve_direction`, `vote` | none | neighbour vote, order of the gates | rounding changes no verdict; what is published rests on a scored test and on neighbours of the query | modelled, proved |
| **Calibration diagnostics and audits** `src/calibration.rs` | none | walk-forward scoring, four audits, censoring; descriptions of a vote | a bar reaches into no prediction that precedes it, however the sources grow | the audits that score or correct, proved; the descriptions are not |
| **PRAMA kernel adapter** `src/engine.rs`, `src/observation.rs` | kernel state, in another crate | replay of a series | a prefix of the series gives a prefix of the frames | the adapter: which bar makes which frame |
| **Technical channel** `src/technical.rs` | none | indicators, vote, counter-reading, contrast | no side of its own, no repainting | modelled but for the contrast, proved |
| **Signal composition** `src/signal.rs`, `src/native_response.rs` | none | cross-scale relation, response hash | a tie is not an agreement | the relation, proved |
| **Service and HTTP server** `src/server.rs`, `src/service.rs` | none of its own; the files it serves from | two data endpoints, two health probes, resolve | status, hash and log of an answer agree with what was computed, whatever happens to the files | partly, its safety proved |
| **Providers** `src/provider.rs` | none | three daily requests on two REST sources, 15 s timeout | failure leads to the corpus, not to silence; only closed bars are accepted, up to the newest | modelled on the daily scale, acceptance proved; environment of the service |
| **Corpus custody, readiness** `src/corpus.rs`, `src/server.rs` | ten pinned files | audit, readiness | READY is worth something | partly |
| **Historical loader, aggregation** `src/historical.rs` | none | CSV to D1, D1 to W1, intraday aggregation | no open week is emitted, no bar is lost | aggregation and cadence, proved |
| **Dynamics, cross-asset** `src/dynamics.rs`, `src/cross_asset.rs` | none | experiments over frames | a daily row is joined with a strictly earlier week; pairs stay paired | join and alignment, proved; velocity and acceleration |
| **Resolver, contracts, canonical hash** | none | table lookup, data types, SHA-256 | - | not modelled: no control |
| **Event log** `src/logging.rs` | one append-only file behind a mutex | received, served, failed | one outcome per request, flushed | modelled with the service |
| **Command line** `src/main.rs` | - | wrappers, audits, `serve` | - | `calibrate-direction`, the audits, `serve` |

How they interact: the replay (engine, then the stack of `structural.rs`) is called with a
whole series by the calibration builder, by both endpoints and by the experiments, and has
no state between calls. The builder writes one artifact per instrument and timeframe; the
server reads artifacts and corpus files afresh in every request and in every readiness
probe. Requests run in parallel and share only the file system and the log.

What is hard here: counters of the observer that are reset in different branches of one
function; warm-ups in series with holes in them; labels that look ahead of the snapshot they
label; files replaced between two reads of one request; a request that changes from live to
stale half-way; a client or a process that goes away; a bar that closes between an answer
and the clock that judges it; reports written again over sources that have grown. The
complete list, with the line where each bites and the properties that cover it, is `hazards`
in `PROJECT.json`.

## 2. Modules

```
Common               Option, trailing windows
DoTrajectory         D_O, one step per bar            implements  TransportRegime
  MCDoTrajectory       + the rows a reader has seen
  StructuralStack      D_O composed with ODCE, K-MEM and the vector
  StructuralProofs     theorems about the three
CalibrationEvidence  corpus, split, labels, boundary, artifact
  CalibrationEvidenceProofs
NeighborVote         the vote of the nearest labelled snapshots
  DirectionalResolution  estimator, test, publication gates
    MCDirectionalResolution  a small corpus, queries, Wilson bounds
    DirectionalResolutionProofs
  WalkForward          the audits over growing sources
    MCWalkForward        two trajectories, their price moves
    WalkForwardProofs
MarketSeries         sources, closed bars, weeks, joins
  MCMarketSeries       five feeds, two gold contracts
  MarketSeriesProofs
Technical            indicators, direction, counter-reading
  FinancialSignal      native requests over a growing market
    MCFinancialSignal    kinds of day, requests
    FinancialSignalProofs
FinancialService     requests, provider, files, log   implements  RequestLedger
  MCFinancialService   the requests worth telling apart
  FinancialServiceProofs
CommonProofs         lemmas: least elements, induction, ascending sets, finite sums
```

Conventions: Rust's `Option<T>` is a set with at most one element (`Common`). Names of the
source are kept in the source's spelling, or its camel case. An operator `FaultyX` beside
`X` is `X` with a plausible mistake in it (a dropped guard, an off-by-one, a stale value);
it is used by no specification, and putting it in the place of `X` must break the property
it belongs to. This is how every checked property is known to depend on the code.

### DoTrajectory, TransportRegime

One action per branch of `do_trajectory`: `GeometryPending` (not ready), `Stagnate`
(path too short), `LackSupport` (no transport operator yet), `Cohere`, `Discontinue`.
`Observe` is what all branches share: the capacity is pushed, the first evaluable index
fixed, the deficit accumulated, the row published. The variables are the local variables of
the loop; `row` is the `DoObservation` of the bar just observed. Recurrence, coherence and
variation capacity are inputs on small integer scales; what is derived from the index
(readiness, support of the ridge fit) and from the history (peak, contraction) is computed
as in the code. Activity is an input as well: `Stagnate` is enabled whenever the geometry is.

`TransportRegime` says without windows, scores or counters what transport status promises:
a VIABLE regime is inherited for at most `Grace` windows in a row, any other discontinuity
is a disruption, and a verdict, once given, is not withdrawn to unresolved.

### StructuralStack

`StackNext` is a step of D_O, then `OdceStep` and `KMemStep` on the new row, then the
availability mask. The code runs each operator over all rows before the next one; every
operator reads rows up to its own index only, so a lock-step composition sees the same data.
A magnitude is zero or positive: whether a relative magnitude is available, and the sign of
a differential, depend on nothing else. A comparison of two positive magnitudes may have
any sign.

### CalibrationEvidence

Bars are numbered by closing order and stand for their close times. `Close` appends a bar,
flat (high = low) or not; `Calibrate` is a run of `calibrate-direction` on the bars so far
with some protocol hash, some labelling and the overwrite flag. A labelling chooses for each
candidate snapshot the first passage of its barriers; snapshots whose passage lies past the
corpus have no label. `Profile` is the artifact, with the ghost field `selection`: the bars
from which the barrier and the labels of training and validation were read. `Valid` is the
evidence part of `validate_profile`, which the builder applies to its own result: a run that
fails it writes nothing. The estimator fitted on the samples is left to the next module: its
own failures only make runs end without a write.

### NeighborVote, DirectionalResolution

`NeighborVote` is `admissible_neighbors`, `evaluate_vote` and what they call. It has no state and
is shared by the estimator and the audits. `DirectionalResolution` is the other half of the
builder, and the runtime. `Label` appends a labelled snapshot, `Build` selects the estimator and
the gates on training and validation (`Selected`), scores the test with the library (`Profile`)
and replaces the artifact, `Resolve` answers a query: `Vote`, then the gates in the order of the
code (`Resolution`). `Revise` is the environment: the source corrects a bar of the test and the
profile is built again. Every later snapshot may change with the bar, and so may the label of an
earlier one that had looked at it (`Relabelled`): labels are attached before the corpus is split
and nothing is purged, so a correction reaches validation labels too (section 5). What it cannot
do is make such a label known before the bar. The corrections themselves are a constant
(`Corrections`). Which evidence a profile may claim is an input here. A snapshot
has one coordinate, already normalized, and one of two availability masks. `f64` weights `1/d^p`
become integers on a common scale, with a large one for coincident snapshots; the chain from
weights to basis points, winner, edge and quantiles is exact. The scale is assumed to be a
multiple of every power of a distance, which is what makes the weights whole. The Wilson bound is
a constant operator, assumed to be zero without successes, at most the success rate, and positive
from one success on (`WilsonSeparates`): in basis points the bound of one success rounds to zero
only from 3531 trials, that is, from a corpus of some twelve million labelled snapshots; the
committed ones have hundreds. The configuration gives its rounded values.

### WalkForward

The audits that follow a calibration, as one function of label source, feature source and
profile (`Report`), written by `Audit`. `Calibrate` fixes the profile once; then `Bar` lets the
market go on in the label source and `Replay` lets the feature source catch up, in any order
with the audits. The labelled rows are a set (`Rows`), and only a library that is voted on is
put in order, oldest first (`Chronological`), as the code keeps it throughout: the order breaks
ties between neighbours and nothing else. `WalkForward` scores queries with the library that was
mature before each of them (`CausalLibrary`); `Ablation` fits the estimator as the audit does
(two `Candidate`s, powers 1 and 2, compared by `dynamics_metric_order`); `Fit`, `Projected` and
`Corrected` are the residual line and the clamped, renormalized probabilities; `Sequential` and
`Forward` apply it as the conditional, sequential and frozen-velocity audits do. Probabilities
are basis points on a small `Unit`; the line is kept as integer sums, so the correction is exact
up to its final rounding. There is one coordinate and one availability mask: several of either
would multiply the instances and meet the same maturity rules. The dynamics are complete after
`DynamicsWarmup` frames.

### MarketSeries

One action per step of a data request: `Ask` (klines or standard aggregates; the answer is what
the source knows when asked), `SelectContract` and `FetchSessions` (gold: two calls), `Deliver`
(parse with the clock of *this* moment, possibly with a repeated row), `GiveUp`, `LoadCorpus`, and
`Tick`. A day is two ticks, the second one being its end, so that a call can be on its way across
midnight. A bar is `whole` when the source had seen all of it. Sources differ in their closes (the
last millisecond of the day, or the next midnight for files), in their calendar and in their
limits. On every accepted series the operators compute what the code computes (a selection is made
of the places selected, `Only`): `Weekly`, whose buckets are cut at the bars that begin another
week (`StartsNew`), the intraday `Batches`, `CadenceAnomalies`, `DailyFrames` and `WeeklyFrames`
(adapter and replay drop their first elements), `LatestStrictlyPriorWeek`, and `AlignedPairs`,
the greedy loop turn by turn (`Advance`, `Walk`). An aggregate is the sequence of its parts, from
which prices and volume follow.

### Technical, FinancialSignal

`Technical` is pure: each indicator is a function from bars to one optional value per bar, with
the seed, warm-up and padding of the code, its irregularities included: the signal line of
`compute_macd` is published a bar after the values it was seeded from, still as the bare seed,
and the MACD value of that bar never enters it (`MacdHistogram`). Then the four votes, the range
test, the direction and the counter-reading. Prices are on a `Scale`, and a quotient that is not
exact is rounded towards zero (`Quotient`): like an `f64` it does not look at the sign, which is
what the properties need of it; DI, DX and ADX are whole percentages. A NaN is the empty option.
`FinancialSignal` is the native endpoint without its files (those are `FinancialService`): `Bar`
closes a day, `Request` validates the timeframes, reads each from its own bars and composes the
readings with `CrossScale`.

### FinancialService, RequestLedger

An action is what a handler does between two reads of a file, or while it waits for the
provider: `Receive`, `Validate`, `ProviderAnswers` / `ProviderFails`, `ReadDigest` (the
Telegraph path's `fs::read` for the SHA-256), `Load`, `FindProfile` (`is_file`),
`ReadProfile`, `Evaluate` (the scale is complete). A native request repeats the last four
per timeframe. The readiness probe is `HashCorpus`, `LoadCorpus`, `ListProfiles`,
`InspectProfile` per file, `Verdict`. The environment replaces files (a half-written one is
MALFORMED or INVALID), disconnects a client where its handler awaits, and restarts the
process; after a restart the log may fail to open. The content of a file stands for its
hash and for everything computed from it. One instrument is modelled: handlers of different
instruments share no file. Intraday branches of `service.rs` are unreachable behind the
timeframe guard at its entry, and an `Unsupported` error of Binance behind the venue guard.

`RequestLedger` is what the log promises its reader: a RECEIVED record per request, at most
one outcome, the one that was answered; none only for a request cut short; and every open
request is eventually closed.

## 3. Runs

| Run | Question | Bounds |
|---|---|---|
| `do_trajectory` | do counters, regimes, diagnostics and deficit agree with the published rows, and is `TransportRegime` implemented | windows of 3, TAU 3, grace 2, three coherence levels, capacities 0..2, 9 bars |
| `structural_stack` | is memory strictly prior, do ODCE's warm-ups hold | ODCE window 3, support 2, 6 bars |
| `calibration_evidence` | is an eligible profile blind to its test | 10 bars, up to 3 flat ones, boundary at 8, passages of 1 or the horizon |
| `calibration_lookahead` | (finding) do the split rules look ahead without the gate | same |
| `directional_resolution` | does what is published follow from neighbours and a scored test; do the gates hold at degenerate values; by which way alone can the test tune anything | 17 snapshots, 8 of them free, one bar of the test corrected, 5 queries, percent instead of basis points |
| `reliability_gate` | (finding) see section 5 | same |
| `walk_forward_audits` | is anything an audit has reported ever reported differently | 15 bars calibrated, 3 more; two trajectories, two openings, moves of -1 or +2, barrier 2, horizon 3 |
| `market_data` | which bars are accepted; what may a later series change in weeks, joins and pairs | 17 days in weeks of 3 with one day of weekend, any single day missing or a whole week of the exchange, 14 klines, 9 sessions, two contracts |
| `financial_signal` | is anything repainted, has the technical channel a side, when is a direction published | weeks of 2 days, indicators of 2 to 6 bars, 14 days, the last 3 free; 5 openings, 5 requests |
| `financial_service` | are status, hash and content consistent, is READY worth something, is `RequestLedger` implemented, with liveness | 1 request of every kind, 1 probe, 2 replacements, 1 restart |
| `service_reproducible`, `service_pinned` | (findings) see section 5 | 2 parallel requests, 2 corpus versions besides unusable ones, 2 replacements |

Why the bounds are enough. In `do_trajectory` nine bars hold a warm-up, an evaluation, the whole
grace and a further disruption, or a whole crystallization, in every order, and the windows are
shorter than the series, so that they slide. In `structural_stack` the ODCE window slides, both
warm-ups complete and histories have holes. In `calibration_evidence` profiles of all three
evidence states are written, eligible ones in two ways: a flat spell before the boundary, and
labels cut off by the end of the corpus. Ten bars are not enough for a test as long as the label
horizon; that case is covered by the proof only (`GateNeedsFlatSpell`). In
`directional_resolution` the corpus is the smallest one in which three neighbours vote, so that
all directions can have one: ties of two and of three, votes of one direction, coincident
neighbours, both powers, unsupported masks, a validation that is never right and a test that
gets no vote all occur, and so does a corrected bar of the test that changes the last label of
the validation and with it the reliability gate. In `walk_forward_audits` passages of one to
three bars and none within the horizon overlap in every order across the ends of validation,
evaluation and frozen prefix; the assumption that no horizon is longer than the test
(`HorizonAssumption`) holds of `integer_log2` and `isqrt` from 36 bars on, and the corpora have
hundreds. In `market_data` five weeks follow one another, so that a window of 14 klines loses
whole weeks, 9 sessions do not reach the end of a contract, and one contract expires while it is
watched. A missing exchange week is the one hole that skips a week; a market that never closes
shows any hole as an anomaly. In `financial_signal` the average is slow against the ranges,
so that a market is still extended after a surge has come to rest: every branch of the
counter-reading is taken in days and in weeks, and a first period without any range, ties of
every vote, ranges and trends occur. In the service runs a replacement can fall between any two
reads of a request, and two replacements can change a file and change it back.
`financial_service` follows one request: handlers share the files and the log only, and neither
reads what another handler wrote, so that to a handler the rest of the world is replacements.
The two finding runs keep two requests side by side.

What the properties say:

* `DeficitExposureBounded`, `AlertAccounting`: the cumulative deficit grows only by the
  deficit of an eligible window, and from TAU_WINDOWS after the first evaluable one.
* `NoPrematureCrystallization`, `CrystallizedExactly`, `CrystallizationExpires`:
  CRYSTALLIZED is said exactly after TAU_WINDOWS consecutive coherent, recurrent and
  contracting rows; and since contraction is measured against a peak inside the reference
  window, such a run cannot last.
* `DisruptionDiagnosed`, `KeepsTransportPromise`: the diagnostics and the transport status
  agree with the rows over the whole grace period.
* `KMemStrictlyPrior`, `KMemFollowsTransport`, `OrganizationWarmup`: what is in a frame was
  there before it, and appears when both warm-ups are over.
* `SelectionBlindToProspect`, `BoundarySnapshotUnlabelled`: section 4.
* `BasisPointsFaithful`: basis points add up, are within one of the exact share, and their
  order never contradicts the weights. An edge of one basis point may be an exact three-way
  tie (3334, 3333, 3333), which only a median edge of at most one would let through.
* `HorizonFromEvidence`, `UngatedNeedsUnanimity`, `PublishedIsScored`, `TestTunesThroughLabels`: a
  published horizon is ordered and observed on neighbours that went the published way; a
  profile whose validation was never right publishes unanimous votes only; one whose test
  never got a vote publishes nothing; a corrected bar of the test changes the library only in
  labels that had looked at it, and estimator and gates only with the library.
* `FreshnessStated`, `NativeDigestIdentifiesBars`, `QuietAnswersCurrent`: an answer is OK
  only with the provider's bars; a native scale is hashed from the bars it was computed
  from; nothing is remembered from before a request, nor from one scale to the next.
* `ReadyServes`: if no file was replaced since a READY evaluation *began*, no acceptable
  corpus-backed request fails. It needs every file of the evaluation: a W1 profile that is
  present and broken fails requests although only D1 profiles are mandatory.
* `KeepsLedger`: refinement of `RequestLedger`.
* `AuditsNotRewritten`: while both sources grow, no estimator, fitted line, vote, correction or
  label that an audit has reported is reported differently; audits gain queries, and a
  censored query may get its label.
* `OpenBarOnlyAtMidnight`, `FreshestServed`: a bar that was forming when the source answered is
  accepted only from klines, last, with its close between the request and its parsing; an
  answer reaches the last session that was over at its beginning, except past the limits named:
  a contract with more sessions than one request returns is cut at its newest end.
* `NoAnomalyNoHole`: a series the cadence report is content with has every week, and full ones
  where the market never closes. Nothing else in loading or aggregating looks for holes.
* `ClosedWeeksFinal`, `JoinIsCausal`, `AlignmentExtends`: what a later and longer answer leaves
  as it was: weeks, the week a day was compared with, pairs of two instruments.
* `JoinLagBounded`: the week joined is never from the row's future and at most one week older
  than the latest complete one. `HourFromEitherPath`: minutes make the same hours directly and
  over five-minute bars.
* `NoRepaint`: what an answer read at a bar, in any indicator, every later one reads there too.
* `UnbiasedReading`: of the market upside down the channel reads the opposite, unless a vote is
  exactly on its threshold, or nothing has moved.
* `NoContradictedDirection`: a direction is published if and only if every timeframe asked for
  reads it. With two timeframes supported and duplicates refused, a majority does not exist.

**Fairness.** The observer, the stack, the builder, the audits and the signal are sequential
programs that run to their end, and a data request alone promises nothing but to end: their
models have safety properties only. `FinancialService` assumes weak fairness of each
handler's own steps: the Tokio runtime keeps running a task that can run, and a silent
provider is given up after `PROVIDER_TIMEOUT_SECONDS`, so that `ProviderFails` is always
possible and one of the two outcomes happens. Nothing is assumed of clients, file
replacements, probes or restarts. Deadlock is not checked: each of the programs may stop
when its input ends, and so may the clients.

## 4. Proofs

Each proof module has one inductive invariant, stated as a conjunction of named parts, and one
lemma per action that it survives. The strengthened invariants that TLC can evaluate were first
checked on the instance of the run; three say that some past market, request or corpus
explains the state, which the prover can use and TLC cannot enumerate. Assumptions on constants
are named `...Assumption` in the module that declares them, and are evaluated in every run; the
proofs use no others.

`StructuralProofs` proves for all windows, thresholds, scales and lengths: type correctness
(`TypeCorrect`), `CrystallizationWaits`, `ExposureIsBounded`, `AlertIsAccounted`, and that the
observer implements `TransportRegime` (`TransportPromiseKept`). Each needs a strengthening: that
crystallizing windows are all evaluable windows since the first one; that eligibility is monotone
because the first evaluable index is fixed once; that while a regime is inherited the
discontinuity run counts exactly the inherited windows and the remembered regime is VIABLE, while
in every other phase nothing inheritable is pending.

The same module is about what a reader of the rows can verify. `HistoryInv` says that
the last rows end in exactly the runs that the two counters count; `CrystallizedIsExact` and
`DisruptionIsDiagnosed` are read off it. `CrystallizationRunsOut` bounds a crystallizing run for
every window: each of its capacities is below a peak in the window before it, so that, the longer
the run, the lower everything the window still holds. `FallInv` says how low: an entry k windows
old leaves room for k windows, and a reference window for each level above it. It is a theorem
about the model, whose capacities have levels; the code's are doubles.

And about the stack: a step of the stack is a step of the observer (`StackObserves`), so that
every theorem about `Spec` holds of the stack. `StackInv` bounds by the number of bars since the
first evaluable one how much history each operator can have, and says that K-MEM has a state
exactly since then. From it: types, `KMemIsStrictlyPrior`, `KMemTransport`, `OrganizationWarmsUp`.

`CalibrationEvidenceProofs` proves for every corpus size, boundary, warm-up and set of passages:
types, `ProspectStaysUnseen` (`SelectionBlindToProspect`), `BoundarySnapshotLeftOut`,
`GateNeedsFlatSpell`. The artifact is written by one action, so the argument is about that action:
the maturity check bounds the outcome of every label of training and validation by the boundary,
the barrier reads bars before the validation segment, which lies before it, and the profile's own
validation puts the split after it. The last two theorems state how narrow the gate is. A label
takes at least one bar, so the last snapshot before the boundary is never in an eligible library.
Once the test is at least as long as the label horizon, that snapshot cannot have lost its label
to the end of the corpus, so it must have had no volatility: a whole lookback of bars without a
range before the boundary. On a real corpus this means that the builder, as it is, declares no
profile prospective. The committed profiles are all development audits, as `README.md` says.

`DirectionalResolutionProofs`: `ResolutionInv` says that the samples and the parameters of the
artifact are what the builder made of some corpus as long as the present one, which differs from
it before the test in nothing but labels that look into the test (`Origin`), and that the last
answer is what the vote and the gates make of that artifact. Corrections add up, because a
relabelled label still looks at the bar (`RelabelledAgain`). The rest is about the operators: a
sum over a finite set of neighbours, the remainders of three divisions, medians and quantiles of
lists. `VotesAreFaithful`, `HorizonsAreEvidence`, `UngatedIsUnanimous`, `PublicationsAreScored`,
and `TestTunesByLabels` as an action property.

`FinancialServiceProofs` proves types and five properties for every set of requests, of file
contents and of limits. `ServiceInv` follows one handler and the files: what a job holds was, at
the moment of its reading, what the file held (`Source`), and as long as no file was replaced
since the job began it still is (`Quiet`). The actions of other handlers cannot break it, because
they write only their own job and the log, and a replacement only ends the quiet of a job.
`CheckInv` says the same of the readiness evaluation, file by file. `LedgerKept` is the safety
part of the refinement of `RequestLedger`: every step of the service is a step of the ledger or
none.

`MarketSeriesProofs`: `MarketInv` says that what is in flight is the answer of its source at the
time of the request (for futures, at a time since), and that an accepted series has the promised
properties. `MarketTypeCorrect`, `OpenBarsAreClosing` and `AnswersAreFresh` then need one argument
per source. Klines have a closed bar no older than any day that was over, because a limit of at
least two (`KlineAssumption`; the service asks for 1000) shows the bar before the forming one;
futures sessions lack a day only when as many earlier ones were all accepted, which fills the
limit; tickers identify contracts (`ContractAssumption`). `HoursAgree` is arithmetic of batches
and holds of every sequence.

The theorems on weeks, joins and pairs rest on two more parts. `Grouping` and `WeeksOf` say what
the weeks of a series are: intervals of places that fill it, one for each calendar week that has a
bar, the last one emitted only when closed. With them `HolesAreReported` and
`JoinLagsAtMostAWeek` are about one series. They need that an exchange is closed at the end of a
week and that its policy tolerates no gap above a week (`ExchangeAssumption`; `CadencePolicy`
tolerates four days). The action properties compare two series, so
`OriginInv` remembers of each one where it stems from: when its request began, when it was
answered and parsed, from which contract, and that it holds exactly the days which that origin
shows (`Shown`). Of two series with the same source, the later one is the earlier one without its
first bars and with later ones (`Follows`, `Shifted`), which is where limits, sliding contracts
and the forming bar enter. `EmittedWeeksAreFinal` and `JoinsAreCausal` follow place by place.
`PairsAreExtended` is an induction over the turns of the alignment: as long as both loops run on
bars that the earlier series have, they are in the same state, and from where one of these ends,
pairs are only added.

`FinancialSignalProofs` proves the three properties of the technical channel for every period,
scale and market, from `WarmupAssumption` (the least history fills every indicator; in the code
60 bars against at most 50) and `MarketAssumption` (what a bar is). The invariant
`ReadFromThePast` says that the last answer was read from the market as it was at some time, and
that this market has only been continued since. `NothingIsRepainted` then says of each indicator
that its value at a bar is a function of the bars up to it: running averages by induction from
their seed (`Smoothed`), the others by their windows. `ChannelIsUnbiased` is a mirror argument,
indicator by indicator: `Faces` is what the last bar shows, and the mirrored market shows
`Reversed` faces, since quotients, sums and squares do not look at the sign and gains exchange
with losses; then the four votes, the range test, the direction and the counter-reading are
mirrored too, threshold by threshold. `DirectionIsUncontradicted` is the arithmetic of at most
two different timeframes.

`WalkForwardProofs` proves `AuditsStand` (`AuditsNotRewritten`) for every horizon, barrier,
corpus, estimator size and market that goes on. `Growth` is what a later bar or a longer feature
source does. Under it a label stays, and a new one matures after every bar there was
(`OutcomeKept`); so a row that is added is in no library a vote was taken from (`ScoresKept`).
What was calibrated (`Calibrated`) fixes the places where the audits cut the frames, because the
validation the audit cuts for itself begins no later than the test of the profile: the root grows
no faster than its argument (`SplitCountGrows`). All labels before the test are known then, as no
horizon is longer than the test (`HorizonAssumption`), and therefore training, validation,
estimator and fitted lines are the same ever after. `AuditInv` carries this from one report to
the next: the last report is repeated by a report on the sources as they are.

What a recursive definition computes is usually out of the prover's reach. Three things made more
of it provable. An induction whose predicate is membership in a set needs no operator parameter
(`NaturalInduction` in `CommonProofs`, from the least element of a set of naturals). Sums over a
set are computed member by member from there (`SumNatural`, `SumAgrees`, `SumOpposite`). And where
the model selects or sorts, it names the k-th member of a set (`Ascending`) instead of going
through a list.

**Only model-checked.** `KeepsLedger` as a whole: its safety part is `LedgerKept`, but that every
request is answered is liveness under fairness, which the prover does not treat. That the bounds
of the instances reach every branch is a matter of the runs alone.

## 5. Disagreements found

* **Split rules.** The frozen protocol records `no_lookahead: true`; labels of the validation
  segment are read from bars of the test segment, up to a horizon past the split. Only an
  eligible profile is protected from it (`calibration_lookahead`). `TestTunesThroughLabels` is the
  other side: these labels are the only way from the test to the parameters.
* **Reliability gate.** The frozen protocol records `per_direction_lower_bound`. A direction
  the held-out test never predicted has no bound of its own, and `resolve_direction` falls
  back to the bound of all directions together (`reliability_gate`).
* **Reproducible responses.** The functional declaration guarantees one `response_sha256`
  for the same data; the Telegraph corpus path hashes one read of the file and computes from
  another (`service_reproducible`). The native endpoint hashes the bars it loaded.
* **Pinned fallback.** The Telegraph documentation says that a provider failure falls back to the
  pinned corpus. The fallback loads the file by its name; the pin is compared by the readiness
  evaluation only. The provider fails, the corpus is replaced, and a request that asked for live
  data is answered from the replacement (`service_pinned`).

Further observations, met while modelling, which no run of its own states:

* **Forming bars.** `docs/H1_MINER_FUNCTIONAL_DECLARATION.md` (146-147) excludes a forming bar;
  `provider.rs:368` takes the clock of its filter after the payload. `OpenBarOnlyAtMidnight` says
  exactly when one passes.
* **Lag of the weekly join.** Files of a market without weekends, and futures, close on the
  boundary of two weeks, and `dynamics.rs:343` counts such a close into the later week: their
  rows are compared with a week one older than for klines (`JoinLagBounded`).
* **Alignment.** `cross_asset.rs:170` speaks of an as-of relation; the greedy pairing accepts a
  reference frame that closes later, within the tolerated gap, and a pairing that is off by a
  day persists as long as both series go on without holes.
* **Frozen prefix of the audits.** `profile.calibration_end_ns` is the last *labelled* frame
  (`calibration.rs:1406`); the audits take it, and one more, for the frames of the source that
  was calibrated (1505-1510, 2356-2360). The prefix is several frames short, its validation split
  differs from the profile's, and rows reported as forward include frames of the original source.
* **Validation of the corrections.** The conditional and sequential audits fit their line on
  validation labels of which some mature inside the evaluation.
* **A market without moves.** Votes tie to DOWN, where `docs/H1_SIGNAL_SEMANTICS.md` gives DOWN
  for "less than" only; RSI reads 100 and the counter-reading DOWN. After a first period without
  any range ADX stays at zero, so that later trends may be called a range.
* **MACD signal.** `technical.rs:264` comments its first bar as `26 + 9 - 1`, which counts from
  one, and compares a counter from zero: the histogram begins a bar late, and the MACD value of
  its first bar is left out of the signal line.
* **K-MEM evidence.** `technical.rs:831` reads `strictly_prior_state` as a number, and
  `structural.rs:116` serializes an object: this evidence, listed in
  `docs/H1_SIGNAL_SEMANTICS.md` (112-116), is never emitted.
* **Counter-reading.** The same document asks that all evidence align, and that the first
  matching component determine it; the code does the latter.
* **Short histories.** The document promises UNAVAILABLE below 60 bars; the request fails as a
  whole with status 500 (`technical.rs:473`, `server.rs:684`).
* **Cross-scale fields.** Agreement, agreeing scales and dominant scale are documented and
  computed; the response carries the dominant direction only (`signal.rs:294-411`).
* **Native response types.** The evidence states of `native_response.rs` (43-56) lack
  `PREREGISTERED_AWAITING_PROSPECTIVE_EVIDENCE`; nothing uses these types.

## 6. Not modelled

Floating-point arithmetic: the kernel, the ridge fit and the recurrence enter as inputs, and
the indicators and corrections are exact or rounded where the code has doubles. Parsing of
provider payloads, asset words and CSV fields, rendering and hashing. Several instruments at
once. Of the audits: neighbour anatomy, range distance geometry, compactness, trajectory
anatomy and the ablation variants beside A, which describe votes that have been taken. Of the
technical channel: the contrast with the structural evidence, which decides nothing. The
statistics over joined rows, the offline corpus report, the asset resolver, and the data types
of `contracts.rs` and `native_response.rs`: no state, no order, no control.

## 7. What is left

Every property that a run checks is a theorem, but for the liveness of `KeepsLedger`. What the
models leave out is in section 6; what would say most next: the hazards without a property
(`hazards` in `PROJECT.json`), the structural contrast of the technical channel, and two
instruments that share the files of one service.
