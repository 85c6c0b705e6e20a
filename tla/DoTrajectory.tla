---------------------------- MODULE DoTrajectory ----------------------------
(***************************************************************************)
(* The D_O v9 observer (structural.rs, do_trajectory): one step per bar.   *)
(* A window is not ready, inactive, without transport support, coherent or *)
(* discontinuous; the five cases are the five actions.  The numerical      *)
(* inputs of a window (path length, recurrence, ridge coherence, variation *)
(* capacity) are chosen freely from small ranges; the control they drive   *)
(* is the code's.                                                          *)
(***************************************************************************)
EXTENDS Common

CONSTANTS
  GeometryWindow,             \* GEOMETRY_WINDOW, 16 in the code
  MinimumGeometryPoints,      \* MINIMUM_GEOMETRY_POINTS, 8
  OperatorWindow,             \* OPERATOR_WINDOW, 32
  MinimumOperatorTransitions, \* MINIMUM_OPERATOR_TRANSITIONS, 8
  VariationReferenceWindow,   \* VARIATION_REFERENCE_WINDOW, 32
  TauWindows,                 \* TAU_WINDOWS, 16
  HysteresisGraceWindows,     \* HYSTERESIS_GRACE_WINDOWS, 4
  CoherenceThreshold,         \* COHERENCE_THRESHOLD (0.5) on the scale 0..CoherenceMax
  CoherenceMax,               \* coherence 1.0
  CapacityMax,                \* variation capacity 1.0
  MaxIndex                    \* bound: length of the replayed series

ASSUME WindowAssumption ==
  /\ GeometryWindow \in Nat /\ MinimumGeometryPoints \in Nat
  /\ OperatorWindow \in Nat /\ MinimumOperatorTransitions \in Nat \ {0}
  /\ VariationReferenceWindow \in Nat \ {0}

ASSUME RegimeAssumption ==
  TauWindows \in Nat \ {0} /\ HysteresisGraceWindows \in Nat

ASSUME ScaleAssumption ==
  /\ CoherenceMax \in Nat /\ CoherenceThreshold \in 1..CoherenceMax
  /\ CapacityMax \in Nat /\ MaxIndex \in Nat

VARIABLES
  index,                    \* index of the next bar, the loop variable
  lastCoherentRegime,       \* Option of a regime
  discontinuityRun,
  crystallizingRun,
  firstTransportEvaluable,  \* Option of an index
  capacities,               \* the trailing variation capacities, Options
  cumulativeDeficit,
  row                       \* the DoObservation of bar index - 1

vars == <<index, lastCoherentRegime, discontinuityRun, crystallizingRun,
          firstTransportEvaluable, capacities, cumulativeDeficit, row>>

Coherences == 0..CoherenceMax
Capacities == Option(0..CapacityMax)

Regimes == {"CRYSTALLIZED", "CRYSTALLIZING", "RECURRENT", "VIABLE"}

DiagnosticNames ==
  {"INSUFFICIENT_GEOMETRY", "INSUFFICIENT_TRANSPORT_SUPPORT",
   "LOCAL_TRANSPORT_DISCONTINUITY", "HYSTERESIS_INHERITANCE",
   "TRANSPORT_DISRUPTION", "PERSISTENT_TRANSPORT_DISRUPTION", "IMITATIVE_ECHO"}

Observations ==
  [geometryReady  : BOOLEAN,
   transport      : {"UNRESOLVED", "INACTIVE", "COHERENT", "PROVISIONAL", "DISRUPTED"},
   recurrence     : {"UNRESOLVED", "INACTIVE", "RECURRENT", "NON_RECURRENT"},
   contraction    : {"UNRESOLVED", "CONTRACTING", "NOT_CONTRACTING"},
   structuralState: Regimes \cup {"TRANSPORT_UNRESOLVED", "STAGNANT", "TRANSPORT_DISRUPTED"},
   coherence      : Option(Coherences),
   deficit        : Option(0..CoherenceThreshold),
   alertEligible  : BOOLEAN,
   diagnostics    : SUBSET DiagnosticNames]

TypeOK ==
  /\ index \in 0..MaxIndex
  /\ lastCoherentRegime \in Option(Regimes)
  /\ discontinuityRun \in 0..index
  /\ crystallizingRun \in 0..index
  /\ firstTransportEvaluable \in Option(0..MaxIndex)
  /\ capacities \in Seq(Capacities) /\ Len(capacities) <= VariationReferenceWindow
  /\ cumulativeDeficit \in Nat
  /\ row \in Observations

-----------------------------------------------------------------------------
(* The verdicts of a window.                                               *)

(* geometry_rows: enough local points.                                     *)
Ready(i) == Least(i + 1, GeometryWindow) >= MinimumGeometryPoints

(* ridge_prediction: transitions strictly before the current row.          *)
Support(i) == IF i < 2 THEN 0 ELSE Least(i - 1, OperatorWindow)
TransportSupported(i) == Support(i) >= MinimumOperatorTransitions

(* Contraction of a quarter or more against the trailing peak; a peak of   *)
(* zero gives contraction zero.                                            *)
FaultyContracting(capacity, trailing) ==
  \E c \in capacity : \E k \in DOMAIN trailing : \E peak \in trailing[k] : 4 * (peak - c) >= peak
Contracting(capacity, trailing) ==
  \E c \in capacity : \E k \in DOMAIN trailing : \E peak \in trailing[k] :
    peak > 0 /\ 4 * (peak - c) >= peak

FaultyDeficit(coherence) == {CoherenceThreshold - c : c \in coherence}
Deficit(coherence) == {Greatest(CoherenceThreshold - c, 0) : c \in coherence}

FaultyFirstEvaluable(coherence) == IF coherence # {} THEN {index} ELSE firstTransportEvaluable
FirstEvaluable(coherence) ==
  IF firstTransportEvaluable = {} /\ coherence # {} THEN {index} ELSE firstTransportEvaluable

FaultyAlertEligible(first) == first # {}
AlertEligible(first) == \E f \in first : index >= f + TauWindows

FaultyRegime(predicate, recurrent, run) ==
  CASE predicate /\ run >= TauWindows - 1 -> "CRYSTALLIZED"
    [] predicate /\ run < TauWindows - 1  -> "CRYSTALLIZING"
    [] ~predicate /\ recurrent            -> "RECURRENT"
    [] OTHER                              -> "VIABLE"
Regime(predicate, recurrent, run) ==
  CASE predicate /\ run >= TauWindows -> "CRYSTALLIZED"
    [] predicate /\ run < TauWindows  -> "CRYSTALLIZING"
    [] ~predicate /\ recurrent        -> "RECURRENT"
    [] OTHER                          -> "VIABLE"

FaultyInherits(run) == "VIABLE" \in lastCoherentRegime /\ run <= HysteresisGraceWindows + 1
Inherits(run) == "VIABLE" \in lastCoherentRegime /\ run <= HysteresisGraceWindows

FaultyPersistent(run) == run >= HysteresisGraceWindows
Persistent(run) == run > HysteresisGraceWindows

Discontinuity(coherence) == \E c \in coherence : c < CoherenceThreshold

Diagnosed(d, active, coherence, recurrent, transport, run) ==
  CASE d = "INSUFFICIENT_GEOMETRY"           -> ~Ready(index)
    [] d = "INSUFFICIENT_TRANSPORT_SUPPORT"  -> Ready(index) /\ active /\ coherence = {}
    [] d = "LOCAL_TRANSPORT_DISCONTINUITY"   -> Discontinuity(coherence)
    [] d = "HYSTERESIS_INHERITANCE"          -> Discontinuity(coherence) /\ transport = "PROVISIONAL"
    [] d = "TRANSPORT_DISRUPTION"            -> Discontinuity(coherence) /\ transport # "PROVISIONAL"
    [] d = "PERSISTENT_TRANSPORT_DISRUPTION" -> transport = "DISRUPTED" /\ Persistent(run)
    [] d = "IMITATIVE_ECHO"                  -> Discontinuity(coherence) /\ recurrent

-----------------------------------------------------------------------------
(* One window is observed: what every branch does besides the regime.      *)
Observe(transport, state, active, coherence, recurrent, capacity) ==
  LET trailing == Push(capacities, capacity, VariationReferenceWindow)
      first    == FirstEvaluable(coherence)
      deficit  == Deficit(coherence)
  IN
  /\ index' = index + 1
  /\ capacities' = trailing
  /\ firstTransportEvaluable' = first
  /\ cumulativeDeficit' =
       cumulativeDeficit
         + (IF AlertEligible(first) THEN ValueOr(deficit, 0) ELSE 0)
  /\ row' =
       [geometryReady   |-> Ready(index),
        transport       |-> transport,
        recurrence      |-> IF ~Ready(index) THEN "UNRESOLVED"
                            ELSE IF ~active THEN "INACTIVE"
                            ELSE IF recurrent THEN "RECURRENT" ELSE "NON_RECURRENT",
        contraction     |-> IF ~Ready(index) \/ capacity = {} THEN "UNRESOLVED"
                            ELSE IF Contracting(capacity, trailing)
                                 THEN "CONTRACTING" ELSE "NOT_CONTRACTING",
        structuralState |-> state,
        coherence       |-> coherence,
        deficit         |-> deficit,
        alertEligible   |-> AlertEligible(first),
        diagnostics     |-> {d \in DiagnosticNames :
                               Diagnosed(d, active, coherence, recurrent, transport,
                                         discontinuityRun')}]

Init ==
  /\ index = 0
  /\ lastCoherentRegime = {}
  /\ discontinuityRun = 0
  /\ crystallizingRun = 0
  /\ firstTransportEvaluable = {}
  /\ capacities = << >>
  /\ cumulativeDeficit = 0
  /\ row = [geometryReady |-> FALSE, transport |-> "UNRESOLVED", recurrence |-> "UNRESOLVED",
            contraction |-> "UNRESOLVED", structuralState |-> "TRANSPORT_UNRESOLVED",
            coherence |-> {}, deficit |-> {}, alertEligible |-> FALSE, diagnostics |-> {}]

(* Too few points for a geometry: nothing can be said, nothing is lost.    *)
GeometryPending ==
  /\ index < MaxIndex
  /\ ~Ready(index)
  /\ discontinuityRun' = 0
  /\ crystallizingRun' = 0
  /\ UNCHANGED lastCoherentRegime
  /\ Observe("UNRESOLVED", "TRANSPORT_UNRESOLVED", FALSE, {}, FALSE, {})

(* The path is too short: the coherent regime is forgotten.                *)
Stagnate(capacity) ==
  /\ index < MaxIndex
  /\ Ready(index)
  /\ discontinuityRun' = 0
  /\ crystallizingRun' = 0
  /\ lastCoherentRegime' = {}
  /\ Observe("INACTIVE", "STAGNANT", FALSE, {}, FALSE, capacity)

(* Active, but too few transitions to fit the transport operator.          *)
LackSupport(recurrent, capacity) ==
  /\ index < MaxIndex
  /\ Ready(index)
  /\ ~TransportSupported(index)
  /\ discontinuityRun' = 0
  /\ crystallizingRun' = 0
  /\ UNCHANGED lastCoherentRegime
  /\ Observe("UNRESOLVED", "TRANSPORT_UNRESOLVED", TRUE, {}, recurrent, capacity)

(* The operator predicted the window.                                      *)
Cohere(c, recurrent, capacity) ==
  LET predicate ==
        recurrent /\ Contracting(capacity, Push(capacities, capacity, VariationReferenceWindow))
      run    == IF predicate THEN crystallizingRun + 1 ELSE 0
      regime == Regime(predicate, recurrent, run)
  IN
  /\ index < MaxIndex
  /\ Ready(index)
  /\ TransportSupported(index)
  /\ c >= CoherenceThreshold
  /\ discontinuityRun' = 0
  /\ crystallizingRun' = run
  /\ lastCoherentRegime' = {regime}
  /\ Observe("COHERENT", regime, TRUE, {c}, recurrent, capacity)

(* The operator failed to predict the window: a viable regime is inherited *)
(* for a few windows, anything else is disrupted.                          *)
Discontinue(c, recurrent, capacity) ==
  LET run == discontinuityRun + 1 IN
  /\ index < MaxIndex
  /\ Ready(index)
  /\ TransportSupported(index)
  /\ c < CoherenceThreshold
  /\ discontinuityRun' = run
  /\ crystallizingRun' = 0
  /\ UNCHANGED lastCoherentRegime
  /\ IF Inherits(run)
     THEN Observe("PROVISIONAL", "VIABLE", TRUE, {c}, recurrent, capacity)
     ELSE Observe("DISRUPTED", "TRANSPORT_DISRUPTED", TRUE, {c}, recurrent, capacity)

Next ==
  \/ GeometryPending
  \/ \E capacity \in Capacities :
       \/ Stagnate(capacity)
       \/ \E recurrent \in BOOLEAN :
            \/ LackSupport(recurrent, capacity)
            \/ \E c \in Coherences : \/ Cohere(c, recurrent, capacity)
                                     \/ Discontinue(c, recurrent, capacity)

Spec == Init /\ [][Next]_vars

-----------------------------------------------------------------------------
(* Properties.                                                             *)

(* The deficit is accumulated only from the window that is TAU_WINDOWS     *)
(* after the first evaluable one, so after any number of bars it is at     *)
(* most one full deficit per window since then.                            *)
DeficitExposureBounded ==
  IF firstTransportEvaluable = {}
  THEN cumulativeDeficit = 0
  ELSE \A f \in firstTransportEvaluable :
         cumulativeDeficit <= CoherenceThreshold * Greatest(0, index - (f + TauWindows))

(* CRYSTALLIZED is a statement about TAU_WINDOWS windows: it is never      *)
(* reported before that many windows have had their transport evaluated,   *)
(* whatever happened before.                                               *)
NoPrematureCrystallization ==
  row.structuralState = "CRYSTALLIZED" =>
    \E f \in firstTransportEvaluable : f + TauWindows <= index

(* Alert eligibility is never revoked, and the cumulative deficit moves    *)
(* only in an eligible window, only upwards and by that window's deficit.  *)
AlertStep ==
  /\ row.alertEligible => row'.alertEligible
  /\ cumulativeDeficit' # cumulativeDeficit =>
       /\ row'.alertEligible
       /\ \E d \in row'.deficit : cumulativeDeficit' = cumulativeDeficit + d

AlertAccounting == [][AlertStep]_vars

(* The observer keeps the transport promise of TransportRegime.            *)
Phase == CASE row.transport = "COHERENT" /\ row.structuralState = "VIABLE" -> "VIABLE"
           [] row.transport = "COHERENT" /\ row.structuralState # "VIABLE" -> "ORGANIZED"
           [] OTHER -> row.transport

Promise == INSTANCE TransportRegime WITH
  Grace     <- HysteresisGraceWindows,
  phase     <- Phase,
  inherited <- IF row.transport = "PROVISIONAL" THEN discontinuityRun ELSE 0,
  evaluated <- firstTransportEvaluable # {}

KeepsTransportPromise == Promise!Spec

=============================================================================
