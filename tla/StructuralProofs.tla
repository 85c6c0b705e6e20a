-------------------------- MODULE StructuralProofs --------------------------
(***************************************************************************)
(* What holds of the D_O observer for every window length, threshold and   *)
(* series length: its types, the bound on the accumulated deficit, the     *)
(* waiting time of crystallization, that it implements TransportRegime,    *)
(* and what a reader of its rows may conclude: CRYSTALLIZED and the        *)
(* persistence diagnostic say exactly what the last rows show, and         *)
(* crystallization cannot outlast the capacity it feeds on.                *)
(*                                                                         *)
(* And of the causal stack around it for every window, support and scale:  *)
(* its types, that K-MEM is strictly prior, and how long the organization  *)
(* channel takes before it can say anything.  The stack refines D_O step   *)
(* by step, so that what is shown of the observer holds of it too.         *)
(***************************************************************************)
EXTENDS MCDoTrajectory, StructuralStack, FiniteSetTheorems, TLAPS

-----------------------------------------------------------------------------
(* The observer.                                                           *)

(* A window stays ready, and its transport supported, once it was.         *)
LEMMA EvaluabilityPersists ==
  ASSUME NEW i \in Nat, NEW j \in Nat, i <= j
  PROVE  /\ Ready(i) => Ready(j)
         /\ TransportSupported(i) => TransportSupported(j)
BY WindowAssumption DEF Ready, TransportSupported, Support, Least

(* A trailing window keeps its element type and its length.                *)
LEMMA PushType ==
  ASSUME NEW S, NEW s \in Seq(S), NEW x \in S, NEW n \in Nat \ {0}, Len(s) <= n
  PROVE  Push(s, x, n) \in Seq(S) /\ Len(Push(s, x, n)) <= n
<1>1. CASE Len(s) < n
  BY <1>1 DEF Push
<1>2. CASE Len(s) >= n
  <2>1. s # << >> /\ Tail(s) \in Seq(S) /\ Len(Tail(s)) = Len(s) - 1
    BY <1>2
  <2>2. Push(s, x, n) = Append(Tail(s), x)
    BY <1>2 DEF Push
  <2>3. Append(Tail(s), x) \in Seq(S) /\ Len(Append(Tail(s), x)) = Len(Tail(s)) + 1
    BY <2>1
  <2>4. QED
    BY <2>1, <2>2, <2>3
<1>3. QED
  BY <1>1, <1>2

(* What a trailing window holds, counted from its end: the new element and *)
(* before it the latest ones of the old window.                            *)
LEMMA PushEntries ==
  ASSUME NEW S, NEW s \in Seq(S), NEW x \in S, NEW n \in Nat \ {0}, Len(s) <= n
  PROVE  /\ Len(Push(s, x, n)) = Least(Len(s) + 1, n)
         /\ Push(s, x, n)[Len(Push(s, x, n))] = x
         /\ \A k \in 1..(Len(Push(s, x, n)) - 1) :
              Push(s, x, n)[Len(Push(s, x, n)) - k] = s[Len(s) + 1 - k]
<1>1. CASE Len(s) < n
  <2>1. Push(s, x, n) = Append(s, x)
    BY <1>1 DEF Push
  <2>2. QED
    BY <1>1, <2>1 DEF Least
<1>2. CASE Len(s) >= n
  <2> DEFINE t == Tail(s)
  <2>1. /\ t \in Seq(S) /\ Len(t) = Len(s) - 1 /\ Len(s) = n
        /\ \A k \in 1..Len(t) : t[k] = s[k + 1]
    BY <1>2
  <2>2. Push(s, x, n) = Append(t, x)
    BY <1>2 DEF Push
  <2> HIDE DEF t
  <2>3. /\ Len(Append(t, x)) = n /\ Append(t, x)[n] = x
        /\ \A k \in 1..Len(t) : Append(t, x)[k] = t[k]
    BY <2>1
  <2>4. ASSUME NEW k \in 1..(n - 1)
        PROVE  Append(t, x)[n - k] = s[Len(s) + 1 - k]
    <3>1. n - k \in 1..Len(t) /\ n - k + 1 = Len(s) + 1 - k
      BY <2>1
    <3>2. QED
      BY <2>1, <2>3, <3>1
  <2>5. QED
    BY <2>1, <2>2, <2>3, <2>4 DEF Least
<1>3. QED
  BY <1>1, <1>2

(* A deficit is an Option between nothing and a full one.                  *)
LEMMA DeficitType ==
  ASSUME NEW coherence \in Option(Coherences)
  PROVE  /\ Deficit(coherence) \in Option(0..CoherenceThreshold)
         /\ ValueOr(Deficit(coherence), 0) \in 0..CoherenceThreshold
         /\ Deficit(coherence) # {} =>
              ValueOr(Deficit(coherence), 0) \in Deficit(coherence)
<1>1. CASE coherence = {}
  BY <1>1, ScaleAssumption DEF Deficit, Option, ValueOr
<1>2. CASE coherence # {}
  <2>1. PICK c \in Coherences : coherence = {c}
    BY <1>2 DEF Option
  <2>2. Deficit(coherence) = {Greatest(CoherenceThreshold - c, 0)}
    BY <2>1 DEF Deficit
  <2>3. Greatest(CoherenceThreshold - c, 0) \in 0..CoherenceThreshold
    BY ScaleAssumption DEF Coherences, Greatest
  <2>4. ValueOr(Deficit(coherence), 0) = Greatest(CoherenceThreshold - c, 0)
    BY <2>2 DEF ValueOr
  <2>5. QED
    BY <2>2, <2>3, <2>4 DEF Option
<1>3. QED
  BY <1>1, <1>2

(* The regime of a coherent window is one of the four regimes.             *)
LEMMA RegimeType ==
  ASSUME NEW predicate \in BOOLEAN, NEW recurrent \in BOOLEAN, NEW run \in Nat
  PROVE  /\ Regime(predicate, recurrent, run) \in Regimes
         /\ Regime(predicate, recurrent, run) = "CRYSTALLIZED" => run >= TauWindows
BY RegimeAssumption DEF Regime, Regimes

-----------------------------------------------------------------------------
(* Type correctness.                                                       *)

(* The part of TypeOK that Observe alone determines.                       *)
ObservedTypeOK ==
  /\ index \in 0..MaxIndex
  /\ firstTransportEvaluable \in Option(0..MaxIndex)
  /\ capacities \in Seq(Capacities) /\ Len(capacities) <= VariationReferenceWindow
  /\ cumulativeDeficit \in Nat
  /\ row \in Observations

(* The part of a step that all branches share keeps the types.             *)
LEMMA ObserveType ==
  ASSUME TypeOK, index < MaxIndex,
         NEW transport \in {"UNRESOLVED", "INACTIVE", "COHERENT", "PROVISIONAL", "DISRUPTED"},
         NEW state \in Regimes \cup {"TRANSPORT_UNRESOLVED", "STAGNANT", "TRANSPORT_DISRUPTED"},
         NEW active \in BOOLEAN, NEW coherence \in Option(Coherences),
         NEW recurrent \in BOOLEAN, NEW capacity \in Capacities,
         Observe(transport, state, active, coherence, recurrent, capacity)
  PROVE  ObservedTypeOK' /\ index' = index + 1
<1>1. index' \in 0..MaxIndex
  BY ScaleAssumption DEF Observe, TypeOK
<1>2. FirstEvaluable(coherence) \in Option(0..MaxIndex)
  BY ScaleAssumption DEF FirstEvaluable, TypeOK, Option
<1>3. firstTransportEvaluable' \in Option(0..MaxIndex)
  BY <1>2 DEF Observe
<1>4. capacities' \in Seq(Capacities) /\ Len(capacities') <= VariationReferenceWindow
  BY PushType, WindowAssumption DEF Observe, TypeOK
<1>5. ValueOr(Deficit(coherence), 0) \in Nat /\ Deficit(coherence) \in Option(0..CoherenceThreshold)
  BY DeficitType, ScaleAssumption
<1>6. cumulativeDeficit' \in Nat
  BY <1>5 DEF Observe, TypeOK
<1>7. row' \in Observations
  <2>1. Ready(index) \in BOOLEAN /\ AlertEligible(FirstEvaluable(coherence)) \in BOOLEAN
    BY DEF Ready, AlertEligible
  <2>2. \A D \in SUBSET DiagnosticNames : D \in SUBSET DiagnosticNames
    OBVIOUS
  <2>3. QED
    BY <1>5, <2>1 DEF Observe, Observations
<1>8. QED
  BY <1>1, <1>3, <1>4, <1>6, <1>7 DEF ObservedTypeOK, Observe

(* Every reachable state is well typed, for every window, threshold and    *)
(* series length; in particular the accumulated deficit is never negative. *)
THEOREM TypeCorrect == Spec => []TypeOK
<1>1. Init => TypeOK
  BY ScaleAssumption, WindowAssumption DEF Init, TypeOK, Option, Observations, Regimes
<1>2. TypeOK /\ [Next]_vars => TypeOK'
  <2> SUFFICES ASSUME TypeOK, [Next]_vars PROVE TypeOK'
    OBVIOUS
  <2> USE ScaleAssumption
  <2>1. CASE GeometryPending
    <3>1. {} \in Option(Coherences) /\ {} \in Capacities
      BY DEF Option, Capacities
    <3>2. ObservedTypeOK' /\ index' = index + 1
      BY <2>1, <3>1, ObserveType DEF GeometryPending
    <3>3. QED
      BY <2>1, <3>1, <3>2 DEF GeometryPending, TypeOK, ObservedTypeOK
  <2>2. ASSUME NEW capacity \in Capacities, Stagnate(capacity)
        PROVE  TypeOK'
    <3>1. {} \in Option(Coherences) /\ {} \in Option(Regimes)
      BY DEF Option
    <3>2. ObservedTypeOK' /\ index' = index + 1
      BY <2>2, <3>1, ObserveType DEF Stagnate
    <3>3. QED
      BY <2>2, <3>1, <3>2 DEF Stagnate, TypeOK, ObservedTypeOK
  <2>3. ASSUME NEW capacity \in Capacities, NEW recurrent \in BOOLEAN,
               LackSupport(recurrent, capacity)
        PROVE  TypeOK'
    <3>1. {} \in Option(Coherences)
      BY DEF Option
    <3>2. ObservedTypeOK' /\ index' = index + 1
      BY <2>3, <3>1, ObserveType DEF LackSupport
    <3>3. QED
      BY <2>3, <3>1, <3>2 DEF LackSupport, TypeOK, ObservedTypeOK
  <2>4. ASSUME NEW capacity \in Capacities, NEW recurrent \in BOOLEAN, NEW c \in Coherences,
               Cohere(c, recurrent, capacity)
        PROVE  TypeOK'
    <3> DEFINE predicate ==
                 recurrent /\ Contracting(capacity, Push(capacities, capacity, VariationReferenceWindow))
               run    == IF predicate THEN crystallizingRun + 1 ELSE 0
               regime == Regime(predicate, recurrent, run)
    <3>1. predicate \in BOOLEAN
      BY DEF Contracting
    <3>2. run \in 0..(index + 1)
      BY DEF TypeOK
    <3>3. regime \in Regimes
      <4> HIDE DEF predicate, run
      <4> QED BY <3>1, <3>2, RegimeType, ScaleAssumption DEF TypeOK
    <3>4. /\ index < MaxIndex
          /\ discontinuityRun' = 0
          /\ crystallizingRun' = run
          /\ lastCoherentRegime' = {regime}
          /\ Observe("COHERENT", regime, TRUE, {c}, recurrent, capacity)
      BY <2>4 DEF Cohere
    <3> HIDE DEF predicate, run, regime
    <3>5. {c} \in Option(Coherences) /\ {regime} \in Option(Regimes)
      BY <3>3 DEF Option
    <3>6. ObservedTypeOK' /\ index' = index + 1
      BY <3>3, <3>4, <3>5, ObserveType
    <3>7. QED
      BY <3>2, <3>4, <3>5, <3>6 DEF TypeOK, ObservedTypeOK
  <2>5. ASSUME NEW capacity \in Capacities, NEW recurrent \in BOOLEAN, NEW c \in Coherences,
               Discontinue(c, recurrent, capacity)
        PROVE  TypeOK'
    <3>1. {c} \in Option(Coherences)
      BY DEF Option
    <3>2. /\ index < MaxIndex
          /\ discontinuityRun' = discontinuityRun + 1
          /\ crystallizingRun' = 0
          /\ lastCoherentRegime' = lastCoherentRegime
      BY <2>5 DEF Discontinue
    <3>3. \/ Observe("PROVISIONAL", "VIABLE", TRUE, {c}, recurrent, capacity)
          \/ Observe("DISRUPTED", "TRANSPORT_DISRUPTED", TRUE, {c}, recurrent, capacity)
      BY <2>5 DEF Discontinue
    <3>4. "VIABLE" \in Regimes
      BY DEF Regimes
    <3>5. ObservedTypeOK' /\ index' = index + 1
      BY <3>1, <3>2, <3>3, <3>4, ObserveType
    <3>6. QED
      BY <3>2, <3>5 DEF TypeOK, ObservedTypeOK
  <2>6. CASE UNCHANGED vars
    BY <2>6 DEF vars, TypeOK
  <2>7. QED
    BY <2>1, <2>2, <2>3, <2>4, <2>5, <2>6 DEF Next
<1>3. QED
  BY <1>1, <1>2, PTL DEF Spec

-----------------------------------------------------------------------------
(* The inductive invariant of the regime.                                  *)

(* Before the first evaluable window nothing coherent was ever seen; from  *)
(* it on every window is evaluable, so no run can be longer than the time  *)
(* since, and a verdict is never withheld again.                           *)
EvaluationInv ==
  /\ firstTransportEvaluable = {} =>
       row.transport \in {"UNRESOLVED", "INACTIVE"} /\ crystallizingRun = 0
  /\ \A f \in firstTransportEvaluable :
       /\ f < index /\ Ready(f) /\ TransportSupported(f)
       /\ f + discontinuityRun <= index /\ f + crystallizingRun <= index
       /\ row.transport # "UNRESOLVED"

(* What the next discontinuity may inherit, per published verdict.         *)
InheritanceInv ==
  /\ row.transport \in {"UNRESOLVED", "INACTIVE"} =>
       discontinuityRun = 0 /\ lastCoherentRegime = {}
  /\ row.transport = "COHERENT" =>
       discontinuityRun = 0 /\ lastCoherentRegime = {row.structuralState}
  /\ row.transport = "PROVISIONAL" =>
       lastCoherentRegime = {"VIABLE"} /\ discontinuityRun \in 1..HysteresisGraceWindows
  /\ row.transport = "DISRUPTED" =>
       /\ firstTransportEvaluable # {} /\ discontinuityRun > 0
       /\ "VIABLE" \in lastCoherentRegime => discontinuityRun > HysteresisGraceWindows

CrystallizationInv == row.structuralState = "CRYSTALLIZED" => crystallizingRun >= TauWindows

RegimeInv == EvaluationInv /\ InheritanceInv /\ CrystallizationInv

(* What a step does to the first evaluable window and to the verdict.      *)
LEMMA ObserveVerdict ==
  ASSUME NEW transport, NEW state, NEW active, NEW coherence, NEW recurrent, NEW capacity,
         Observe(transport, state, active, coherence, recurrent, capacity)
  PROVE  /\ index' = index + 1
         /\ row'.transport = transport /\ row'.structuralState = state
         /\ coherence = {} => firstTransportEvaluable' = firstTransportEvaluable
         /\ firstTransportEvaluable # {} => firstTransportEvaluable' = firstTransportEvaluable
         /\ coherence # {} /\ firstTransportEvaluable = {} => firstTransportEvaluable' = {index}
BY DEF Observe, FirstEvaluable

(* Every observation keeps the regime's invariant.                         *)
LEMMA RegimeInvariant == Spec => []RegimeInv
<1>1. Init => RegimeInv
  BY DEF Init, RegimeInv, EvaluationInv, InheritanceInv, CrystallizationInv
<1>2. TypeOK /\ RegimeInv /\ [Next]_vars => RegimeInv'
  <2> SUFFICES ASSUME TypeOK, RegimeInv, [Next]_vars PROVE RegimeInv'
    OBVIOUS
  <2> USE DEF RegimeInv, EvaluationInv, InheritanceInv, CrystallizationInv
  <2>0. /\ index \in Nat /\ firstTransportEvaluable \in Option(0..MaxIndex)
        /\ discontinuityRun \in Nat /\ crystallizingRun \in Nat
        /\ lastCoherentRegime \in Option(Regimes)
        /\ \A f \in firstTransportEvaluable : f \in Nat
    BY ScaleAssumption DEF TypeOK, Option
  <2>1. CASE GeometryPending
    <3>1. firstTransportEvaluable = {}
      <4> SUFFICES ASSUME NEW f \in firstTransportEvaluable PROVE FALSE
        OBVIOUS
      <4> QED
        BY <2>0, <2>1, EvaluabilityPersists DEF GeometryPending, Option
    <3>2. /\ index' = index + 1
          /\ row'.transport = "UNRESOLVED" /\ row'.structuralState = "TRANSPORT_UNRESOLVED"
          /\ firstTransportEvaluable' = {}
      BY <2>1, <3>1, ObserveVerdict DEF GeometryPending
    <3>3. lastCoherentRegime = {}
      BY <2>0, <3>1 DEF TypeOK, Observations
    <3>4. QED
      BY <2>1, <3>1, <3>2, <3>3 DEF GeometryPending
  <2>2. ASSUME NEW capacity \in Capacities, Stagnate(capacity)
        PROVE  RegimeInv'
    <3>1. /\ index' = index + 1
          /\ row'.transport = "INACTIVE" /\ row'.structuralState = "STAGNANT"
          /\ firstTransportEvaluable' = firstTransportEvaluable
      BY <2>2, ObserveVerdict DEF Stagnate
    <3>2. QED
      BY <2>0, <2>2, <3>1 DEF Stagnate, Option
  <2>3. ASSUME NEW capacity \in Capacities, NEW recurrent \in BOOLEAN,
               LackSupport(recurrent, capacity)
        PROVE  RegimeInv'
    <3>1. firstTransportEvaluable = {}
      <4> SUFFICES ASSUME NEW f \in firstTransportEvaluable PROVE FALSE
        OBVIOUS
      <4> QED
        BY <2>0, <2>3, EvaluabilityPersists DEF LackSupport, Option
    <3>2. /\ index' = index + 1
          /\ row'.transport = "UNRESOLVED" /\ row'.structuralState = "TRANSPORT_UNRESOLVED"
          /\ firstTransportEvaluable' = {}
      BY <2>3, <3>1, ObserveVerdict DEF LackSupport
    <3>3. lastCoherentRegime = {}
      BY <2>0, <3>1 DEF TypeOK, Observations
    <3>4. QED
      BY <2>3, <3>1, <3>2, <3>3 DEF LackSupport
  <2>4. ASSUME NEW capacity \in Capacities, NEW recurrent \in BOOLEAN, NEW c \in Coherences,
               Cohere(c, recurrent, capacity)
        PROVE  RegimeInv'
    <3> DEFINE predicate ==
                 recurrent /\ Contracting(capacity, Push(capacities, capacity, VariationReferenceWindow))
               run    == IF predicate THEN crystallizingRun + 1 ELSE 0
               regime == Regime(predicate, recurrent, run)
    <3>1. predicate \in BOOLEAN /\ run \in 0..(crystallizingRun + 1)
      BY DEF Contracting, TypeOK
    <3>2. /\ Ready(index) /\ TransportSupported(index)
          /\ discontinuityRun' = 0
          /\ crystallizingRun' = run
          /\ lastCoherentRegime' = {regime}
          /\ Observe("COHERENT", regime, TRUE, {c}, recurrent, capacity)
      BY <2>4 DEF Cohere
    <3> HIDE DEF predicate, run
    <3>3. regime = "CRYSTALLIZED" => run >= TauWindows
      BY <3>1, RegimeType, ScaleAssumption DEF TypeOK
    <3> HIDE DEF regime
    <3>4. /\ index' = index + 1
          /\ row'.transport = "COHERENT" /\ row'.structuralState = regime
          /\ firstTransportEvaluable # {} => firstTransportEvaluable' = firstTransportEvaluable
          /\ firstTransportEvaluable = {} => firstTransportEvaluable' = {index}
      BY <3>2, ObserveVerdict
    <3>5. EvaluationInv'
      <4>1. CASE firstTransportEvaluable = {}
        <5>1. crystallizingRun = 0 /\ firstTransportEvaluable' = {index}
          BY <3>4, <4>1
        <5>2. run \in 0..1
          BY <3>1, <5>1
        <5>3. QED
          BY <2>0, <3>2, <3>4, <5>1, <5>2
      <4>2. CASE firstTransportEvaluable # {}
        BY <2>0, <3>1, <3>2, <3>4, <4>2
      <4>3. QED
        BY <4>1, <4>2
    <3>6. InheritanceInv' /\ CrystallizationInv'
      BY <3>2, <3>3, <3>4
    <3>7. QED
      BY <3>5, <3>6
  <2>5. ASSUME NEW capacity \in Capacities, NEW recurrent \in BOOLEAN, NEW c \in Coherences,
               Discontinue(c, recurrent, capacity)
        PROVE  RegimeInv'
    <3>1. /\ Ready(index) /\ TransportSupported(index)
          /\ discontinuityRun' = discontinuityRun + 1
          /\ crystallizingRun' = 0
          /\ lastCoherentRegime' = lastCoherentRegime
      BY <2>5 DEF Discontinue
    <3>2. /\ index' = index + 1
          /\ firstTransportEvaluable # {} => firstTransportEvaluable' = firstTransportEvaluable
          /\ firstTransportEvaluable = {} => firstTransportEvaluable' = {index}
          /\ IF Inherits(discontinuityRun + 1)
             THEN row'.transport = "PROVISIONAL" /\ row'.structuralState = "VIABLE"
             ELSE row'.transport = "DISRUPTED" /\ row'.structuralState = "TRANSPORT_DISRUPTED"
      BY <2>5, ObserveVerdict DEF Discontinue
    <3>3. EvaluationInv'
      <4>1. CASE firstTransportEvaluable = {}
        <5>1. discontinuityRun = 0 /\ firstTransportEvaluable' = {index}
          BY <3>2, <4>1
        <5>2. row'.transport # "UNRESOLVED"
          BY <3>2
        <5>3. QED
          BY <2>0, <3>1, <3>2, <5>1, <5>2
      <4>2. CASE firstTransportEvaluable # {}
        BY <2>0, <3>1, <3>2, <4>2
      <4>3. QED
        BY <4>1, <4>2
    <3>4. InheritanceInv'
      <4>1. CASE Inherits(discontinuityRun + 1)
        <5>1. lastCoherentRegime = {"VIABLE"}
          BY <2>0, <4>1 DEF Inherits, Option
        <5>2. discontinuityRun + 1 \in 1..HysteresisGraceWindows
          BY <2>0, <4>1, RegimeAssumption DEF Inherits
        <5>3. row'.transport = "PROVISIONAL"
          BY <3>2, <4>1
        <5>4. QED
          BY <3>1, <5>1, <5>2, <5>3
      <4>2. CASE ~Inherits(discontinuityRun + 1)
        <5>1. row'.transport = "DISRUPTED" /\ firstTransportEvaluable' # {}
          BY <3>2, <4>2
        <5>2. "VIABLE" \in lastCoherentRegime => discontinuityRun + 1 > HysteresisGraceWindows
          BY <2>0, <4>2, RegimeAssumption DEF Inherits
        <5>3. QED
          BY <2>0, <3>1, <5>1, <5>2
      <4>3. QED
        BY <4>1, <4>2
    <3>5. CrystallizationInv'
      BY <3>2 DEF Inherits
    <3>6. QED
      BY <3>3, <3>4, <3>5
  <2>6. CASE UNCHANGED vars
    BY <2>6 DEF vars, Ready, TransportSupported, Support
  <2>7. QED
    BY <2>1, <2>2, <2>3, <2>4, <2>5, <2>6 DEF Next
<1>3. QED
  BY <1>1, <1>2, TypeCorrect, PTL DEF Spec

-----------------------------------------------------------------------------
(* What the invariant gives.                                               *)

(* CRYSTALLIZED is never reported before TAU_WINDOWS windows have had      *)
(* their transport evaluated, whatever the series and the windows are.     *)
THEOREM CrystallizationWaits == Spec => []NoPrematureCrystallization
<1>1. TypeOK /\ RegimeInv => NoPrematureCrystallization
  <2> SUFFICES ASSUME TypeOK, RegimeInv, row.structuralState = "CRYSTALLIZED"
               PROVE  \E f \in firstTransportEvaluable : f + TauWindows <= index
    BY DEF NoPrematureCrystallization
  <2>1. crystallizingRun >= TauWindows /\ crystallizingRun \in Nat /\ index \in Nat
    BY ScaleAssumption DEF RegimeInv, CrystallizationInv, TypeOK
  <2>2. PICK f \in firstTransportEvaluable : TRUE
    BY <2>1, RegimeAssumption DEF RegimeInv, EvaluationInv
  <2>3. f \in Nat /\ f + crystallizingRun <= index
    BY <2>2 DEF RegimeInv, EvaluationInv, TypeOK, Option
  <2>4. QED
    BY <2>1, <2>2, <2>3, RegimeAssumption
<1>2. QED
  BY <1>1, TypeCorrect, RegimeInvariant, PTL

(* What a step adds to the cumulative deficit.                             *)
LEMMA ObserveDeficit ==
  ASSUME TypeOK, NEW coherence \in Option(Coherences),
         NEW transport, NEW state, NEW active, NEW recurrent, NEW capacity,
         Observe(transport, state, active, coherence, recurrent, capacity)
  PROVE  \E d \in 0..CoherenceThreshold :
           /\ cumulativeDeficit' = cumulativeDeficit + d
           /\ d # 0 => AlertEligible(firstTransportEvaluable') /\ d \in row'.deficit
           /\ row'.alertEligible = AlertEligible(firstTransportEvaluable')
<1> DEFINE d == IF AlertEligible(FirstEvaluable(coherence))
                THEN ValueOr(Deficit(coherence), 0) ELSE 0
<1>1. /\ ValueOr(Deficit(coherence), 0) \in 0..CoherenceThreshold
      /\ Deficit(coherence) # {} => ValueOr(Deficit(coherence), 0) \in Deficit(coherence)
  BY DeficitType
<1>2. d \in 0..CoherenceThreshold
  BY <1>1, ScaleAssumption
<1>3. Deficit(coherence) = {} => ValueOr(Deficit(coherence), 0) = 0
  BY DEF ValueOr
<1>4. d # 0 => AlertEligible(FirstEvaluable(coherence)) /\ d \in Deficit(coherence)
  BY <1>1, <1>3
<1>5. /\ cumulativeDeficit' = cumulativeDeficit + d
      /\ firstTransportEvaluable' = FirstEvaluable(coherence)
      /\ row'.deficit = Deficit(coherence)
      /\ row'.alertEligible = AlertEligible(FirstEvaluable(coherence))
  BY DEF Observe
<1>6. AlertEligible(firstTransportEvaluable') = AlertEligible(FirstEvaluable(coherence))
  BY <1>5
<1> HIDE DEF d
<1>7. QED
  BY <1>2, <1>4, <1>5, <1>6

(* Every step of the observer is an observation of some coherence.         *)
LEMMA StepObserves ==
  ASSUME Next
  PROVE  \E transport, state, active, recurrent, capacity :
           \E coherence \in Option(Coherences) :
             Observe(transport, state, active, coherence, recurrent, capacity)
<1>1. {} \in Option(Coherences) /\ \A c \in Coherences : {c} \in Option(Coherences)
  BY DEF Option
<1>2. CASE GeometryPending
  BY <1>1, <1>2 DEF GeometryPending
<1>3. ASSUME NEW capacity \in Capacities, Stagnate(capacity)
      PROVE  \E transport, state, active, recurrent, cap :
               \E coherence \in Option(Coherences) :
                 Observe(transport, state, active, coherence, recurrent, cap)
  BY <1>1, <1>3 DEF Stagnate
<1>4. ASSUME NEW capacity \in Capacities, NEW recurrent \in BOOLEAN,
             LackSupport(recurrent, capacity)
      PROVE  \E transport, state, active, rec, cap :
               \E coherence \in Option(Coherences) :
                 Observe(transport, state, active, coherence, rec, cap)
  BY <1>1, <1>4 DEF LackSupport
<1>5. ASSUME NEW capacity \in Capacities, NEW recurrent \in BOOLEAN, NEW c \in Coherences,
             Cohere(c, recurrent, capacity)
      PROVE  \E transport, state, active, rec, cap :
               \E coherence \in Option(Coherences) :
                 Observe(transport, state, active, coherence, rec, cap)
  BY <1>1, <1>5 DEF Cohere
<1>6. ASSUME NEW capacity \in Capacities, NEW recurrent \in BOOLEAN, NEW c \in Coherences,
             Discontinue(c, recurrent, capacity)
      PROVE  \E transport, state, active, rec, cap :
               \E coherence \in Option(Coherences) :
                 Observe(transport, state, active, coherence, rec, cap)
  BY <1>1, <1>6 DEF Discontinue
<1>7. QED
  BY <1>2, <1>3, <1>4, <1>5, <1>6 DEF Next

(* The exposure bound is inductive together with the regime invariant: a   *)
(* window adds at most one full deficit, and only TAU_WINDOWS after the    *)
(* first evaluable one.                                                    *)
THEOREM ExposureIsBounded == Spec => []DeficitExposureBounded
<1>1. Init => DeficitExposureBounded
  BY DEF Init, DeficitExposureBounded
<1>2. TypeOK /\ RegimeInv /\ DeficitExposureBounded /\ [Next]_vars => DeficitExposureBounded'
  <2> SUFFICES ASSUME TypeOK, RegimeInv, DeficitExposureBounded, [Next]_vars
               PROVE  DeficitExposureBounded'
    OBVIOUS
  <2>1. CASE UNCHANGED vars
    BY <2>1 DEF vars, DeficitExposureBounded
  <2>2. CASE Next
    <3>1. PICK transport, state, active, recurrent, capacity :
            \E coherence \in Option(Coherences) :
              Observe(transport, state, active, coherence, recurrent, capacity)
      BY <2>2, StepObserves
    <3>2. PICK coherence \in Option(Coherences) :
            Observe(transport, state, active, coherence, recurrent, capacity)
      BY <3>1
    <3>3. PICK d \in 0..CoherenceThreshold :
            /\ cumulativeDeficit' = cumulativeDeficit + d
            /\ d # 0 => AlertEligible(firstTransportEvaluable')
      BY <3>2, ObserveDeficit
    <3>4. /\ index' = index + 1
          /\ coherence = {} => firstTransportEvaluable' = firstTransportEvaluable
          /\ firstTransportEvaluable # {} => firstTransportEvaluable' = firstTransportEvaluable
          /\ coherence # {} /\ firstTransportEvaluable = {} => firstTransportEvaluable' = {index}
      BY <3>2, ObserveVerdict
    <3>5. /\ index \in Nat /\ cumulativeDeficit \in Nat /\ CoherenceThreshold \in Nat
          /\ TauWindows \in Nat \ {0} /\ d \in Nat /\ d <= CoherenceThreshold
          /\ \A f \in firstTransportEvaluable : f \in Nat
      BY ScaleAssumption, RegimeAssumption DEF TypeOK, Option
    <3>6. d # 0 => \E f \in firstTransportEvaluable' : index >= f + TauWindows
      BY <3>3 DEF AlertEligible
    <3>7. CASE firstTransportEvaluable = {}
      <4>1. cumulativeDeficit = 0
        BY <3>7 DEF DeficitExposureBounded
      <4>2. d = 0
        BY <3>4, <3>5, <3>6, <3>7
      <4>3. QED
        <5>1. cumulativeDeficit' = 0
          BY <3>3, <4>1, <4>2
        <5>2. CASE firstTransportEvaluable' = {}
          BY <5>1, <5>2 DEF DeficitExposureBounded
        <5>3. CASE firstTransportEvaluable' = {index}
          <6>1. Greatest(0, index + 1 - (index + TauWindows)) = 0
            BY <3>5 DEF Greatest
          <6>2. CoherenceThreshold * 0 = 0
            BY <3>5
          <6>3. QED
            <7>1. Greatest(0, index' - (index + TauWindows)) = 0
              BY <3>4, <3>5 DEF Greatest
            <7>2. cumulativeDeficit' <= CoherenceThreshold * Greatest(0, index' - (index + TauWindows))
              BY <5>1, <6>2, <7>1
            <7>3. QED
              BY <5>3, <7>2 DEF DeficitExposureBounded
        <5>4. QED
          BY <3>4, <3>7, <5>2, <5>3
    <3>8. CASE firstTransportEvaluable # {}
      <4>1. PICK f \in firstTransportEvaluable : firstTransportEvaluable = {f}
        BY <3>8 DEF TypeOK, Option
      <4>2. f \in Nat /\ firstTransportEvaluable' = {f}
        BY <3>4, <3>5, <4>1
      <4>3. cumulativeDeficit <= CoherenceThreshold * Greatest(0, index - (f + TauWindows))
        BY <4>1 DEF DeficitExposureBounded
      <4>4. cumulativeDeficit + d
              <= CoherenceThreshold * Greatest(0, index + 1 - (f + TauWindows))
        <5>1. CASE index >= f + TauWindows
          <6>1. /\ Greatest(0, index - (f + TauWindows)) = index - (f + TauWindows)
                /\ Greatest(0, index + 1 - (f + TauWindows)) = index - (f + TauWindows) + 1
            BY <3>5, <4>2, <5>1 DEF Greatest
          <6>2. \A x \in Nat : CoherenceThreshold * (x + 1) = CoherenceThreshold * x + CoherenceThreshold
            BY <3>5
          <6>3. index - (f + TauWindows) \in Nat
            BY <3>5, <4>2, <5>1
          <6>4. QED
            BY <3>5, <4>3, <6>1, <6>2, <6>3
        <5>2. CASE index < f + TauWindows
          <6>1. d = 0
            BY <3>5, <3>6, <4>2, <5>2
          <6>2. /\ Greatest(0, index - (f + TauWindows)) = 0
                /\ Greatest(0, index + 1 - (f + TauWindows)) = 0
            BY <3>5, <4>2, <5>2 DEF Greatest
          <6>3. QED
            BY <3>5, <4>3, <6>1, <6>2
        <5>3. QED
          BY <3>5, <4>2, <5>1, <5>2
      <4>5. QED
        <5>1. cumulativeDeficit' = cumulativeDeficit + d /\ index' = index + 1
          BY <3>3, <3>4
        <5>2. cumulativeDeficit' <= CoherenceThreshold * Greatest(0, index' - (f + TauWindows))
          BY <3>5, <4>2, <4>4, <5>1 DEF Greatest
        <5>3. firstTransportEvaluable' # {}
          BY <4>2
        <5>4. QED
          BY <4>2, <5>2, <5>3 DEF DeficitExposureBounded
    <3>9. QED
      BY <3>7, <3>8
  <2>3. QED
    BY <2>1, <2>2
<1>3. QED
  BY <1>1, <1>2, TypeCorrect, RegimeInvariant, PTL DEF Spec

(* An eligible row lies beyond TAU_WINDOWS after the first evaluable one.  *)
AlertInv == row.alertEligible => \E f \in firstTransportEvaluable : index > f + TauWindows

(* Every observation keeps it, and becomes eligible only as AlertStep says.*)
LEMMA AlertStepHolds ==
  ASSUME TypeOK, AlertInv, Next
  PROVE  AlertStep /\ AlertInv'
<1>1. PICK transport, state, active, recurrent, capacity :
        \E coherence \in Option(Coherences) :
          Observe(transport, state, active, coherence, recurrent, capacity)
  BY StepObserves
<1>2. PICK coherence \in Option(Coherences) :
        Observe(transport, state, active, coherence, recurrent, capacity)
  BY <1>1
<1>3. PICK d \in 0..CoherenceThreshold :
        /\ cumulativeDeficit' = cumulativeDeficit + d
        /\ d # 0 => AlertEligible(firstTransportEvaluable') /\ d \in row'.deficit
        /\ row'.alertEligible = AlertEligible(firstTransportEvaluable')
  BY <1>2, ObserveDeficit
<1>4. /\ index' = index + 1
      /\ firstTransportEvaluable # {} => firstTransportEvaluable' = firstTransportEvaluable
  BY <1>2, ObserveVerdict
<1>5. /\ index \in Nat /\ cumulativeDeficit \in Nat /\ TauWindows \in Nat
      /\ \A f \in firstTransportEvaluable : f \in Nat
      /\ \A f \in firstTransportEvaluable' : f \in Nat
  <2>1. firstTransportEvaluable' \in Option(0..MaxIndex) \/ firstTransportEvaluable' = {index}
    BY <1>2 DEF Observe, FirstEvaluable, TypeOK
  <2>2. QED
    BY <2>1, ScaleAssumption, RegimeAssumption DEF TypeOK, Option
<1>6. row.alertEligible => row'.alertEligible
  BY <1>3, <1>4, <1>5 DEF AlertInv, AlertEligible
<1>7. cumulativeDeficit' # cumulativeDeficit => d # 0
  BY <1>3, <1>5
<1>8. AlertStep
  BY <1>3, <1>6, <1>7 DEF AlertStep
<1>9. AlertInv'
  <2>1. ASSUME row'.alertEligible
        PROVE  \E f \in firstTransportEvaluable' : index' > f + TauWindows
    <3>1. PICK f \in firstTransportEvaluable' : index >= f + TauWindows
      BY <1>3, <2>1 DEF AlertEligible
    <3>2. index' > f + TauWindows
      BY <1>4, <1>5, <3>1
    <3>3. QED
      BY <3>1, <3>2
  <2>2. QED
    BY <2>1 DEF AlertInv
<1>10. QED
  BY <1>8, <1>9

(* Eligibility, once reached, is kept, and the cumulative deficit moves    *)
(* only in eligible windows, by exactly the published deficit.             *)
THEOREM AlertIsAccounted == Spec => AlertAccounting
<1>1. Init => AlertInv
  BY DEF Init, AlertInv
<1>2. TypeOK /\ AlertInv /\ [Next]_vars => AlertInv' /\ [AlertStep]_vars
  BY AlertStepHolds DEF vars, AlertInv
<1>3. QED
  BY <1>1, <1>2, TypeCorrect, PTL DEF Spec, AlertAccounting

-----------------------------------------------------------------------------
(* The observer implements the transport promise.                          *)

(* The mapped phase of an observation.                                     *)
LEMMA PhaseOf ==
  /\ row.transport = "COHERENT" /\ row.structuralState = "VIABLE" => Phase = "VIABLE"
  /\ row.transport = "COHERENT" /\ row.structuralState # "VIABLE" => Phase = "ORGANIZED"
  /\ row.transport # "COHERENT" => Phase = row.transport
BY DEF Phase

(* Every D_O step is a step, or a stutter, of the promise: GeometryPending *)
(* and LackSupport wait, Stagnate quiesces, Cohere settles, Discontinue    *)
(* inherits or disrupts.                                                   *)
THEOREM TransportPromiseKept == Spec => KeepsTransportPromise
<1>1. Init => Promise!Init
  BY PhaseOf DEF Init, Promise!Init
<1>2. TypeOK /\ RegimeInv /\ [Next]_vars => [Promise!Next]_(Promise!vars)
  <2> SUFFICES ASSUME TypeOK, RegimeInv, [Next]_vars PROVE [Promise!Next]_(Promise!vars)
    OBVIOUS
  <2> DEFINE Inherited == IF row.transport = "PROVISIONAL" THEN discontinuityRun ELSE 0
             Evaluated == firstTransportEvaluable # {}
  <2>0. /\ index \in Nat /\ discontinuityRun \in Nat
        /\ firstTransportEvaluable \in Option(0..MaxIndex)
        /\ \A f \in firstTransportEvaluable : f \in Nat
        /\ lastCoherentRegime \in Option(Regimes)
    BY ScaleAssumption DEF TypeOK, Option
  <2>1. CASE GeometryPending
    <3>1. firstTransportEvaluable = {}
      <4> SUFFICES ASSUME NEW f \in firstTransportEvaluable PROVE FALSE
        OBVIOUS
      <4> QED
        BY <2>0, <2>1, EvaluabilityPersists DEF GeometryPending, RegimeInv, EvaluationInv
    <3>2. row'.transport = "UNRESOLVED" /\ firstTransportEvaluable' = {}
      BY <2>1, <3>1, ObserveVerdict DEF GeometryPending
    <3>3. Phase' = "UNRESOLVED"
      BY <3>2 DEF Phase
    <3>4. Promise!Wait
      BY <3>1, <3>2, <3>3 DEF Promise!Wait
    <3>5. QED
      BY <3>4 DEF Promise!Next
  <2>2. ASSUME NEW capacity \in Capacities, Stagnate(capacity)
        PROVE  [Promise!Next]_(Promise!vars)
    <3>1. row'.transport = "INACTIVE" /\ firstTransportEvaluable' = firstTransportEvaluable
      BY <2>2, ObserveVerdict DEF Stagnate
    <3>2. Phase' = "INACTIVE"
      BY <3>1 DEF Phase
    <3>3. Promise!Quiesce
      BY <3>1, <3>2 DEF Promise!Quiesce
    <3>4. QED
      BY <3>3 DEF Promise!Next
  <2>3. ASSUME NEW capacity \in Capacities, NEW recurrent \in BOOLEAN,
               LackSupport(recurrent, capacity)
        PROVE  [Promise!Next]_(Promise!vars)
    <3>1. firstTransportEvaluable = {}
      <4> SUFFICES ASSUME NEW f \in firstTransportEvaluable PROVE FALSE
        OBVIOUS
      <4> QED
        BY <2>0, <2>3, EvaluabilityPersists DEF LackSupport, RegimeInv, EvaluationInv
    <3>2. row'.transport = "UNRESOLVED" /\ firstTransportEvaluable' = {}
      BY <2>3, <3>1, ObserveVerdict DEF LackSupport
    <3>3. Phase' = "UNRESOLVED"
      BY <3>2 DEF Phase
    <3>4. Promise!Wait
      BY <3>1, <3>2, <3>3 DEF Promise!Wait
    <3>5. QED
      BY <3>4 DEF Promise!Next
  <2>4. ASSUME NEW capacity \in Capacities, NEW recurrent \in BOOLEAN, NEW c \in Coherences,
               Cohere(c, recurrent, capacity)
        PROVE  [Promise!Next]_(Promise!vars)
    <3>1. PICK regime : Observe("COHERENT", regime, TRUE, {c}, recurrent, capacity)
      BY <2>4 DEF Cohere
    <3>2. /\ row'.transport = "COHERENT"
          /\ firstTransportEvaluable' # {}
      BY <3>1, ObserveVerdict
    <3>3. Phase' \in {"VIABLE", "ORGANIZED"}
      BY <3>2 DEF Phase
    <3>4. Promise!Settle
      BY <3>2, <3>3 DEF Promise!Settle
    <3>5. QED
      BY <3>4 DEF Promise!Next
  <2>5. ASSUME NEW capacity \in Capacities, NEW recurrent \in BOOLEAN, NEW c \in Coherences,
               Discontinue(c, recurrent, capacity)
        PROVE  [Promise!Next]_(Promise!vars)
    <3>1. discontinuityRun' = discontinuityRun + 1
      BY <2>5 DEF Discontinue
    <3>2. CASE Inherits(discontinuityRun + 1)
      <4>1. row'.transport = "PROVISIONAL" /\ firstTransportEvaluable' # {}
        BY <2>5, <3>2, ObserveVerdict DEF Discontinue
      <4>2. Phase' = "PROVISIONAL"
        BY <4>1 DEF Phase
      <4>3. lastCoherentRegime = {"VIABLE"} /\ discontinuityRun + 1 <= HysteresisGraceWindows
        BY <2>0, <3>2 DEF Inherits, Option
      <4>4. \/ row.transport = "COHERENT" /\ row.structuralState = "VIABLE" /\ discontinuityRun = 0
            \/ row.transport = "PROVISIONAL"
        <5>1. row.transport \in {"UNRESOLVED", "INACTIVE", "COHERENT", "PROVISIONAL", "DISRUPTED"}
          BY DEF TypeOK, Observations
        <5>2. row.transport \notin {"UNRESOLVED", "INACTIVE"}
          BY <4>3 DEF RegimeInv, InheritanceInv
        <5>3. row.transport # "DISRUPTED"
          BY <2>0, <4>3, RegimeAssumption DEF RegimeInv, InheritanceInv
        <5>4. row.transport = "COHERENT" =>
                row.structuralState = "VIABLE" /\ discontinuityRun = 0
          BY <4>3 DEF RegimeInv, InheritanceInv
        <5>5. QED
          BY <5>1, <5>2, <5>3, <5>4
      <4>5. firstTransportEvaluable # {}
        BY <4>4 DEF RegimeInv, EvaluationInv
      <4>6. Promise!MayInherit
        BY <2>0, <4>3, <4>4, PhaseOf, RegimeAssumption DEF Promise!MayInherit
      <4>7. Inherited' = Inherited + 1
        BY <2>0, <3>1, <4>1, <4>4
      <4>8. Promise!Inherit
        BY <4>1, <4>2, <4>5, <4>6, <4>7 DEF Promise!Inherit
      <4>9. QED
        BY <4>8 DEF Promise!Next
    <3>3. CASE ~Inherits(discontinuityRun + 1)
      <4>1. row'.transport = "DISRUPTED" /\ firstTransportEvaluable' # {}
        BY <2>5, <3>3, ObserveVerdict DEF Discontinue
      <4>2. Phase' = "DISRUPTED"
        BY <4>1 DEF Phase
      <4>3. ~Promise!MayInherit
        <5>1. ASSUME Phase = "VIABLE", HysteresisGraceWindows > 0 PROVE FALSE
          <6>1. row.transport = "COHERENT" /\ row.structuralState = "VIABLE"
            BY <5>1, PhaseOf DEF TypeOK, Observations
          <6>2. lastCoherentRegime = {"VIABLE"} /\ discontinuityRun = 0
            BY <6>1 DEF RegimeInv, InheritanceInv
          <6>3. QED
            BY <3>3, <5>1, <6>2, RegimeAssumption DEF Inherits
        <5>2. ASSUME Phase = "PROVISIONAL", Inherited < HysteresisGraceWindows PROVE FALSE
          <6>1. row.transport = "PROVISIONAL"
            BY <5>2, PhaseOf
          <6>2. lastCoherentRegime = {"VIABLE"} /\ Inherited = discontinuityRun
            BY <6>1 DEF RegimeInv, InheritanceInv
          <6>3. QED
            BY <2>0, <3>3, <5>2, <6>2, RegimeAssumption DEF Inherits
        <5>3. QED
          BY <5>1, <5>2 DEF Promise!MayInherit
      <4>4. Promise!Disrupt
        BY <4>1, <4>2, <4>3 DEF Promise!Disrupt
      <4>5. QED
        BY <4>4 DEF Promise!Next
    <3>4. QED
      BY <3>2, <3>3
  <2>6. CASE UNCHANGED vars
    BY <2>6 DEF vars, Promise!vars, Phase
  <2>7. QED
    BY <2>1, <2>2, <2>3, <2>4, <2>5, <2>6 DEF Next
<1>3. QED
  BY <1>1, <1>2, TypeCorrect, RegimeInvariant, PTL DEF Spec, KeepsTransportPromise, Promise!Spec

-----------------------------------------------------------------------------
(* What a reader of the published rows may conclude.                       *)

(* The observer with its recorded rows is the observer.                    *)
LEMMA HistoryObserves == MCSpec => Spec
<1>1. MCInit => Init
  BY DEF MCInit
<1>2. [MCNext]_<<vars, recent>> => [Next]_vars
  BY DEF MCNext
<1>3. QED
  BY <1>1, <1>2, PTL DEF MCSpec, Spec

-----------------------------------------------------------------------------
(* Runs at the end of a trailing window.                                   *)

(* The latest n of len rows are hits and the one before them is not.       *)
LatestRun(n, hits, len) ==
  /\ \A k \in 1..len : k > len - n => k \in hits
  /\ n < len => len - n \notin hits

(* A hit extends the run, a miss ends it, also when the oldest row is      *)
(* pushed out.                                                             *)
LEMMA RunPushed ==
  ASSUME NEW len \in Nat, NEW len2 \in {len, len + 1}, len2 > 0,
         NEW hits, NEW hits2, NEW n \in Nat, LatestRun(n, hits, len),
         \A k \in 1..(len2 - 1) : (len2 - k) \in hits2 <=> (len + 1 - k) \in hits
  PROVE  /\ len2 \in hits2 => LatestRun(n + 1, hits2, len2)
         /\ len2 \notin hits2 => LatestRun(0, hits2, len2)
<1>1. ASSUME len2 \in hits2 PROVE LatestRun(n + 1, hits2, len2)
  <2>1. ASSUME NEW i \in 1..len2, i > len2 - (n + 1) PROVE i \in hits2
    <3>1. CASE i = len2
      BY <1>1, <3>1
    <3>2. CASE i # len2
      <4> DEFINE k == len2 - i
      <4>1. k \in 1..(len2 - 1) /\ len2 - k = i
        BY <3>2
      <4>2. len + 1 - k \in 1..len /\ len + 1 - k > len - n
        BY <2>1, <3>2
      <4>3. QED
        BY <4>1, <4>2 DEF LatestRun
    <3>3. QED
      BY <3>1, <3>2
  <2>2. ASSUME n + 1 < len2 PROVE len2 - (n + 1) \notin hits2
    <3>1. n + 1 \in 1..(len2 - 1) /\ n < len /\ len + 1 - (n + 1) = len - n
      BY <2>2
    <3>2. QED
      BY <3>1 DEF LatestRun
  <2>3. QED
    BY <2>1, <2>2 DEF LatestRun
<1>2. ASSUME len2 \notin hits2 PROVE LatestRun(0, hits2, len2)
  BY <1>2 DEF LatestRun
<1>3. QED
  BY <1>1, <1>2

(* A run of at least t shows in the latest t rows, if so many are kept.    *)
LEMMA RunShows ==
  ASSUME NEW len \in Nat, NEW hits, NEW n \in Nat, LatestRun(n, hits, len),
         NEW t \in Nat \ {0}, n >= t => len >= t
  PROVE  n >= t <=> len >= t /\ \A k \in (len - t + 1)..len : k \in hits
<1>1. ASSUME n >= t PROVE len >= t /\ \A k \in (len - t + 1)..len : k \in hits
  BY <1>1 DEF LatestRun
<1>2. ASSUME len >= t, n < t PROVE \E k \in (len - t + 1)..len : k \notin hits
  <2>1. len - n \in (len - t + 1)..len /\ len - n \notin hits
    BY <1>2 DEF LatestRun
  <2>2. QED
    BY <2>1
<1>3. QED
  BY <1>1, <1>2

-----------------------------------------------------------------------------
(* What one window does to the runs and to its row.                        *)

(* The parts of a row that the runs and the diagnostics are about.         *)
LEMMA ObserveRow ==
  ASSUME NEW transport, NEW state, NEW active \in BOOLEAN, NEW coherence,
         NEW recurrent \in BOOLEAN, NEW capacity,
         Observe(transport, state, active, coherence, recurrent, capacity)
  PROVE  /\ row'.transport = transport /\ row'.structuralState = state
         /\ row'.deficit = Deficit(coherence)
         /\ row'.recurrence = "RECURRENT" <=> Ready(index) /\ active /\ recurrent
         /\ row'.contraction = "CONTRACTING" <=>
              /\ Ready(index) /\ capacity # {}
              /\ Contracting(capacity, Push(capacities, capacity, VariationReferenceWindow))
         /\ "PERSISTENT_TRANSPORT_DISRUPTION" \in row'.diagnostics <=>
              transport = "DISRUPTED" /\ Persistent(discontinuityRun')
         /\ "HYSTERESIS_INHERITANCE" \in row'.diagnostics => transport = "PROVISIONAL"
         /\ "TRANSPORT_DISRUPTION" \in row'.diagnostics => transport # "PROVISIONAL"
<1>1. /\ row'.transport = transport /\ row'.structuralState = state
      /\ row'.deficit = Deficit(coherence)
      /\ row'.recurrence = "RECURRENT" <=> Ready(index) /\ active /\ recurrent
      /\ row'.contraction = "CONTRACTING" <=>
           /\ Ready(index) /\ capacity # {}
           /\ Contracting(capacity, Push(capacities, capacity, VariationReferenceWindow))
  BY DEF Observe
<1>2. row'.diagnostics = {d \in DiagnosticNames :
                            Diagnosed(d, active, coherence, recurrent, transport,
                                      discontinuityRun')}
  BY DEF Observe
<1>3. /\ "PERSISTENT_TRANSPORT_DISRUPTION" \in row'.diagnostics <=>
           transport = "DISRUPTED" /\ Persistent(discontinuityRun')
      /\ "HYSTERESIS_INHERITANCE" \in row'.diagnostics => transport = "PROVISIONAL"
      /\ "TRANSPORT_DISRUPTION" \in row'.diagnostics => transport # "PROVISIONAL"
  BY <1>2 DEF DiagnosticNames, Diagnosed
<1>4. QED
  BY <1>1, <1>3

(* A deficit is positive exactly below the threshold.                      *)
LEMMA DeficitPositive ==
  ASSUME NEW c \in Coherences
  PROVE  (\E d \in Deficit({c}) : d > 0) <=> c < CoherenceThreshold
BY ScaleAssumption DEF Deficit, Coherences, Greatest

(* What the runs count, and what a row shows of them.                      *)
RunsCount ==
  /\ crystallizingRun' = IF Predicate(row') THEN crystallizingRun + 1 ELSE 0
  /\ discontinuityRun' = IF Discontinuous(row') THEN discontinuityRun + 1 ELSE 0

ShownInv ==
  /\ row.structuralState = "CRYSTALLIZED" <=> crystallizingRun >= TauWindows
  /\ "PERSISTENT_TRANSPORT_DISRUPTION" \in row.diagnostics
       <=> discontinuityRun > HysteresisGraceWindows
  /\ "HYSTERESIS_INHERITANCE" \in row.diagnostics =>
       row.diagnostics \cap {"TRANSPORT_DISRUPTION", "PERSISTENT_TRANSPORT_DISRUPTION"} = {}

(* A window without a coherence ends both runs.                            *)
LEMMA UnevaluatedRow ==
  ASSUME TypeOK, NEW transport \in {"UNRESOLVED", "INACTIVE"},
         NEW state \in {"TRANSPORT_UNRESOLVED", "STAGNANT"}, NEW active \in BOOLEAN,
         NEW recurrent \in BOOLEAN, NEW capacity,
         Observe(transport, state, active, {}, recurrent, capacity),
         discontinuityRun' = 0, crystallizingRun' = 0
  PROVE  RunsCount /\ ShownInv'
<1>1. row'.transport = transport /\ row'.structuralState = state /\ row'.deficit = {}
  BY ObserveRow DEF Deficit
<1>2. ~Predicate(row') /\ ~Discontinuous(row')
  BY <1>1 DEF Predicate, Discontinuous
<1>3. /\ "PERSISTENT_TRANSPORT_DISRUPTION" \notin row'.diagnostics
      /\ "HYSTERESIS_INHERITANCE" \notin row'.diagnostics
  BY ObserveRow
<1>4. QED
  BY <1>1, <1>2, <1>3, RegimeAssumption DEF RunsCount, ShownInv

(* Every window extends a run that its row shows it belongs to, and ends   *)
(* the others.                                                             *)
LEMMA StepRuns ==
  ASSUME TypeOK, Next
  PROVE  RunsCount /\ ShownInv'
<1>1. CASE GeometryPending
  BY <1>1, UnevaluatedRow DEF GeometryPending
<1>2. ASSUME NEW capacity \in Capacities, Stagnate(capacity)
      PROVE  RunsCount /\ ShownInv'
  BY <1>2, UnevaluatedRow DEF Stagnate
<1>3. ASSUME NEW capacity \in Capacities, NEW recurrent \in BOOLEAN,
             LackSupport(recurrent, capacity)
      PROVE  RunsCount /\ ShownInv'
  BY <1>3, UnevaluatedRow DEF LackSupport
<1>4. ASSUME NEW capacity \in Capacities, NEW recurrent \in BOOLEAN, NEW c \in Coherences,
             Cohere(c, recurrent, capacity)
      PROVE  RunsCount /\ ShownInv'
  <2> DEFINE contracting ==
               Contracting(capacity, Push(capacities, capacity, VariationReferenceWindow))
             run    == IF recurrent /\ contracting THEN crystallizingRun + 1 ELSE 0
             regime == Regime(recurrent /\ contracting, recurrent, run)
  <2>1. /\ Ready(index) /\ c >= CoherenceThreshold
        /\ discontinuityRun' = 0 /\ crystallizingRun' = run
        /\ Observe("COHERENT", regime, TRUE, {c}, recurrent, capacity)
    BY <1>4 DEF Cohere
  <2>2. contracting \in BOOLEAN /\ (contracting => capacity # {})
    BY DEF Contracting
  <2> HIDE DEF contracting
  <2>3. run \in Nat /\ (run >= TauWindows => recurrent /\ contracting)
    BY RegimeAssumption DEF TypeOK
  <2>4. regime = "CRYSTALLIZED" <=> run >= TauWindows
    BY <2>2, <2>3, RegimeAssumption DEF Regime
  <2> HIDE DEF run, regime
  <2>5. /\ row'.transport = "COHERENT" /\ row'.structuralState = regime
        /\ row'.deficit = Deficit({c})
        /\ row'.recurrence = "RECURRENT" <=> recurrent
        /\ row'.contraction = "CONTRACTING" <=> contracting
        /\ "PERSISTENT_TRANSPORT_DISRUPTION" \notin row'.diagnostics
        /\ "HYSTERESIS_INHERITANCE" \notin row'.diagnostics
    <3>1. /\ row'.transport = "COHERENT" /\ row'.structuralState = regime
          /\ row'.deficit = Deficit({c})
      BY <2>1 DEF Observe
    <3>2. /\ "PERSISTENT_TRANSPORT_DISRUPTION" \notin row'.diagnostics
          /\ "HYSTERESIS_INHERITANCE" \notin row'.diagnostics
      <4>1. row'.diagnostics = {d \in DiagnosticNames :
                                  Diagnosed(d, TRUE, {c}, recurrent, "COHERENT",
                                            discontinuityRun')}
        BY <2>1 DEF Observe
      <4>2. QED
        BY <4>1 DEF Diagnosed
    <3>3. row'.recurrence = "RECURRENT" <=> recurrent
      BY <2>1 DEF Observe
    <3>4. row'.contraction = "CONTRACTING" <=> contracting
      BY <2>1, <2>2 DEF Observe, contracting
    <3>5. QED
      BY <3>1, <3>2, <3>3, <3>4
  <2>6. Predicate(row') <=> recurrent /\ contracting
    BY <2>5 DEF Predicate
  <2>7. ~Discontinuous(row')
    BY <2>1, <2>5, DeficitPositive, ScaleAssumption DEF Discontinuous, Coherences
  <2>8. RunsCount
    BY <2>1, <2>6, <2>7 DEF RunsCount, run
  <2>9. ShownInv'
    BY <2>1, <2>4, <2>5, RegimeAssumption DEF ShownInv
  <2>10. QED
    BY <2>8, <2>9
<1>5. ASSUME NEW capacity \in Capacities, NEW recurrent \in BOOLEAN, NEW c \in Coherences,
             Discontinue(c, recurrent, capacity)
      PROVE  RunsCount /\ ShownInv'
  <2>1. /\ c < CoherenceThreshold
        /\ discontinuityRun' = discontinuityRun + 1 /\ crystallizingRun' = 0
    BY <1>5 DEF Discontinue
  <2>2. PICK transport, state :
          /\ Observe(transport, state, TRUE, {c}, recurrent, capacity)
          /\ \/ /\ transport = "PROVISIONAL" /\ state = "VIABLE"
                /\ Inherits(discontinuityRun + 1)
             \/ /\ transport = "DISRUPTED" /\ state = "TRANSPORT_DISRUPTED"
                /\ ~Inherits(discontinuityRun + 1)
    BY <1>5 DEF Discontinue
  <2>3. /\ row'.transport = transport /\ row'.structuralState = state
        /\ row'.deficit = Deficit({c})
        /\ "PERSISTENT_TRANSPORT_DISRUPTION" \in row'.diagnostics
             <=> transport = "DISRUPTED" /\ Persistent(discontinuityRun')
        /\ "HYSTERESIS_INHERITANCE" \in row'.diagnostics => transport = "PROVISIONAL"
        /\ "TRANSPORT_DISRUPTION" \in row'.diagnostics => transport # "PROVISIONAL"
    BY <2>2, ObserveRow
  <2>4. Discontinuous(row') /\ ~Predicate(row')
    BY <2>1, <2>2, <2>3, DeficitPositive DEF Discontinuous, Predicate
  <2>5. transport = "PROVISIONAL" => ~Persistent(discontinuityRun')
    BY <2>1, <2>2, RegimeAssumption DEF Inherits, Persistent, TypeOK
  <2>6. Persistent(discontinuityRun') => transport = "DISRUPTED"
    BY <2>2, <2>5
  <2>7. RunsCount
    BY <2>1, <2>4 DEF RunsCount
  <2>8. ShownInv'
    <3>1. row'.structuralState # "CRYSTALLIZED" /\ ~(crystallizingRun' >= TauWindows)
      BY <2>1, <2>2, <2>3, RegimeAssumption
    <3>2. "PERSISTENT_TRANSPORT_DISRUPTION" \in row'.diagnostics
            <=> discontinuityRun' > HysteresisGraceWindows
      BY <2>3, <2>6 DEF Persistent
    <3>3. "HYSTERESIS_INHERITANCE" \in row'.diagnostics =>
            /\ "TRANSPORT_DISRUPTION" \notin row'.diagnostics
            /\ "PERSISTENT_TRANSPORT_DISRUPTION" \notin row'.diagnostics
      BY <2>3
    <3>4. QED
      BY <3>1, <3>2, <3>3 DEF ShownInv
  <2>9. QED
    BY <2>7, <2>8
<1>6. QED
  BY <1>1, <1>2, <1>3, <1>4, <1>5 DEF Next

-----------------------------------------------------------------------------
(* The recorded rows end in the runs the observer counts: no run is longer *)
(* than the rows show, and none is cut short.                              *)
Hits(r) == [crystallizing |-> {k \in DOMAIN r : Predicate(r[k])},
            discontinuous |-> {k \in DOMAIN r : Discontinuous(r[k])}]

HistoryInv ==
  /\ recent \in Seq(Observations) /\ Len(recent) = Least(index, Horizon)
  /\ LatestRun(crystallizingRun, Hits(recent).crystallizing, Len(recent))
  /\ LatestRun(discontinuityRun, Hits(recent).discontinuous, Len(recent))
  /\ ShownInv

(* The horizon keeps all the rows the two diagnostics speak of.            *)
LEMMA HorizonSuffices ==
  Horizon \in Nat \ {0} /\ Horizon >= TauWindows /\ Horizon >= HysteresisGraceWindows + 1
BY RegimeAssumption DEF Horizon, Greatest

(* What the last rows show of each run, and that the counters count them.  *)
LEMMA HistoryInvariant == MCSpec => []HistoryInv
<1>1. MCInit => HistoryInv
  <2> SUFFICES ASSUME MCInit PROVE HistoryInv
    OBVIOUS
  <2>1. recent = << >> /\ index = 0 /\ crystallizingRun = 0 /\ discontinuityRun = 0
    BY DEF MCInit, Init
  <2>2. ShownInv
    BY RegimeAssumption DEF MCInit, Init, ShownInv
  <2>3. recent \in Seq(Observations) /\ Len(recent) = Least(index, Horizon)
    BY <2>1, HorizonSuffices DEF Least
  <2>4. QED
    BY <2>1, <2>2, <2>3 DEF HistoryInv, LatestRun
<1>2. TypeOK /\ TypeOK' /\ HistoryInv /\ [MCNext]_<<vars, recent>> => HistoryInv'
  <2> SUFFICES ASSUME TypeOK, TypeOK', HistoryInv, [MCNext]_<<vars, recent>>
               PROVE  HistoryInv'
    OBVIOUS
  <2>1. CASE UNCHANGED <<vars, recent>>
    <3>1. ShownInv'
      BY <2>1 DEF vars, HistoryInv, ShownInv
    <3>2. recent' = recent /\ index' = index /\ crystallizingRun' = crystallizingRun
          /\ discontinuityRun' = discontinuityRun
      BY <2>1 DEF vars
    <3>3. QED
      BY <3>1, <3>2 DEF HistoryInv
  <2>2. CASE MCNext
    <3> DEFINE len == Len(recent)
               len2 == Len(recent')
    <3>1. RunsCount /\ ShownInv' /\ index' = index + 1
      <4>1. index' = index + 1
        BY <2>2, StepObserves DEF MCNext, Observe
      <4>2. QED
        BY <2>2, <4>1, StepRuns DEF MCNext
    <3>2. recent \in Seq(Observations) /\ len \in Nat /\ len = Least(index, Horizon)
          /\ len <= Horizon /\ index \in Nat
      BY HorizonSuffices, ScaleAssumption DEF HistoryInv, TypeOK, Least
    <3>3. row' \in Observations /\ recent' = Push(recent, row', Horizon)
      BY <2>2 DEF MCNext, TypeOK
    <3>4. recent' \in Seq(Observations)
      BY <3>2, <3>3, HorizonSuffices, PushType
    <3>5. /\ len2 = Least(len + 1, Horizon) /\ recent'[len2] = row'
          /\ \A k \in 1..(len2 - 1) : recent'[len2 - k] = recent[len + 1 - k]
      BY <3>2, <3>3, HorizonSuffices, PushEntries
    <3>6. len2 \in {len, len + 1} /\ len2 > 0 /\ len2 = Least(index', Horizon)
      BY <3>1, <3>2, <3>5, HorizonSuffices DEF Least
    <3>7. /\ len2 \in DOMAIN recent'
          /\ \A k \in 1..(len2 - 1) : len2 - k \in DOMAIN recent' /\ len + 1 - k \in DOMAIN recent
      BY <3>2, <3>4, <3>6
    <3> HIDE DEF len, len2
    <3>8. LatestRun(crystallizingRun', Hits(recent').crystallizing, len2)
      <4> DEFINE hits  == Hits(recent).crystallizing
                 hits2 == Hits(recent').crystallizing
      <4>1. \A k \in 1..(len2 - 1) : (len2 - k) \in hits2 <=> (len + 1 - k) \in hits
        BY <3>5, <3>7 DEF Hits
      <4>2. len2 \in hits2 <=> Predicate(row')
        BY <3>5, <3>7 DEF Hits
      <4>3. LatestRun(crystallizingRun, hits, len) /\ crystallizingRun \in Nat
        BY DEF HistoryInv, TypeOK, len
      <4> HIDE DEF hits, hits2
      <4>4. /\ len2 \in hits2 => LatestRun(crystallizingRun + 1, hits2, len2)
            /\ len2 \notin hits2 => LatestRun(0, hits2, len2)
        BY <3>2, <3>6, <4>1, <4>3, RunPushed
      <4>5. QED
        BY <3>1, <4>2, <4>4 DEF RunsCount, hits2
    <3>9. LatestRun(discontinuityRun', Hits(recent').discontinuous, len2)
      <4> DEFINE hits  == Hits(recent).discontinuous
                 hits2 == Hits(recent').discontinuous
      <4>1. \A k \in 1..(len2 - 1) : (len2 - k) \in hits2 <=> (len + 1 - k) \in hits
        BY <3>5, <3>7 DEF Hits
      <4>2. len2 \in hits2 <=> Discontinuous(row')
        BY <3>5, <3>7 DEF Hits
      <4>3. LatestRun(discontinuityRun, hits, len) /\ discontinuityRun \in Nat
        BY DEF HistoryInv, TypeOK, len
      <4> HIDE DEF hits, hits2
      <4>4. /\ len2 \in hits2 => LatestRun(discontinuityRun + 1, hits2, len2)
            /\ len2 \notin hits2 => LatestRun(0, hits2, len2)
        BY <3>2, <3>6, <4>1, <4>3, RunPushed
      <4>5. QED
        BY <3>1, <4>2, <4>4 DEF RunsCount, hits2
    <3>10. QED
      BY <3>1, <3>4, <3>6, <3>8, <3>9 DEF HistoryInv, len2
  <2>3. QED
    BY <2>1, <2>2
<1>3. MCSpec => []TypeOK
  BY HistoryObserves, TypeCorrect, PTL
<1>4. QED
  BY <1>1, <1>2, <1>3, PTL DEF MCSpec

(* CRYSTALLIZED is published exactly when each of the last TAU_WINDOWS     *)
(* published rows is coherent, recurrent and contracting.                  *)
THEOREM CrystallizedIsExact == MCSpec => []CrystallizedExactly
<1>1. TypeOK /\ HistoryInv => CrystallizedExactly
  <2> SUFFICES ASSUME TypeOK, HistoryInv PROVE CrystallizedExactly
    OBVIOUS
  <2> DEFINE hits == Hits(recent).crystallizing
  <2>1. /\ Len(recent) \in Nat /\ DOMAIN recent = 1..Len(recent)
        /\ crystallizingRun \in Nat /\ LatestRun(crystallizingRun, hits, Len(recent))
    BY DEF HistoryInv, TypeOK
  <2>2. crystallizingRun >= TauWindows => Len(recent) >= TauWindows
    BY HorizonSuffices, RegimeAssumption, ScaleAssumption DEF HistoryInv, TypeOK, Least
  <2>3. \A k \in DOMAIN recent : k \in hits <=> Predicate(recent[k])
    BY DEF Hits
  <2> HIDE DEF hits
  <2>4. crystallizingRun >= TauWindows <=>
          /\ Len(recent) >= TauWindows
          /\ \A k \in (Len(recent) - TauWindows + 1)..Len(recent) : k \in hits
    BY <2>1, <2>2, RunShows, RegimeAssumption
  <2>5. Len(recent) >= TauWindows =>
          \A k \in (Len(recent) - TauWindows + 1)..Len(recent) : k \in DOMAIN recent
    BY <2>1, RegimeAssumption
  <2>6. QED
    BY <2>3, <2>4, <2>5 DEF HistoryInv, ShownInv, CrystallizedExactly, LatestAll
<1>2. MCSpec => []TypeOK
  BY HistoryObserves, TypeCorrect, PTL
<1>3. QED
  BY <1>1, <1>2, HistoryInvariant, PTL

(* The persistence diagnostic is published exactly when more than the      *)
(* grace windows in a row were discontinuous, and never with inheritance.  *)
THEOREM DisruptionIsDiagnosed == MCSpec => []DisruptionDiagnosed
<1>1. TypeOK /\ HistoryInv => DisruptionDiagnosed
  <2> SUFFICES ASSUME TypeOK, HistoryInv PROVE DisruptionDiagnosed
    OBVIOUS
  <2> DEFINE hits == Hits(recent).discontinuous
             t    == HysteresisGraceWindows + 1
  <2>1. /\ Len(recent) \in Nat /\ DOMAIN recent = 1..Len(recent)
        /\ discontinuityRun \in Nat /\ LatestRun(discontinuityRun, hits, Len(recent))
        /\ t \in Nat \ {0}
    BY RegimeAssumption DEF HistoryInv, TypeOK
  <2>2. discontinuityRun >= t => Len(recent) >= t
    BY HorizonSuffices, RegimeAssumption, ScaleAssumption DEF HistoryInv, TypeOK, Least
  <2>3. \A k \in DOMAIN recent : k \in hits <=> Discontinuous(recent[k])
    BY DEF Hits
  <2>4. discontinuityRun > HysteresisGraceWindows <=> discontinuityRun >= t
    BY <2>1, RegimeAssumption
  <2> HIDE DEF hits, t
  <2>5. discontinuityRun >= t <=>
          /\ Len(recent) >= t
          /\ \A k \in (Len(recent) - t + 1)..Len(recent) : k \in hits
    BY <2>1, <2>2, RunShows
  <2>6. Len(recent) >= t => \A k \in (Len(recent) - t + 1)..Len(recent) : k \in DOMAIN recent
    BY <2>1
  <2>7. QED
    BY <2>3, <2>4, <2>5, <2>6 DEF HistoryInv, ShownInv, DisruptionDiagnosed, LatestAll, t
<1>2. MCSpec => []TypeOK
  BY HistoryObserves, TypeCorrect, PTL
<1>3. QED
  BY <1>1, <1>2, HistoryInvariant, PTL

-----------------------------------------------------------------------------
(* Crystallization feeds on a falling capacity.                            *)

(* Multiplication by a natural number is monotone.                         *)
LEMMA TimesMonotone ==
  ASSUME NEW a \in Nat, NEW b \in Nat, NEW w \in Nat, a <= b
  PROVE  a * w <= b * w /\ a * w \in Nat /\ b * w \in Nat
<1>1. PICK d \in Nat : b = a + d
  <2>1. b - a \in Nat /\ b = a + (b - a)
    OBVIOUS
  <2>2. QED
    BY <2>1
<1>2. (a + d) * w = a * w + d * w /\ a * w \in Nat /\ d * w \in Nat
  OBVIOUS
<1>3. QED
  BY <1>1, <1>2

(* A window either ends the run or contracts against the trailing peak.    *)
LEMMA CapacityStep ==
  ASSUME TypeOK, Next
  PROVE  \E capacity \in Capacities :
           /\ capacities' = Push(capacities, capacity, VariationReferenceWindow)
           /\ \/ crystallizingRun' = 0
              \/ /\ crystallizingRun' = crystallizingRun + 1
                 /\ Contracting(capacity, capacities')
<1>1. CASE GeometryPending
  <2>1. {} \in Capacities
    BY DEF Capacities, Option
  <2>2. QED
    BY <1>1, <2>1 DEF GeometryPending, Observe
<1>2. ASSUME NEW capacity \in Capacities, Stagnate(capacity)
      PROVE  /\ capacities' = Push(capacities, capacity, VariationReferenceWindow)
             /\ crystallizingRun' = 0
  BY <1>2 DEF Stagnate, Observe
<1>3. ASSUME NEW capacity \in Capacities, NEW recurrent \in BOOLEAN,
             LackSupport(recurrent, capacity)
      PROVE  /\ capacities' = Push(capacities, capacity, VariationReferenceWindow)
             /\ crystallizingRun' = 0
  BY <1>3 DEF LackSupport, Observe
<1>4. ASSUME NEW capacity \in Capacities, NEW recurrent \in BOOLEAN, NEW c \in Coherences,
             Cohere(c, recurrent, capacity)
      PROVE  /\ capacities' = Push(capacities, capacity, VariationReferenceWindow)
             /\ \/ crystallizingRun' = 0
                \/ /\ crystallizingRun' = crystallizingRun + 1
                   /\ Contracting(capacity, capacities')
  <2>1. capacities' = Push(capacities, capacity, VariationReferenceWindow)
    BY <1>4 DEF Cohere, Observe
  <2>2. \/ crystallizingRun' = 0
        \/ /\ crystallizingRun' = crystallizingRun + 1
           /\ Contracting(capacity, Push(capacities, capacity, VariationReferenceWindow))
    BY <1>4 DEF Cohere
  <2>3. QED
    BY <2>1, <2>2
<1>5. ASSUME NEW capacity \in Capacities, NEW recurrent \in BOOLEAN, NEW c \in Coherences,
             Discontinue(c, recurrent, capacity)
      PROVE  /\ capacities' = Push(capacities, capacity, VariationReferenceWindow)
             /\ crystallizingRun' = 0
  BY <1>5 DEF Discontinue, Observe
<1>6. QED
  BY <1>1, <1>2, <1>3, <1>4, <1>5 DEF Next

(* The longer a run, the lower every capacity the window still holds: an   *)
(* entry k windows old leaves room for k windows and one reference window  *)
(* for each level above it.                                                *)
Room(x) == (CapacityMax - x) * (VariationReferenceWindow - 1)

FallInv ==
  /\ crystallizingRun > 0 => Len(capacities) > 0 /\ capacities[Len(capacities)] # {}
  /\ \A k \in 0..(Len(capacities) - 1) : \A x \in capacities[Len(capacities) - k] :
       crystallizingRun <= k + Room(x)

(* A level more leaves a reference window less.                            *)
LEMMA RoomShrinks ==
  ASSUME NEW x \in 0..CapacityMax
  PROVE  /\ Room(x) \in Nat /\ Room(x) <= CapacityMax * (VariationReferenceWindow - 1)
         /\ \A y \in 0..CapacityMax :
              y > x => Room(y) + (VariationReferenceWindow - 1) <= Room(x)
<1> DEFINE w == VariationReferenceWindow - 1
<1>1. /\ w \in Nat /\ CapacityMax - x \in Nat /\ CapacityMax - x <= CapacityMax
      /\ CapacityMax \in Nat
  BY WindowAssumption, ScaleAssumption
<1>2. Room(x) = (CapacityMax - x) * w
  BY DEF Room
<1> HIDE DEF w
<1>3. Room(x) \in Nat /\ Room(x) <= CapacityMax * w
  BY <1>1, <1>2, TimesMonotone
<1>4. ASSUME NEW y \in 0..CapacityMax, y > x
      PROVE  Room(y) + w <= Room(x)
  <2>1. CapacityMax - y \in Nat /\ CapacityMax - y + 1 <= CapacityMax - x
    BY <1>1, <1>4
  <2>2. (CapacityMax - y + 1) * w <= (CapacityMax - x) * w
    BY <1>1, <2>1, TimesMonotone
  <2>3. (CapacityMax - y + 1) * w = (CapacityMax - y) * w + w
    <3>1. \A a \in Nat : (a + 1) * w = a * w + w
      BY <1>1
    <3>2. QED
      BY <2>1, <3>1
  <2>4. Room(y) = (CapacityMax - y) * w
    BY DEF Room, w
  <2>5. QED
    BY <1>2, <2>2, <2>3, <2>4
<1>5. QED
  BY <1>3, <1>4 DEF w

(* t is the sequence s with x put at its end, cut to its latest n entries. *)
Entered(t, s, x, n) ==
  /\ Len(t) = Least(Len(s) + 1, n) /\ t[Len(t)] = x
  /\ \A k \in 1..(Len(t) - 1) : t[Len(t) - k] = s[Len(s) + 1 - k]

(* Push does that.                                                         *)
LEMMA PushEnters ==
  ASSUME NEW S, NEW s \in Seq(S), NEW x \in S, NEW n \in Nat \ {0}, Len(s) <= n
  PROVE  Entered(Push(s, x, n), s, x, n)
  BY PushEntries DEF Entered

(* The capacity and what is still to be lost of it.                        *)
LEMMA FallInvariant == Spec => []FallInv
<1>1. Init => FallInv
  BY DEF Init, FallInv
<1>2. TypeOK /\ FallInv /\ [Next]_vars => FallInv'
  <2> SUFFICES ASSUME TypeOK, FallInv, [Next]_vars PROVE FallInv'
    OBVIOUS
  <2>1. CASE UNCHANGED vars
    BY <2>1 DEF vars, FallInv
  <2>2. CASE Next
    <3> DEFINE len  == Len(capacities)
               len2 == Len(capacities')
    <3>1. PICK capacity \in Capacities :
            /\ capacities' = Push(capacities, capacity, VariationReferenceWindow)
            /\ \/ crystallizingRun' = 0
               \/ /\ crystallizingRun' = crystallizingRun + 1
                  /\ Contracting(capacity, capacities')
      BY <2>2, CapacityStep
    <3>2. /\ capacities \in Seq(Capacities) /\ len \in Nat /\ len <= VariationReferenceWindow
          /\ VariationReferenceWindow \in Nat \ {0} /\ crystallizingRun \in Nat
      BY WindowAssumption, ScaleAssumption DEF TypeOK
    <3>3. capacities' \in Seq(Capacities) /\ len2 \in Nat /\ len2 <= VariationReferenceWindow
      BY <3>1, <3>2, PushType
    <3>4. /\ len2 = Least(len + 1, VariationReferenceWindow)
          /\ capacities'[len2] = capacity
          /\ \A k \in 1..(len2 - 1) : capacities'[len2 - k] = capacities[len + 1 - k]
      <4>1. Entered(Push(capacities, capacity, VariationReferenceWindow), capacities, capacity,
                    VariationReferenceWindow)
        BY <3>2, PushEnters
      <4>2. QED
        BY <3>1, <4>1 DEF Entered
    <3>5. len2 > 0 /\ len2 <= len + 1 /\ DOMAIN capacities' = 1..len2
      BY <3>2, <3>3, <3>4 DEF Least
    <3>6. \A j \in 1..len2 : \A x \in capacities'[j] : x \in 0..CapacityMax
      BY <3>3, <3>5 DEF Capacities, Option
    <3>7. \A k \in 0..(len - 1) : \A x \in capacities[len - k] :
            crystallizingRun <= k + Room(x)
      BY DEF FallInv
    <3> HIDE DEF len, len2
    <3>8. CASE crystallizingRun' = 0
      <4>1. ASSUME NEW k \in 0..(len2 - 1), NEW x \in capacities'[len2 - k]
            PROVE  crystallizingRun' <= k + Room(x)
        <5>1. x \in 0..CapacityMax
          BY <3>3, <3>6
        <5>2. Room(x) \in Nat /\ k \in Nat
          BY <5>1, RoomShrinks
        <5>3. QED
          BY <3>8, <5>2
      <4>2. QED
        BY <3>8, <4>1 DEF FallInv, len2
    <3>9. CASE /\ crystallizingRun' = crystallizingRun + 1
               /\ Contracting(capacity, capacities')
      <4>1. ASSUME NEW k \in 1..(len2 - 1), NEW x \in capacities'[len2 - k]
            PROVE  /\ x \in 0..CapacityMax /\ Room(x) \in Nat
                   /\ crystallizingRun + 1 <= k + Room(x)
        <5>1. x \in 0..CapacityMax /\ Room(x) \in Nat
          <6>1. len2 - k \in 1..len2
            BY <3>3
          <6>2. QED
            BY <3>6, <6>1, RoomShrinks
        <5>2. k - 1 \in 0..(len - 1) /\ len - (k - 1) = len + 1 - k
          BY <3>2, <3>3, <3>5
        <5>3. crystallizingRun <= (k - 1) + Room(x)
          BY <3>4, <3>7, <5>2
        <5>4. QED
          BY <3>2, <5>1, <5>3
      <4>2. PICK c \in capacity, j \in 1..len2 :
              \E p \in capacities'[j] : p > 0 /\ 4 * (p - c) >= p
        BY <3>5, <3>9 DEF Contracting
      <4>0. PICK peak \in capacities'[j] : peak > 0 /\ 4 * (peak - c) >= peak
        BY <4>2
      <4>3. capacity = {c} /\ c \in 0..CapacityMax /\ peak \in 0..CapacityMax
        BY <3>1, <3>6, <4>0, <4>2 DEF Capacities, Option
      <4>4. peak > c
        BY <4>0, <4>3, ScaleAssumption
      <4>5. j # len2
        BY <3>4, <4>0, <4>3, <4>4, ScaleAssumption
      <4>6. crystallizingRun + 1 <= Room(c)
        <5> DEFINE k == len2 - j
        <5>1. k \in 1..(len2 - 1) /\ len2 - k = j /\ k <= VariationReferenceWindow - 1
          BY <3>2, <3>3, <4>5
        <5>2. crystallizingRun + 1 <= k + Room(peak) /\ Room(peak) \in Nat
          BY <4>0, <4>1, <5>1
        <5>3. Room(peak) + (VariationReferenceWindow - 1) <= Room(c) /\ Room(c) \in Nat
          BY <4>3, <4>4, RoomShrinks
        <5>4. QED
          BY <3>2, <5>1, <5>2, <5>3
      <4>7. ASSUME NEW k \in 0..(len2 - 1), NEW x \in capacities'[len2 - k]
            PROVE  crystallizingRun' <= k + Room(x)
        <5>1. CASE k = 0
          <6>1. x = c /\ Room(c) \in Nat
            BY <3>3, <3>4, <4>3, <5>1, RoomShrinks
          <6>2. QED
            BY <3>9, <4>6, <5>1, <6>1
        <5>2. CASE k # 0
          BY <3>3, <3>9, <4>1, <5>2
        <5>3. QED
          BY <5>1, <5>2
      <4>8. len2 > 0 /\ capacities'[len2] # {}
        BY <3>4, <3>5, <4>3
      <4>9. QED
        BY <4>7, <4>8 DEF FallInv, len2
    <3>10. QED
      BY <3>1, <3>8, <3>9
  <2>3. QED
    BY <2>1, <2>2
<1>3. QED
  BY <1>1, <1>2, TypeCorrect, PTL DEF Spec

(* No run outlasts one reference window per level the capacity can fall.   *)
THEOREM CrystallizationRunsOut == MCSpec => []CrystallizationExpires
<1>1. TypeOK /\ FallInv => CrystallizationExpires
  <2> SUFFICES ASSUME TypeOK, FallInv PROVE CrystallizationExpires
    OBVIOUS
  <2> DEFINE w == VariationReferenceWindow - 1
  <2>1. crystallizingRun \in Nat /\ CapacityMax \in Nat /\ w \in Nat
    BY WindowAssumption, ScaleAssumption DEF TypeOK
  <2>2. CASE crystallizingRun = 0
    <3>1. CapacityMax * w \in Nat
      BY <2>1, TimesMonotone
    <3>2. QED
      BY <2>2, <3>1 DEF CrystallizationExpires
  <2>3. CASE crystallizingRun > 0
    <3>1. Len(capacities) \in Nat \ {0} /\ capacities[Len(capacities)] \in Capacities
      BY <2>3 DEF FallInv, TypeOK
    <3>2. PICK x \in capacities[Len(capacities)] : x \in 0..CapacityMax
      BY <2>3, <3>1 DEF FallInv, Capacities, Option
    <3>3. 0 \in 0..(Len(capacities) - 1) /\ Len(capacities) - 0 = Len(capacities)
      BY <3>1
    <3>4. crystallizingRun <= 0 + Room(x)
      BY <3>2, <3>3 DEF FallInv
    <3>5. Room(x) \in Nat /\ Room(x) <= CapacityMax * w
      BY <3>2, RoomShrinks
    <3>6. CapacityMax * w \in Nat
      BY <2>1, TimesMonotone
    <3> HIDE DEF w
    <3>7. crystallizingRun <= CapacityMax * w
      BY <2>1, <3>4, <3>5, <3>6
    <3>8. QED
      BY <3>7 DEF CrystallizationExpires, w
  <2>4. QED
    BY <2>1, <2>2, <2>3
<1>2. MCSpec => [](TypeOK /\ FallInv)
  BY HistoryObserves, TypeCorrect, FallInvariant, PTL
<1>3. QED
  BY <1>1, <1>2, PTL

-----------------------------------------------------------------------------
(* The stack.                                                              *)

(* A bar of the stack is a bar of D_O.                                     *)
LEMMA StackObserves == StackSpec => Spec
<1>1. StackInit => Init
  BY DEF StackInit
<1>2. [StackNext]_stackVars => [Next]_vars
  BY DEF StackNext, stackVars
<1>3. QED
  BY <1>1, <1>2, PTL DEF StackSpec, Spec

-----------------------------------------------------------------------------
(* The operators of the stack.                                             *)

(* A weighted mean of two magnitudes does not exceed the larger of them.   *)
LEMMA DecayBounded ==
  ASSUME NEW parts \in Nat \ {0}, NEW a \in Nat, NEW b \in Nat, NEW top \in Nat,
         a <= top, b <= top
  PROVE  ((parts - 1) * a + b) \div parts \in 0..top
<1> DEFINE total == (parts - 1) * a + b
           q     == total \div parts
<1>1. (parts - 1) * a \in Nat /\ (parts - 1) * a <= (parts - 1) * top
  OBVIOUS
<1>2. total \in Nat /\ total <= parts * top
  BY <1>1
<1> HIDE DEF total
<1>3. q \in Nat /\ parts * q <= total
  BY <1>2
<1> HIDE DEF q
<1>4. parts * q <= parts * top
  BY <1>2, <1>3
<1>5. q <= top
  BY <1>3, <1>4
<1>6. QED
  BY <1>3, <1>5 DEF q, total

(* The K-MEM state stays on the scale of the deficit.                      *)
LEMMA DecayedType ==
  ASSUME NEW state \in 0..(KMemScale * CoherenceThreshold),
         NEW deficit \in 0..CoherenceThreshold
  PROVE  Decayed(state, deficit) \in 0..(KMemScale * CoherenceThreshold)
<1>1. KMemScale * CoherenceThreshold \in Nat
  BY KMemAssumption, ScaleAssumption
<1>2. KMemScale * deficit \in Nat /\ KMemScale * deficit <= KMemScale * CoherenceThreshold
  BY KMemAssumption, ScaleAssumption
<1>3. QED
  BY <1>1, <1>2, DecayBounded, KMemAssumption DEF Decayed

(* The organization of an observation exists only where its coherence does. *)
LEMMA OrganizationType ==
  ASSUME NEW r \in Observations, NEW trailing
  PROVE  /\ Organization(r, trailing) \in Option(Magnitude)
         /\ r.coherence = {} => Organization(r, trailing) = {}
<1>1. CASE r.coherence = {} \/ r.contraction = "UNRESOLVED"
  BY <1>1 DEF Organization, Option
<1>2. CASE r.coherence # {} /\ r.contraction # "UNRESOLVED"
  <2>1. PICK c \in Coherences : r.coherence = {c}
    BY <1>2 DEF Observations, Option
  <2>2. Organization(r, trailing) =
          {IF r.contraction = "CONTRACTING" /\ 0 \in trailing[Len(trailing)]
           THEN 0 ELSE Least(c, 1)}
    BY <1>2, <2>1 DEF Organization
  <2>3. Least(c, 1) \in Magnitude
    BY ScaleAssumption DEF Coherences, Least, Magnitude
  <2>4. QED
    BY <1>2, <2>2, <2>3 DEF Option, Magnitude
<1>3. QED
  BY <1>1, <1>2

(* A level of organization, as an Option.                                  *)
LEMMA OrganizationLevelType ==
  ASSUME NEW rows
  PROVE  OrganizationLevel(rows) \in Option(Magnitude)
BY DEF OrganizationLevel, Option, Magnitude

(* A normalized channel has a reading only with enough of a history.       *)
LEMMA NormalizedType ==
  ASSUME NEW raw \in Option(Magnitude), NEW history
  PROVE  /\ Normalized(raw, history) \in Option(Magnitude)
         /\ Normalized(raw, history) # {} =>
              Cardinality(Present(history)) >= OdceMinimumSupport /\ raw # {}
<1>1. Normalized(raw, history) \subseteq raw
  BY DEF Normalized
<1>2. raw = {} \/ \E x \in Magnitude : raw = {x}
  BY DEF Option
<1>3. QED
  BY <1>1, <1>2 DEF Normalized, Option

(* A differential exists only where both of its terms do.                  *)
LEMMA DifferentialsType ==
  ASSUME NEW cost \in Option(Magnitude), NEW benefit \in Option(Magnitude),
         NEW d \in Differentials(cost, benefit)
  PROVE  d \in Option(-1..1) /\ (d # {} => cost # {} /\ benefit # {})
<1>1. CASE cost = {} \/ benefit = {}
  BY <1>1 DEF Differentials, Option
<1>2. CASE cost # {} /\ benefit # {}
  <2>1. PICK c \in Magnitude, b \in Magnitude : cost = {c} /\ benefit = {b}
    BY <1>2 DEF Option
  <2>2. PICK s \in Signs(c, b) : d = {s}
    BY <1>2, <2>1 DEF Differentials
  <2>3. s \in -1..1
    BY <2>2 DEF Signs, Magnitude
  <2>4. QED
    BY <1>2, <2>2, <2>3 DEF Option
<1>3. QED
  BY <1>1, <1>2

-----------------------------------------------------------------------------
(* Trailing windows.                                                       *)

(* Only the latest n entries of a window may be present.                   *)
OnlyLatest(s, n) == \A k \in Present(s) : k > Len(s) - n

(* As many entries are present as there are latest ones, at most.          *)
LEMMA OnlyLatestCardinality ==
  ASSUME NEW S, NEW s \in Seq(S), NEW n \in Nat, OnlyLatest(s, n)
  PROVE  Cardinality(Present(s)) \in 0..n
<1> DEFINE latest == (Len(s) - n + 1)..Len(s)
<1>1. Present(s) \subseteq latest
  BY DEF Present, OnlyLatest
<1>2. IsFiniteSet(latest) /\ Cardinality(latest) = n
  BY FS_Interval
<1>3. QED
  BY <1>1, <1>2, FS_Subset, FS_CardinalityType

(* Pushing ages the entries of a window by one, and pushing nothing onto a *)
(* window without entries leaves it without entries.                       *)
LEMMA OnlyLatestPush ==
  ASSUME NEW S, NEW s \in Seq(S), NEW x \in S, NEW w \in Nat \ {0}, Len(s) <= w,
         NEW n \in Nat, OnlyLatest(s, n)
  PROVE  /\ OnlyLatest(Push(s, x, w), n + 1)
         /\ n = 0 /\ x = {} => OnlyLatest(Push(s, x, w), 0)
<1> DEFINE p == Push(s, x, w)
<1>1. /\ p \in Seq(S) /\ Len(p) \in {Len(s), Len(s) + 1} /\ Len(p) > 0
      /\ p[Len(p)] = x
      /\ \A k \in 1..(Len(p) - 1) : p[Len(p) - k] = s[Len(s) + 1 - k]
  <2>1. p \in Seq(S)
    BY PushType
  <2>2. /\ Len(p) = Least(Len(s) + 1, w) /\ p[Len(p)] = x
        /\ \A k \in 1..(Len(p) - 1) : p[Len(p) - k] = s[Len(s) + 1 - k]
    BY PushEntries
  <2> HIDE DEF p
  <2>3. Least(Len(s) + 1, w) \in {Len(s), Len(s) + 1} /\ Least(Len(s) + 1, w) > 0
    BY DEF Least
  <2>4. QED
    BY <2>1, <2>2, <2>3
<1> HIDE DEF p
<1>2. ASSUME NEW j \in 1..Len(p), p[j] # {}, j # Len(p)
      PROVE  Len(p) - j <= n /\ n # 0
  <2> DEFINE k == Len(p) - j
             i == Len(s) + 1 - k
  <2>1. k \in 1..(Len(p) - 1) /\ i \in 1..Len(s) /\ j = Len(p) - k
    BY <1>1, <1>2
  <2>2. s[i] # {}
    BY <1>1, <1>2, <2>1
  <2>3. i > Len(s) - n
    BY <2>1, <2>2 DEF OnlyLatest, Present
  <2>4. QED
    BY <1>1, <2>1, <2>3
<1>3. QED
  <2>1. OnlyLatest(p, n + 1)
    BY <1>1, <1>2 DEF OnlyLatest, Present
  <2>2. n = 0 /\ x = {} => OnlyLatest(p, 0)
    BY <1>1, <1>2 DEF OnlyLatest, Present
  <2>3. QED
    BY <2>1, <2>2 DEF p

-----------------------------------------------------------------------------
(* One bar.                                                                *)

(* What one pass of ODCE writes, and what it needs to write something.     *)
LEMMA OdceOutcome ==
  ASSUME StackTypeOK, row' \in Observations,
         NEW friction \in Magnitude, NEW recovery \in Magnitude, OdceStep(friction, recovery)
  PROVE  /\ organizationRows' =
              Push(organizationRows, Organization(row', capacities'), OdceWindow)
         /\ organizationRows' \in Seq(Option(Magnitude))
         /\ Len(organizationRows') <= OdceWindow
         /\ histories' \in [Channels -> Seq(Option(Magnitude))]
         /\ \A c \in Channels : Len(histories'[c]) <= OdceWindow
         /\ histories'["adaptive_organization_level"] =
              Push(histories["adaptive_organization_level"],
                   OrganizationLevel(organizationRows'), OdceWindow)
         /\ odce' = [differential |-> odce'.differential, trend |-> odce'.trend,
                     exposure |-> odce'.exposure]
         /\ odce'.differential \in [Benefits -> Option(-1..1)]
         /\ odce'.trend \in [Benefits -> BOOLEAN]
         /\ odce'.exposure \in [Benefits -> Nat]
         /\ \A b \in Benefits :
              /\ odce'.exposure[b] <= odce.exposure[b] + 1
              /\ odce'.differential[b] = {} => odce'.exposure[b] = odce.exposure[b]
         /\ odce'.differential["adaptive_organization_level"] # {} =>
              Cardinality(Present(histories["adaptive_organization_level"]))
                >= OdceMinimumSupport
<1> DEFINE rows == Push(organizationRows, Organization(row', capacities'), OdceWindow)
           raw  == [c \in Channels |->
                      CASE c = "retained_friction"           -> {friction}
                        [] c = "structural_recovery"         -> {recovery}
                        [] c = "adaptive_organization_level" -> OrganizationLevel(rows)]
           normalized == [c \in Channels |-> Normalized(raw[c], histories[c])]
<1>1. PICK recovered \in Differentials(normalized["retained_friction"],
                                       normalized["structural_recovery"]),
           organized \in Differentials(normalized["retained_friction"],
                                       normalized["adaptive_organization_level"]) :
        LET differential == [b \in Benefits |->
                               IF b = "structural_recovery" THEN recovered ELSE organized]
        IN odce' =
             [differential |-> differential,
              trend        |-> [b \in Benefits |->
                                  differential[b] # {} /\ odce.differential[b] # {}],
              exposure     |-> [b \in Benefits |->
                                  odce.exposure[b] + Greatest(ValueOr(differential[b], 0), 0)]]
  BY DEF OdceStep
<1>2. /\ organizationRows' = rows
      /\ histories' = [c \in Channels |-> Push(histories[c], raw[c], OdceWindow)]
  BY DEF OdceStep
<1>3. /\ organizationRows \in Seq(Option(Magnitude)) /\ Len(organizationRows) <= OdceWindow
      /\ histories \in [Channels -> Seq(Option(Magnitude))]
      /\ \A c \in Channels : Len(histories[c]) <= OdceWindow
      /\ odce.differential \in [Benefits -> Option(-1..1)]
      /\ odce.exposure \in [Benefits -> 0..MaxIndex]
      /\ OdceWindow \in Nat \ {0} /\ OdceMinimumSupport \in Nat \ {0} /\ MaxIndex \in Nat
  BY OdceAssumption, ScaleAssumption DEF StackTypeOK
<1>4. rows \in Seq(Option(Magnitude)) /\ Len(rows) <= OdceWindow
  BY <1>3, OrganizationType, PushType
<1> HIDE DEF rows
<1>5. raw \in [Channels -> Option(Magnitude)]
  <2>1. {friction} \in Option(Magnitude) /\ {recovery} \in Option(Magnitude)
    BY DEF Option
  <2>2. OrganizationLevel(rows) \in Option(Magnitude)
    BY OrganizationLevelType
  <2>3. QED
    BY <2>1, <2>2 DEF Channels
<1>6. raw["adaptive_organization_level"] = OrganizationLevel(rows)
  BY DEF Channels
<1> HIDE DEF raw
<1>7. /\ histories' \in [Channels -> Seq(Option(Magnitude))]
      /\ \A c \in Channels : Len(histories'[c]) <= OdceWindow
  <2>1. ASSUME NEW c \in Channels
        PROVE  /\ Push(histories[c], raw[c], OdceWindow) \in Seq(Option(Magnitude))
               /\ Len(Push(histories[c], raw[c], OdceWindow)) <= OdceWindow
    BY <1>3, <1>5, PushType
  <2>2. QED
    BY <1>2, <2>1
<1>8. \A c \in Channels :
        /\ normalized[c] \in Option(Magnitude)
        /\ normalized[c] # {} => Cardinality(Present(histories[c])) >= OdceMinimumSupport
  BY <1>5, NormalizedType
<1> HIDE DEF normalized
<1>9. /\ recovered \in Option(-1..1) /\ organized \in Option(-1..1)
      /\ organized # {} =>
           Cardinality(Present(histories["adaptive_organization_level"])) >= OdceMinimumSupport
  <2>1. {"retained_friction", "structural_recovery", "adaptive_organization_level"}
          \subseteq Channels
    BY DEF Channels
  <2>2. QED
    BY <1>1, <1>8, <2>1, DifferentialsType
<1>10. \A d \in Option(-1..1) :
         /\ Greatest(ValueOr(d, 0), 0) \in 0..1
         /\ d = {} => Greatest(ValueOr(d, 0), 0) = 0
  BY DEF Option, ValueOr, Greatest
<1>11. /\ odce'.differential = [b \in Benefits |->
                                 IF b = "structural_recovery" THEN recovered ELSE organized]
       /\ odce'.trend \in [Benefits -> BOOLEAN]
       /\ odce'.exposure = [b \in Benefits |->
                             odce.exposure[b] + Greatest(ValueOr(odce'.differential[b], 0), 0)]
       /\ odce' = [differential |-> odce'.differential, trend |-> odce'.trend,
                   exposure |-> odce'.exposure]
  BY <1>1
<1>12. odce'.differential \in [Benefits -> Option(-1..1)]
  BY <1>9, <1>11
<1>13. odce'.differential["adaptive_organization_level"] = organized
  BY <1>11 DEF Benefits, Channels
<1>14. /\ odce'.exposure \in [Benefits -> Nat]
       /\ \A b \in Benefits :
            /\ odce'.exposure[b] <= odce.exposure[b] + 1
            /\ odce'.differential[b] = {} => odce'.exposure[b] = odce.exposure[b]
  <2>1. ASSUME NEW b \in Benefits
        PROVE  /\ odce'.exposure[b] \in Nat
               /\ odce'.exposure[b] <= odce.exposure[b] + 1
               /\ odce'.differential[b] = {} => odce'.exposure[b] = odce.exposure[b]
    <3>1. odce.exposure[b] \in Nat
      BY <1>3
    <3>2. odce'.differential[b] \in Option(-1..1)
      BY <1>12
    <3>3. odce'.exposure[b] = odce.exposure[b] + Greatest(ValueOr(odce'.differential[b], 0), 0)
      BY <1>11
    <3>4. QED
      BY <1>10, <3>1, <3>2, <3>3
  <2>2. QED
    BY <1>11, <2>1
<1>15. histories'["adaptive_organization_level"] =
         Push(histories["adaptive_organization_level"],
              OrganizationLevel(organizationRows'), OdceWindow)
  BY <1>2, <1>6 DEF Channels
<1>16. QED
  BY <1>2, <1>4, <1>7, <1>9, <1>11, <1>12, <1>13, <1>14, <1>15 DEF rows

-----------------------------------------------------------------------------
(* The inductive invariant of the stack.                                   *)

(* How many bars ago the first evaluable one was.                          *)
Age == index - ValueOr(firstTransportEvaluable, index)

(* K-MEM carries its state exactly from the first evaluable bar on.        *)
KMemInv ==
  /\ kInitialized <=> firstTransportEvaluable # {}
  /\ kMem.after = IF kInitialized THEN {kState} ELSE {}
  /\ KMemFollowsTransport

(* Organizations exist only among the bars since the first evaluable one,  *)
(* levels only among those that had enough of them behind them, and so on. *)
OrganizationInv ==
  /\ OnlyLatest(organizationRows, Age)
  /\ OnlyLatest(histories["adaptive_organization_level"],
                Greatest(0, Age + 1 - OdceMinimumSupport))
  /\ odce.differential["adaptive_organization_level"] # {} => Age >= 2 * OdceMinimumSupport
  /\ odce.exposure["adaptive_organization_level"]
       <= Greatest(0, Age + 1 - 2 * OdceMinimumSupport)
  /\ "friction_vs_organization" \in mask =>
       odce.differential["adaptive_organization_level"] # {}

StackInv ==
  /\ StackTypeOK
  /\ \A b \in Benefits : odce.exposure[b] <= index
  /\ KMemInv
  /\ OrganizationInv

(* A bar ages the first evaluable one, or there is none and the bar is not *)
(* evaluable either, or the bar is the first one.                          *)
LEMMA BarAges ==
  ASSUME TypeOK, RegimeInv, Next
  PROVE  /\ index' = index + 1 /\ index \in Nat /\ Age \in Nat
         /\ \/ Age' = Age + 1
            \/ Age = 0 /\ Age' = 0 /\ row'.coherence = {}
         /\ firstTransportEvaluable = {} => Age = 0
         /\ row'.deficit = {} <=> row'.coherence = {}
         /\ row'.deficit \in Option(0..CoherenceThreshold)
         /\ firstTransportEvaluable' # {} <=> firstTransportEvaluable # {} \/ row'.deficit # {}
         /\ firstTransportEvaluable # {} <=> \E f \in firstTransportEvaluable' : f < index
<1>1. PICK transport, state, active, recurrent, capacity :
        \E coherence \in Option(Coherences) :
          Observe(transport, state, active, coherence, recurrent, capacity)
  BY StepObserves
<1>2. PICK coherence \in Option(Coherences) :
        Observe(transport, state, active, coherence, recurrent, capacity)
  BY <1>1
<1>3. /\ index' = index + 1 /\ index \in Nat
      /\ coherence = {} => firstTransportEvaluable' = firstTransportEvaluable
      /\ firstTransportEvaluable # {} => firstTransportEvaluable' = firstTransportEvaluable
      /\ coherence # {} /\ firstTransportEvaluable = {} => firstTransportEvaluable' = {index}
  BY <1>2, ObserveVerdict, ScaleAssumption DEF TypeOK
<1>4. row'.coherence = coherence /\ row'.deficit = Deficit(coherence)
  BY <1>2 DEF Observe
<1>5. Deficit(coherence) = {} <=> coherence = {}
  BY DEF Deficit
<1>6. Deficit(coherence) \in Option(0..CoherenceThreshold)
  BY DeficitType
<1>7. CASE firstTransportEvaluable = {}
  <2>1. Age = 0
    BY <1>3, <1>7 DEF Age, ValueOr
  <2>2. CASE coherence = {}
    BY <1>3, <1>4, <1>5, <1>6, <1>7, <2>1, <2>2 DEF Age, ValueOr
  <2>3. CASE coherence # {}
    <3>1. firstTransportEvaluable' = {index}
      BY <1>3, <1>7, <2>3
    <3>2. Age' = 1
      BY <1>3, <3>1 DEF Age, ValueOr
    <3>3. QED
      BY <1>3, <1>4, <1>5, <1>6, <1>7, <2>1, <2>3, <3>1, <3>2
  <2>4. QED
    BY <2>2, <2>3
<1>8. CASE firstTransportEvaluable # {}
  <2>1. PICK f \in 0..MaxIndex : firstTransportEvaluable = {f}
    BY <1>8 DEF TypeOK, Option
  <2>2. f < index /\ f \in Nat
    BY <2>1, ScaleAssumption DEF RegimeInv, EvaluationInv
  <2>3. firstTransportEvaluable' = {f}
    BY <1>3, <1>8, <2>1
  <2>4. Age = index - f /\ Age' = index + 1 - f
    BY <1>3, <2>1, <2>3 DEF Age, ValueOr
  <2>5. QED
    BY <1>3, <1>4, <1>5, <1>6, <1>8, <2>2, <2>3, <2>4
<1>9. QED
  BY <1>7, <1>8

(* K-MEM in one bar.                                                       *)
LEMMA KMemBar ==
  ASSUME TypeOK, RegimeInv, StackTypeOK, KMemInv, Next, KMemStep(row'.deficit)
  PROVE  /\ KMemInv'
         /\ kState' \in 0..(KMemScale * CoherenceThreshold) /\ kInitialized' \in BOOLEAN
         /\ kMem' \in [prior : Option(0..(KMemScale * CoherenceThreshold)),
                       after : Option(0..(KMemScale * CoherenceThreshold))]
         /\ kMem'.prior = kMem.after
<1> DEFINE deficit == row'.deficit
<1>1. /\ index' = index + 1 /\ index \in Nat
      /\ deficit \in Option(0..CoherenceThreshold)
      /\ firstTransportEvaluable' # {} <=> firstTransportEvaluable # {} \/ deficit # {}
      /\ firstTransportEvaluable # {} <=> \E f \in firstTransportEvaluable' : f < index
  BY BarAges
<1>2. /\ kState' = IF deficit = {} THEN kState ELSE Decayed(kState, ValueOr(deficit, 0))
      /\ kInitialized' = (kInitialized \/ deficit # {})
      /\ kMem' = [prior |-> IF kInitialized THEN {kState} ELSE {},
                  after |-> IF kInitialized' THEN {kState'} ELSE {}]
  BY DEF KMemStep, Prior
<1> HIDE DEF deficit
<1>3. kState \in 0..(KMemScale * CoherenceThreshold) /\ kInitialized \in BOOLEAN
  BY DEF StackTypeOK
<1>4. deficit # {} => ValueOr(deficit, 0) \in 0..CoherenceThreshold
  BY <1>1 DEF Option, ValueOr
<1>5. kState' \in 0..(KMemScale * CoherenceThreshold)
  BY <1>2, <1>3, <1>4, DecayedType
<1>6. kMem' \in [prior : Option(0..(KMemScale * CoherenceThreshold)),
                after : Option(0..(KMemScale * CoherenceThreshold))]
  BY <1>2, <1>3, <1>5 DEF Option
<1>7. kMem'.prior = kMem.after
  BY <1>2 DEF KMemInv
<1>8. (kInitialized' <=> firstTransportEvaluable' # {})
      /\ kMem'.after = IF kInitialized' THEN {kState'} ELSE {}
  BY <1>1, <1>2 DEF KMemInv
<1>9. KMemFollowsTransport'
  <2>1. kMem'.prior # {} <=> firstTransportEvaluable # {}
    BY <1>2 DEF KMemInv
  <2>2. index' - 1 = index
    BY <1>1
  <2>3. QED
    BY <1>1, <2>1, <2>2 DEF KMemFollowsTransport
<1>10. QED
  BY <1>2, <1>3, <1>5, <1>6, <1>7, <1>8, <1>9 DEF KMemInv

(* The organization channel in one bar.                                    *)
LEMMA OrganizationBar ==
  ASSUME TypeOK, RegimeInv, StackInv, Next, row' \in Observations,
         NEW friction \in Magnitude, NEW recovery \in Magnitude, OdceStep(friction, recovery),
         mask' = {d \in OptionalDims : Available(d)'}
  PROVE  OrganizationInv'
<1> DEFINE N       == OdceMinimumSupport
           org     == "adaptive_organization_level"
           element == Organization(row', capacities')
           level   == OrganizationLevel(organizationRows')
           history == histories[org]
<1>1. /\ Age \in Nat
      /\ Age' = Age + 1 \/ (Age = 0 /\ Age' = 0 /\ row'.coherence = {})
  BY BarAges
<1>2. /\ organizationRows' = Push(organizationRows, element, OdceWindow)
      /\ organizationRows' \in Seq(Option(Magnitude))
      /\ histories'[org] = Push(history, level, OdceWindow)
      /\ odce'.exposure[org] \in Nat
      /\ odce'.exposure[org] <= odce.exposure[org] + 1
      /\ odce'.differential[org] = {} => odce'.exposure[org] = odce.exposure[org]
      /\ odce'.differential[org] # {} => Cardinality(Present(history)) >= N
  <2>1. org \in Benefits
    BY DEF Benefits, Channels
  <2>2. StackTypeOK
    BY DEF StackInv
  <2>3. QED
    BY <2>1, <2>2, OdceOutcome
<1>3. /\ organizationRows \in Seq(Option(Magnitude)) /\ Len(organizationRows) <= OdceWindow
      /\ history \in Seq(Option(Magnitude)) /\ Len(history) <= OdceWindow
      /\ odce.exposure[org] \in Nat
      /\ OdceWindow \in Nat \ {0} /\ N \in Nat \ {0}
  BY OdceAssumption, ScaleAssumption DEF StackInv, StackTypeOK, Channels, Benefits
<1>4. /\ OnlyLatest(organizationRows, Age)
      /\ OnlyLatest(history, Greatest(0, Age + 1 - N))
      /\ odce.exposure[org] <= Greatest(0, Age + 1 - 2 * N)
  BY DEF StackInv, OrganizationInv
<1>5. /\ element \in Option(Magnitude) /\ level \in Option(Magnitude)
      /\ row'.coherence = {} => element = {}
      /\ level # {} => Cardinality(Present(organizationRows')) >= N
  <2>1. level # {} => Cardinality(Present(organizationRows')) >= N
    BY DEF OrganizationLevel
  <2>2. QED
    BY <2>1, OrganizationType, OrganizationLevelType
<1> HIDE DEF element, level, history, N, org
<1>6. OnlyLatest(organizationRows', Age')
  BY <1>1, <1>2, <1>3, <1>4, <1>5, OnlyLatestPush
<1>7. Age' \in Nat /\ Greatest(0, Age + 1 - N) \in Nat
  BY <1>1, <1>3 DEF Greatest
<1>8. level # {} => Age' >= N
  <2>1. Cardinality(Present(organizationRows')) \in 0..Age'
    BY <1>2, <1>6, <1>7, OnlyLatestCardinality
  <2>2. QED
    BY <1>3, <1>5, <1>7, <2>1
<1>9. OnlyLatest(histories'[org], Greatest(0, Age' + 1 - N))
  <2>1. CASE Age' < N
    <3>1. Greatest(0, Age + 1 - N) = 0 /\ Greatest(0, Age' + 1 - N) = 0
      <4>1. \A a \in Nat : a < N => Greatest(0, a + 1 - N) = 0
        BY <1>3 DEF Greatest
      <4>2. Age < N
        BY <1>1, <1>3, <2>1
      <4>3. QED
        BY <1>1, <1>7, <2>1, <4>1, <4>2
    <3>2. level = {}
      BY <1>3, <1>7, <1>8, <2>1
    <3>3. OnlyLatest(Push(history, level, OdceWindow), 0)
      BY <1>3, <1>4, <1>5, <3>1, <3>2, OnlyLatestPush
    <3>4. QED
      BY <1>2, <3>1, <3>3
  <2>2. CASE Age' >= N
    <3>1. Age' = Age + 1
      BY <1>1, <1>3, <2>2
    <3>2. Greatest(0, Age' + 1 - N) = Greatest(0, Age + 1 - N) + 1
      BY <1>1, <1>3, <2>2, <3>1 DEF Greatest
    <3>3. OnlyLatest(Push(history, level, OdceWindow), Greatest(0, Age + 1 - N) + 1)
      BY <1>3, <1>4, <1>5, <1>7, OnlyLatestPush
    <3>4. QED
      BY <1>2, <3>2, <3>3
  <2>3. QED
    BY <1>3, <1>7, <2>1, <2>2
<1>10. odce'.differential[org] # {} => Age >= 2 * N - 1 /\ Age' = Age + 1
  <2>1. Cardinality(Present(history)) \in 0..Greatest(0, Age + 1 - N)
    BY <1>3, <1>4, <1>7, OnlyLatestCardinality
  <2>2. ASSUME odce'.differential[org] # {} PROVE Age >= 2 * N - 1
    <3>1. N <= Greatest(0, Age + 1 - N)
      BY <1>2, <1>3, <1>7, <2>1, <2>2
    <3>2. QED
      BY <1>1, <1>3, <3>1 DEF Greatest
  <2>3. QED
    BY <1>1, <1>3, <2>2
<1>11. odce'.differential[org] # {} => Age' >= 2 * N
  BY <1>1, <1>3, <1>10
<1>12. odce'.exposure[org] <= Greatest(0, Age' + 1 - 2 * N)
  <2>1. CASE odce'.differential[org] = {}
    BY <1>1, <1>2, <1>3, <1>4, <2>1 DEF Greatest
  <2>2. CASE odce'.differential[org] # {}
    BY <1>1, <1>2, <1>3, <1>4, <1>10, <2>2 DEF Greatest
  <2>3. QED
    BY <2>1, <2>2
<1>13. "friction_vs_organization" \in mask' => odce'.differential[org] # {}
  BY DEF Available, org
<1>14. QED
  BY <1>6, <1>9, <1>11, <1>12, <1>13 DEF OrganizationInv, N, org

-----------------------------------------------------------------------------
(* What the stack keeps.                                                   *)

(* Initially nothing was observed and nothing is normalized.               *)
LEMMA StackInitially == StackInit => StackInv
<1> SUFFICES ASSUME StackInit PROVE StackInv
  OBVIOUS
<1>1. TypeOK
  BY ScaleAssumption, WindowAssumption
    DEF StackInit, Init, TypeOK, Option, Observations, Regimes
<1>2. KMemScale * CoherenceThreshold \in Nat
  BY KMemAssumption, ScaleAssumption
<1>3. StackTypeOK
  <2>1. {} \in Option(-1..1) /\ {} \in Option(0..(KMemScale * CoherenceThreshold))
    BY DEF Option
  <2>2. 0 \in 0..(KMemScale * CoherenceThreshold) /\ 0 \in 0..MaxIndex
    BY <1>2, ScaleAssumption
  <2>3. << >> \in Seq(Option(Magnitude)) /\ Len(<< >>) <= OdceWindow
    BY OdceAssumption
  <2>4. QED
    BY <1>1, <2>1, <2>2, <2>3 DEF StackInit, StackTypeOK
<1>4. index = 0 /\ firstTransportEvaluable = {} /\ Age = 0
  BY DEF StackInit, Init, Age, ValueOr
<1>5. KMemInv
  BY <1>4 DEF StackInit, KMemInv, KMemFollowsTransport
<1>6. OrganizationInv
  <2> DEFINE org == "adaptive_organization_level"
  <2>1. org \in Channels /\ org \in Benefits
    BY DEF Channels, Benefits
  <2>2. /\ organizationRows = << >> /\ histories[org] = << >> /\ mask = {}
        /\ odce.differential[org] = {} /\ odce.exposure[org] = 0
    BY <2>1 DEF StackInit
  <2>3. \A n \in Nat : OnlyLatest(<< >>, n)
    BY DEF OnlyLatest, Present
  <2>4. \A n \in Int : Greatest(0, n) \in Nat
    BY DEF Greatest
  <2>5. /\ Greatest(0, Age + 1 - OdceMinimumSupport) \in Nat
        /\ 0 <= Greatest(0, Age + 1 - 2 * OdceMinimumSupport)
    BY <1>4, <2>4, OdceAssumption
  <2>6. QED
    BY <1>4, <2>2, <2>3, <2>5 DEF OrganizationInv
<1>7. \A b \in Benefits : odce.exposure[b] <= index
  BY <1>4 DEF StackInit
<1>8. QED
  BY <1>3, <1>5, <1>6, <1>7 DEF StackInv

(* A bar keeps the invariant, given what D_O keeps on its own.             *)
LEMMA StackBar ==
  ASSUME TypeOK, TypeOK', RegimeInv, StackInv, StackNext
  PROVE  StackInv' /\ kMem'.prior = kMem.after
<1>1. PICK friction \in Magnitude, recovery \in Magnitude : OdceStep(friction, recovery)
  BY DEF StackNext
<1>2. Next /\ KMemStep(row'.deficit) /\ mask' = {d \in OptionalDims : Available(d)'}
  BY DEF StackNext
<1>3. row' \in Observations /\ StackTypeOK /\ KMemInv
  BY DEF TypeOK, StackInv
<1>4. OrganizationInv'
  BY <1>1, <1>2, <1>3, OrganizationBar
<1>5. /\ KMemInv'
      /\ kState' \in 0..(KMemScale * CoherenceThreshold) /\ kInitialized' \in BOOLEAN
      /\ kMem' \in [prior : Option(0..(KMemScale * CoherenceThreshold)),
                    after : Option(0..(KMemScale * CoherenceThreshold))]
      /\ kMem'.prior = kMem.after
  BY <1>2, <1>3, KMemBar
<1>6. /\ organizationRows' \in Seq(Option(Magnitude)) /\ Len(organizationRows') <= OdceWindow
      /\ histories' \in [Channels -> Seq(Option(Magnitude))]
      /\ \A c \in Channels : Len(histories'[c]) <= OdceWindow
      /\ odce' = [differential |-> odce'.differential, trend |-> odce'.trend,
                  exposure |-> odce'.exposure]
      /\ odce'.differential \in [Benefits -> Option(-1..1)]
      /\ odce'.trend \in [Benefits -> BOOLEAN]
      /\ odce'.exposure \in [Benefits -> Nat]
      /\ \A b \in Benefits : odce'.exposure[b] <= odce.exposure[b] + 1
  BY <1>1, <1>3, OdceOutcome
<1>7. index' = index + 1 /\ index' \in 0..MaxIndex /\ index \in Nat
  BY <1>2, BarAges DEF TypeOK
<1>8. \A b \in Benefits : odce'.exposure[b] <= index'
  <2> SUFFICES ASSUME NEW b \in Benefits PROVE odce'.exposure[b] <= index'
    OBVIOUS
  <2>1. odce.exposure[b] \in Nat /\ odce'.exposure[b] \in Nat /\ odce.exposure[b] <= index
    BY <1>6, ScaleAssumption DEF StackInv, StackTypeOK
  <2>2. QED
    BY <1>6, <1>7, <2>1
<1>9. odce'.exposure \in [Benefits -> 0..MaxIndex]
  <2>1. \A b \in Benefits : odce'.exposure[b] \in 0..MaxIndex
    BY <1>6, <1>7, <1>8, ScaleAssumption
  <2>2. QED
    BY <1>6, <2>1
<1>10. odce' \in [differential : [Benefits -> Option(-1..1)],
                  trend        : [Benefits -> BOOLEAN],
                  exposure     : [Benefits -> 0..MaxIndex]]
  BY <1>6, <1>9
<1>11. mask' \in SUBSET OptionalDims
  BY <1>2
<1>12. StackTypeOK'
  BY <1>5, <1>6, <1>10, <1>11 DEF StackTypeOK
<1>13. QED
  BY <1>4, <1>5, <1>8, <1>12 DEF StackInv

(* Every step keeps the invariant: D_O's own step, then what the stack     *)
(* makes of its row.                                                       *)
LEMMA StackInvariant == StackSpec => []StackInv
<1>1. TypeOK /\ TypeOK' /\ RegimeInv /\ StackInv /\ [StackNext]_stackVars => StackInv'
  <2> SUFFICES ASSUME TypeOK, TypeOK', RegimeInv, StackInv, [StackNext]_stackVars
               PROVE  StackInv'
    OBVIOUS
  <2>1. CASE StackNext
    BY <2>1, StackBar
  <2>2. CASE UNCHANGED stackVars
    BY <2>2 DEF stackVars, vars, odceVars, kMemVars, StackInv, StackTypeOK, TypeOK, KMemInv,
      KMemFollowsTransport, OrganizationInv, OnlyLatest, Present, Age
  <2>3. QED
    BY <2>1, <2>2
<1>2. QED
  BY <1>1, StackInitially, StackObserves, TypeCorrect, RegimeInvariant, PTL DEF StackSpec

(* The trailing windows, the exposures and the memory stay within their    *)
(* bounds: no window outgrows ODCE_WINDOW, no exposure the series, and the *)
(* K-MEM state no full deficit.                                            *)
THEOREM StackTypeCorrect == StackSpec => []StackTypeOK
<1>1. StackInv => StackTypeOK
  BY DEF StackInv
<1>2. QED
  BY <1>1, StackInvariant, PTL

(* The memory a frame is published with was complete before the frame.     *)
THEOREM KMemIsStrictlyPrior == StackSpec => KMemStrictlyPrior
<1>1. TypeOK /\ TypeOK' /\ RegimeInv /\ StackInv /\ [StackNext]_stackVars
        => [kMem'.prior = kMem.after]_stackVars
  BY StackBar
<1>2. QED
  BY <1>1, StackObserves, TypeCorrect, RegimeInvariant, StackInvariant, PTL
    DEF StackSpec, KMemStrictlyPrior

(* K-MEM has something to say exactly from the bar after the first         *)
(* evaluable one on.                                                       *)
THEOREM KMemTransport == StackSpec => []KMemFollowsTransport
<1>1. StackInv => KMemFollowsTransport
  BY DEF StackInv, KMemInv
<1>2. QED
  BY <1>1, StackInvariant, PTL

(* The organization channel is silent until its support has been collected *)
(* twice, for every support and every window.                              *)
THEOREM OrganizationWarmsUp == StackSpec => []OrganizationWarmup
<1>1. TypeOK /\ RegimeInv /\ StackInv => OrganizationWarmup
  <2> SUFFICES ASSUME TypeOK, RegimeInv, StackInv PROVE OrganizationWarmup
    OBVIOUS
  <2> DEFINE N       == OdceMinimumSupport
             settled == {f + 2 * N - 1 : f \in firstTransportEvaluable}
             exposed == odce.exposure["adaptive_organization_level"]
  <2>1. /\ N \in Nat \ {0} /\ exposed \in Nat /\ exposed <= Greatest(0, Age + 1 - 2 * N)
        /\ "friction_vs_organization" \in mask => Age >= 2 * N
    BY OdceAssumption, ScaleAssumption
      DEF StackInv, StackTypeOK, OrganizationInv, Benefits, Channels
  <2>2. CASE firstTransportEvaluable = {}
    <3>1. Age = 0
      BY <2>2, ScaleAssumption DEF Age, ValueOr, TypeOK
    <3>2. ~(Age >= 2 * N) /\ Greatest(0, Age + 1 - 2 * N) = 0
      BY <2>1, <3>1 DEF Greatest
    <3>3. ValueOr({Greatest(0, index - s) : s \in settled}, 0) = 0
      BY <2>2 DEF ValueOr
    <3>4. QED
      BY <2>1, <3>2, <3>3 DEF OrganizationWarmup
  <2>3. CASE firstTransportEvaluable # {}
    <3>1. PICK f \in 0..MaxIndex : firstTransportEvaluable = {f}
      BY <2>3 DEF TypeOK, Option
    <3>2. f \in Nat /\ index \in Nat /\ Age = index - f
      BY <3>1, ScaleAssumption DEF TypeOK, Age, ValueOr
    <3>3. settled = {f + 2 * N - 1}
      BY <3>1
    <3>4. ValueOr({Greatest(0, index - s) : s \in settled}, 0)
            = Greatest(0, index - (f + 2 * N - 1))
      BY <3>3 DEF ValueOr
    <3>5. Age + 1 - 2 * N = index - (f + 2 * N - 1)
      BY <2>1, <3>2
    <3>6. Age >= 2 * N => \E s \in settled : index > s
      <4>1. Age >= 2 * N => index > f + 2 * N - 1
        BY <2>1, <3>2
      <4>2. QED
        BY <3>3, <4>1
    <3>7. QED
      BY <2>1, <3>4, <3>5, <3>6 DEF OrganizationWarmup
  <2>4. QED
    BY <2>2, <2>3
<1>2. QED
  BY <1>1, StackObserves, TypeCorrect, RegimeInvariant, StackInvariant, PTL

=============================================================================
