---------------------- MODULE CalibrationEvidenceProofs ----------------------
(***************************************************************************)
(* Proofs about CalibrationEvidence for corpora of every size.  An         *)
(* artifact changes only when Write replaces it, so each property is       *)
(* proved of the profile being written; for the flat spell the corpus may  *)
(* grow afterwards, which leaves the bars the profile was built from.      *)
(***************************************************************************)
EXTENDS CalibrationEvidence, FiniteSetTheorems, TLAPS

(* The counting definitions of the integer root and logarithm are numbers. *)
LEMMA IntegerRoots ==
  ASSUME NEW n \in Int
  PROVE  IntegerSqrt(n) \in Nat /\ IntegerLog2(n) \in Nat
<1>1. IsFiniteSet({r \in 1..n : r * r <= n})
  <2>1. IsFiniteSet(1..n)
    BY FS_Interval
  <2> QED
    BY <2>1, FS_Subset, Zenon
<1>2. IsFiniteSet({k \in 0..n : 2^k <= n})
  <2>1. IsFiniteSet(0..n)
    BY FS_Interval
  <2> QED
    BY <2>1, FS_Subset, Zenon
<1> QED
  BY <1>1, <1>2, FS_CardinalityType DEF IntegerSqrt, IntegerLog2

(* The sizes of a corpus and of its segments.                              *)
LEMMA SplitSizes ==
  ASSUME flat \in Seq(BOOLEAN)
  PROVE  /\ Bars \in Nat /\ FrameCount \in Int
         /\ TestCount \in Nat /\ TestCount >= 1
         /\ Lookback \in Nat /\ Horizon \in Nat /\ Horizon >= 2
         /\ TestBar = Bars - TestCount + 1
         /\ ValidationBar = Bars - 2 * TestCount + 1
         /\ TestBar \in Int /\ ValidationBar \in Int
<1>1. Bars \in Nat /\ Bars \in Int /\ FrameCount \in Int
  BY CorpusAssumption DEF Bars, FrameCount
<1>2. /\ IntegerSqrt(Bars) \in Nat /\ IntegerLog2(Bars) \in Nat
      /\ IntegerSqrt(FrameCount) \in Nat
  BY <1>1, IntegerRoots, Zenon
<1>3. TestCount \in Nat /\ TestCount >= 1
  BY <1>2 DEF TestCount, Greatest
<1>4. Lookback \in Nat /\ Horizon \in Nat /\ Horizon >= 2
  BY <1>2 DEF Lookback, Horizon, Greatest
<1> QED
  BY <1>1, <1>3, <1>4 DEF TestBar, ValidationBar

(* A first passage comes within the horizon.                               *)
LEMMA PassageFacts ==
  ASSUME flat \in Seq(BOOLEAN), NEW h \in Passages
  PROVE  h \in Nat \ {0} /\ h <= Horizon
<1>1. Horizon \in Nat /\ Horizon >= 2
  BY SplitSizes
<1>2. CASE h = Horizon
  BY <1>1, <1>2
<1>3. CASE h \in FastPassages /\ h <= Horizon
  BY <1>3, PassageAssumption
<1> QED
  BY <1>2, <1>3 DEF Passages

(* A label reads at least one bar after its snapshot and none past the     *)
(* corpus.                                                                 *)
LEMMA CandidateFacts ==
  ASSUME flat \in Seq(BOOLEAN),
         NEW passage \in [{i \in Frames : Volatile(i)} -> Passages],
         NEW r \in Candidates(passage)
  PROVE  /\ r.bar \in 1..Bars /\ r.bar > FrameWarmup
         /\ r.outcome \in 1..Bars /\ r.bar < r.outcome
<1>1. PICK i \in DOMAIN passage :
        i + passage[i] <= Bars /\ r = [bar |-> i, outcome |-> i + passage[i]]
  BY DEF Candidates
<1>2. i \in Frames /\ passage[i] \in Passages
  BY <1>1
<1>3. passage[i] \in Nat \ {0}
  BY <1>2, PassageFacts
<1>4. Bars \in Nat /\ FrameWarmup \in Nat \ {0} /\ i \in Int /\ i > FrameWarmup
  BY <1>2, SplitSizes, CorpusAssumption DEF Frames
<1> QED
  BY <1>1, <1>3, <1>4

-----------------------------------------------------------------------------
(* The properties, of one profile.                                         *)
Blind(p) == p.eligible => \A i \in p.selection : i <= Boundary /\ i < p.split

Unlabelled(p) == p.eligible => \A i \in p.samples : i < Boundary

FlatSpell(p) ==
  LET lookback == Greatest(IntegerSqrt(p.bars), 2)
      horizon  == Greatest(IntegerLog2(p.bars), 2)
  IN p.eligible /\ p.bars - p.split + 1 >= horizon =>
       \A j \in Greatest(Boundary - lookback + 1, 2)..Boundary : flat[j]

(* What makes a profile eligible, in terms of its labelled snapshots: they *)
(* matured, the test starts after the boundary, and some validation        *)
(* snapshot precedes the boundary.                                         *)
LEMMA EligibleFacts ==
  ASSUME flat \in Seq(BOOLEAN),
         NEW passage \in [{i \in Frames : Volatile(i)} -> Passages],
         NEW rows, rows = Candidates(passage),
         NEW hash,
         Segmented(rows), Valid(Profile(hash, rows)), Profile(hash, rows).eligible
  PROVE  /\ \A r \in Training(rows) \cup Validation(rows) :
              /\ r.bar \in 1..Bars /\ r.bar > FrameWarmup
              /\ r.outcome \in 1..Bars /\ r.bar < r.outcome /\ r.outcome <= Boundary
         /\ \A r \in Test(rows) : r.bar > Boundary
         /\ TestBar > Boundary
         /\ ValidationBar < Boundary
         /\ FrameWarmup < Boundary
<1>1. Prospective(hash, rows)
  BY DEF Profile
<1>2. \A r \in rows : /\ r.bar \in 1..Bars /\ r.bar > FrameWarmup
                      /\ r.outcome \in 1..Bars /\ r.bar < r.outcome
  BY CandidateFacts
<1>3. Training(rows) \cup Validation(rows) \subseteq rows
  BY DEF Training, Validation
<1>4. \A r \in Training(rows) \cup Validation(rows) : r.outcome <= Boundary
  BY <1>1 DEF Prospective, Matured
<1>5. \A r \in Test(rows) : r.bar > Boundary
  BY <1>1 DEF Prospective
<1>6. TestBar > Boundary
  BY DEF Valid, Profile
<1>7. ValidationBar < Boundary /\ FrameWarmup < Boundary
  <2>1. PICK v \in Validation(rows) : TRUE
    BY DEF Segmented
  <2>2. /\ v.bar \in 1..Bars /\ v.bar > FrameWarmup
        /\ v.outcome \in 1..Bars /\ v.bar < v.outcome /\ v.outcome <= Boundary
    BY <2>1, <1>2, <1>3, <1>4
  <2>3. ~(v.bar < ValidationBar)
    BY <2>1 DEF Validation, Training
  <2> QED
    BY <2>2, <2>3, SplitSizes, BoundaryAssumption, CorpusAssumption
<1> QED
  BY <1>2, <1>3, <1>4, <1>5, <1>6, <1>7

(* A profile written from a corpus is blind to what the boundary hides.    *)
LEMMA WrittenBlind ==
  ASSUME flat \in Seq(BOOLEAN),
         NEW passage \in [{i \in Frames : Volatile(i)} -> Passages],
         NEW rows, rows = Candidates(passage),
         NEW hash,
         Segmented(rows), Valid(Profile(hash, rows))
  PROVE  Blind(Profile(hash, rows)) /\ Unlabelled(Profile(hash, rows))
<1> DEFINE p == Profile(hash, rows)
           library == Training(rows) \cup Validation(rows)
<1>1. /\ p.selection = {r.outcome : r \in library} \cup 1..(ValidationBar - 1)
      /\ p.samples = {r.bar : r \in library}
      /\ p.split = TestBar
  BY DEF Profile
<1> SUFFICES ASSUME p.eligible
             PROVE  /\ \A i \in p.selection : i <= Boundary /\ i < p.split
                    /\ \A i \in p.samples : i < Boundary
  BY DEF Blind, Unlabelled
<1>2. /\ \A r \in library :
           /\ r.bar \in 1..Bars /\ r.outcome \in 1..Bars
           /\ r.bar < r.outcome /\ r.outcome <= Boundary
      /\ TestBar > Boundary /\ ValidationBar < Boundary
  BY EligibleFacts
<1>3. ASSUME NEW i \in p.selection
      PROVE  i <= Boundary /\ i < TestBar
  <2>1. CASE i \in {r.outcome : r \in library}
    BY <2>1, <1>2, SplitSizes, BoundaryAssumption
  <2>2. CASE i \in 1..(ValidationBar - 1)
    BY <2>2, <1>2, SplitSizes, BoundaryAssumption
  <2> QED
    BY <1>1, <1>3, <2>1, <2>2
<1>4. ASSUME NEW i \in p.samples
      PROVE  i < Boundary
  <2>1. PICK r \in library : i = r.bar
    BY <1>1, <1>4
  <2> QED
    BY <2>1, <1>2, SplitSizes, BoundaryAssumption
<1> QED
  BY <1>1, <1>3, <1>4

(* If the boundary snapshot had volatility it would be labelled, for the   *)
(* corpus reaches a horizon past it; its label would then have to mature   *)
(* by the boundary, before it can.                                         *)
LEMMA WrittenFlatSpell ==
  ASSUME flat \in Seq(BOOLEAN),
         NEW passage \in [{i \in Frames : Volatile(i)} -> Passages],
         NEW rows, rows = Candidates(passage),
         NEW hash,
         Segmented(rows), Valid(Profile(hash, rows))
  PROVE  FlatSpell(Profile(hash, rows))
<1> DEFINE p == Profile(hash, rows)
<1>1. p.bars = Bars /\ p.split = TestBar
  BY DEF Profile
<1> SUFFICES ASSUME p.eligible, Bars - TestBar + 1 >= Horizon, Volatile(Boundary)
             PROVE  FALSE
  BY <1>1 DEF FlatSpell, Volatile, Lookback, Horizon
<1>2. /\ \A r \in Training(rows) \cup Validation(rows) : r.outcome <= Boundary
      /\ \A r \in Test(rows) : r.bar > Boundary
      /\ TestBar > Boundary /\ FrameWarmup < Boundary
  BY EligibleFacts
<1>3. Boundary \in DOMAIN passage
  BY <1>2, SplitSizes, BoundaryAssumption, CorpusAssumption DEF Frames
<1>4. passage[Boundary] \in Nat \ {0} /\ passage[Boundary] <= Horizon
  <2>1. passage[Boundary] \in Passages
    BY <1>3
  <2> QED
    BY <2>1, PassageFacts
<1>5. Boundary + passage[Boundary] <= Bars
  <2>1. TestBar \in Int /\ Bars \in Nat /\ Horizon \in Nat /\ TestBar > Boundary
    BY <1>2, SplitSizes
  <2> HIDE DEF p
  <2> QED
    BY <1>4, <2>1, BoundaryAssumption
<1> DEFINE b == [bar |-> Boundary, outcome |-> Boundary + passage[Boundary]]
<1>6. b \in rows
  BY <1>3, <1>5 DEF Candidates
<1>7. b \notin Test(rows)
  <2>1. ~(b.bar > Boundary)
    BY BoundaryAssumption
  <2> QED
    BY <2>1, <1>2
<1>8. b \in Training(rows) \cup Validation(rows)
  BY <1>6, <1>7 DEF Validation
<1>9. b.outcome <= Boundary
  BY <1>8, <1>2
<1> QED
  BY <1>9, <1>4, BoundaryAssumption

-----------------------------------------------------------------------------
(* Types.                                                                  *)
LEMMA WrittenType ==
  ASSUME EvidenceTypeOK, Splittable,
         NEW passage \in [{i \in Frames : Volatile(i)} -> Passages],
         NEW rows, rows = Candidates(passage),
         NEW hash,
         Segmented(rows)
  PROVE  /\ Profile(hash, rows) \in Profiles
         /\ Profile(hash, rows).bars = Bars
         /\ Profile(hash, rows).split <= Bars
<1> DEFINE library == Training(rows) \cup Validation(rows)
<1>1. flat \in Seq(BOOLEAN) /\ Bars \in Nat /\ Bars <= MaxBars
  BY SplitSizes DEF EvidenceTypeOK, Bars
<1>2. \A r \in rows : r.bar \in 1..Bars /\ r.outcome \in 1..Bars
  BY <1>1, CandidateFacts
<1>3. library \subseteq rows
  BY DEF Training, Validation
<1>4. TestBar \in 1..Bars /\ ValidationBar - 1 <= Bars /\ ValidationBar \in Int
  <2>1. /\ TestCount \in Nat /\ TestCount >= 1
        /\ TestBar = Bars - TestCount + 1 /\ ValidationBar = Bars - 2 * TestCount + 1
    BY <1>1, SplitSizes
  <2>2. Bars - FrameWarmup - 2 * TestCount >= 0
    <3>1. FrameCount - 2 * TestCount >= MinimumSegment /\ FrameCount = Bars - FrameWarmup
      BY DEF Splittable, FrameCount
    <3> QED
      BY <3>1, <2>1, <1>1, CorpusAssumption
  <2> QED
    BY <2>1, <2>2, <1>1, CorpusAssumption
<1>5. MaxBars \in Nat /\ 1..Bars \subseteq 1..MaxBars /\ Bars \in 1..MaxBars
  BY <1>1, <1>4, CorpusAssumption
<1>6. {r.bar : r \in library} \in SUBSET (1..MaxBars)
  BY <1>2, <1>3, <1>5
<1>7. {r.outcome : r \in library} \cup 1..(ValidationBar - 1) \in SUBSET (1..MaxBars)
  <2>1. 1..(ValidationBar - 1) \subseteq 1..Bars
    BY <1>1, <1>4
  <2> QED
    BY <2>1, <1>2, <1>3, <1>5
<1> DEFINE selectedOn ==
             IF hash = "FROZEN" THEN "PREREGISTERED_PROTOCOL" ELSE "TEMPORAL_VALIDATION"
<1>8. /\ (IF hash = "FROZEN" THEN {hash} ELSE {}) \in Option({"FROZEN"})
      /\ selectedOn \in Selections
      /\ Prospective(hash, rows) \in BOOLEAN
      /\ Status(Prospective(hash, rows), selectedOn) \in Statuses
  <2>1. (IF hash = "FROZEN" THEN {hash} ELSE {}) \in Option({"FROZEN"})
    BY DEF Option
  <2>2. selectedOn \in Selections
    BY DEF Selections
  <2>3. Prospective(hash, rows) \in BOOLEAN
    BY DEF Prospective
  <2>4. Status(Prospective(hash, rows), selectedOn) \in Statuses
    BY <2>3 DEF Status, Statuses
  <2> QED
    BY <2>1, <2>2, <2>3, <2>4
<1>9. TestBar \in 1..MaxBars
  BY <1>4, <1>5
<1>10. Profile(hash, rows) \in Profiles
  BY <1>5, <1>6, <1>7, <1>8, <1>9 DEF Profile, Profiles
<1> QED
  BY <1>10, <1>4 DEF Profile

(* A step either appends a bar or replaces the artifact by a valid profile *)
(* of the present corpus.                                                  *)
LEMMA StepWrites ==
  ASSUME Next
  PROVE  \/ /\ \E isFlat \in BOOLEAN : flat' = Append(flat, isFlat)
            /\ Bars < MaxBars
            /\ artifact' = artifact
         \/ /\ flat' = flat
            /\ Splittable
            /\ \E hash \in Hashes :
                 \E passage \in [{i \in Frames : Volatile(i)} -> Passages] :
                   LET rows == Candidates(passage) IN
                   /\ Segmented(rows) /\ Valid(Profile(hash, rows))
                   /\ artifact' = {Profile(hash, rows)}
<1>1. CASE \E isFlat \in BOOLEAN : Close(isFlat)
  BY <1>1 DEF Close
<1>2. ASSUME NEW hash \in Hashes, NEW overwrite \in BOOLEAN, Calibrate(hash, overwrite)
      PROVE  /\ flat' = flat
             /\ Splittable
             /\ \E passage \in [{i \in Frames : Volatile(i)} -> Passages] :
                  LET rows == Candidates(passage) IN
                  /\ Segmented(rows) /\ Valid(Profile(hash, rows))
                  /\ artifact' = {Profile(hash, rows)}
  BY <1>2 DEF Calibrate, Write
<1> QED
  BY <1>1, <1>2 DEF Next

(* What is known of a written artifact, in every reachable state.          *)
Dated(p) == p.split <= p.bars /\ (p.eligible => Boundary < p.split)

EvidenceInv ==
  /\ EvidenceTypeOK
  /\ \A p \in artifact : Dated(p) /\ Blind(p) /\ Unlabelled(p) /\ FlatSpell(p)

(* Every step keeps the invariant.                                         *)
LEMMA EvidenceStep ==
  ASSUME EvidenceInv, [Next]_vars
  PROVE  EvidenceInv'
<1>0. flat \in Seq(BOOLEAN) /\ Len(flat) \in Nat /\ MaxBars \in Nat /\ Boundary \in Nat
  BY CorpusAssumption, BoundaryAssumption DEF EvidenceInv, EvidenceTypeOK
<1>1. CASE UNCHANGED vars
  BY <1>1 DEF vars, EvidenceInv, EvidenceTypeOK, Dated, Blind, Unlabelled, FlatSpell
<1>2. ASSUME NEW isFlat \in BOOLEAN, flat' = Append(flat, isFlat), Bars < MaxBars,
             artifact' = artifact
      PROVE  EvidenceInv'
  <2>1. /\ flat' \in Seq(BOOLEAN) /\ Len(flat') = Len(flat) + 1
        /\ \A j \in 1..Len(flat) : flat'[j] = flat[j]
    BY <1>0, <1>2
  <2>2. \A p \in artifact : p.bars \in Nat /\ p.split \in Nat /\ p.bars <= Len(flat)
    BY DEF EvidenceInv, EvidenceTypeOK, Profiles
  <2>3. EvidenceTypeOK'
    BY <1>0, <1>2, <2>1, <2>2 DEF EvidenceInv, EvidenceTypeOK, Bars
  <2>4. ASSUME NEW p \in artifact
        PROVE  FlatSpell(p)'
    <3> DEFINE lookback == Greatest(IntegerSqrt(p.bars), 2)
               horizon  == Greatest(IntegerLog2(p.bars), 2)
    <3>1. FlatSpell(p) /\ Dated(p)
      BY DEF EvidenceInv
    <3> SUFFICES ASSUME p.eligible, p.bars - p.split + 1 >= horizon,
                        NEW j \in Greatest(Boundary - lookback + 1, 2)..Boundary
                 PROVE  flat'[j]
      BY <1>2 DEF FlatSpell
    <3>2. flat[j]
      BY <3>1 DEF FlatSpell
    <3>3. j \in Int /\ j >= 2 /\ j <= Boundary
      <4>1. IntegerSqrt(p.bars) \in Nat
        <5>1. p.bars \in Int
          BY <2>2
        <5> QED
          BY <5>1, IntegerRoots, Zenon
      <4> QED
        BY <4>1, <1>0 DEF Greatest
    <3>4. Boundary < p.split /\ p.split <= p.bars
      BY <3>1 DEF Dated
    <3>5. j \in 1..Len(flat)
      BY <3>3, <3>4, <2>2, <1>0
    <3> QED
      BY <3>2, <3>5, <2>1
  <2>5. \A p \in artifact' : Dated(p)' /\ Blind(p)' /\ Unlabelled(p)'
    BY <1>2 DEF EvidenceInv, Dated, Blind, Unlabelled
  <2> QED
    BY <1>2, <2>3, <2>4, <2>5 DEF EvidenceInv
<1>3. ASSUME NEW hash \in Hashes,
             NEW passage \in [{i \in Frames : Volatile(i)} -> Passages],
             flat' = flat, Splittable,
             Segmented(Candidates(passage)),
             Valid(Profile(hash, Candidates(passage))),
             artifact' = {Profile(hash, Candidates(passage))}
      PROVE  EvidenceInv'
  <2> DEFINE p == Profile(hash, Candidates(passage))
  <2>1. p \in Profiles /\ p.bars = Bars /\ p.split <= Bars
    BY <1>3, WrittenType DEF EvidenceInv
  <2>2. Blind(p) /\ Unlabelled(p)
    BY <1>0, <1>3, WrittenBlind
  <2>3. FlatSpell(p)
    BY <1>0, <1>3, WrittenFlatSpell
  <2>4. Dated(p)
    <3>1. Valid(p) => (p.eligible => p.split > Boundary)
      BY DEF Valid
    <3>2. p.split \in Int
      BY <2>1 DEF Profiles
    <3> QED
      BY <3>1, <3>2, <2>1, <1>0, <1>3 DEF Dated
  <2> HIDE DEF p
  <2>5. EvidenceTypeOK'
    <3>1. Bars = Len(flat)
      BY DEF Bars
    <3> QED
      BY <1>3, <2>1, <3>1, <1>0 DEF EvidenceInv, EvidenceTypeOK, p
  <2>6. ASSUME NEW q \in artifact'
        PROVE  Dated(q)' /\ Blind(q)' /\ Unlabelled(q)' /\ FlatSpell(q)'
    <3>1. q = p
      BY <1>3 DEF p
    <3>2. Dated(q) /\ Blind(q) /\ Unlabelled(q) /\ FlatSpell(q)
      BY <3>1, <2>2, <2>3, <2>4
    <3> QED
      BY <3>2, <1>3 DEF Blind, Unlabelled, FlatSpell, Dated
  <2> QED
    BY <2>5, <2>6 DEF EvidenceInv
<1> QED
  BY <1>1, <1>2, <1>3, StepWrites

(* Every state satisfies it.                                               *)
LEMMA EvidenceInvariant == Spec => []EvidenceInv
<1>1. Init => EvidenceInv
  BY CorpusAssumption DEF Init, EvidenceInv, EvidenceTypeOK
<1>2. EvidenceInv /\ [Next]_vars => EvidenceInv'
  BY EvidenceStep
<1> QED
  BY <1>1, <1>2, PTL DEF Spec

-----------------------------------------------------------------------------
(* The corpus and the artifact keep their types: every profile that passes *)
(* the builder refers to bars of the corpus it was built from.             *)
THEOREM EvidenceTypeCorrect == Spec => []EvidenceTypeOK
<1>1. EvidenceInv => EvidenceTypeOK
  BY DEF EvidenceInv
<1> QED
  BY <1>1, EvidenceInvariant, PTL

(* build_resolution_profile: the parameters of an eligible profile were    *)
(* selected from bars that closed by the boundary and before its test.     *)
THEOREM ProspectStaysUnseen == Spec => []SelectionBlindToProspect
<1>1. EvidenceInv => SelectionBlindToProspect
  BY DEF EvidenceInv, SelectionBlindToProspect, Blind
<1> QED
  BY <1>1, EvidenceInvariant, PTL

(* parameter_selection_labels_matured: the last snapshot before the        *)
(* boundary is in no eligible library.                                     *)
THEOREM BoundarySnapshotLeftOut == Spec => []BoundarySnapshotUnlabelled
<1>1. EvidenceInv => BoundarySnapshotUnlabelled
  BY DEF EvidenceInv, BoundarySnapshotUnlabelled, Unlabelled
<1> QED
  BY <1>1, EvidenceInvariant, PTL

(* The publication gate opens only for a corpus whose whole lookback       *)
(* before the boundary has no range, once the test outlasts the horizon.   *)
THEOREM GateNeedsFlatSpell == Spec => []EligibilityNeedsFlatSpell
<1>1. EvidenceInv => EligibilityNeedsFlatSpell
  BY DEF EvidenceInv, EligibilityNeedsFlatSpell, FlatSpell
<1> QED
  BY <1>1, EvidenceInvariant, PTL

=============================================================================
