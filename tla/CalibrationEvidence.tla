------------------------- MODULE CalibrationEvidence -------------------------
(***************************************************************************)
(* The evidence side of the offline calibration (calibration.rs,           *)
(* build_resolution_profile and validate_profile; main.rs,                 *)
(* calibrate-direction): how a growing corpus is split into training,      *)
(* validation and test, which bars the labels of each part read, and when  *)
(* a profile may call its test prospective.                                *)
(*                                                                         *)
(* Bars are numbered from 1 in the order they close, so that a bar stands  *)
(* for its close time; the registration boundary lies between bar Boundary *)
(* and the next one.  Prices are abstracted to what the labels tell apart: *)
(* whether a bar has a range, and after how many bars the barriers of a    *)
(* label are first touched.                                                *)
(***************************************************************************)
EXTENDS Common

CONSTANTS
  MinimumBars,      \* 16 in the code
  MinimumFrames,    \* 8
  MinimumSegment,   \* 4, the least training segment
  FrameWarmup,      \* the bars before the first structural frame
  Boundary,         \* the last bar that closes by TELEGRAPH_REGISTRATION_BOUNDARY_NS
  FastPassages,     \* first passages tried besides the full horizon
  MaxBars,          \* bound: length of the corpus
  MaxFlatBars       \* bound: bars without a range

ASSUME CorpusAssumption ==
  /\ MinimumBars \in Nat /\ MinimumFrames \in Nat /\ MinimumSegment \in Nat
  /\ FrameWarmup \in Nat \ {0}
  /\ MaxBars \in Nat /\ MaxFlatBars \in Nat

ASSUME BoundaryAssumption == Boundary \in Nat

ASSUME PassageAssumption == FastPassages \subseteq Nat \ {0}

VARIABLES
  flat,       \* flat[i]: bar i has high = low
  artifact    \* Option of a profile: the file the builder writes

vars == <<flat, artifact>>

Hashes     == {"ABSENT", "FROZEN", "OTHER", "MALFORMED"}
Selections == {"TEMPORAL_VALIDATION", "PREREGISTERED_PROTOCOL"}
Statuses   == {"UNTOUCHED", "AWAITING", "CONSUMED"}

Profiles ==
  [bars      : 1..MaxBars,
   split     : 1..MaxBars,                  \* temporal_split_timestamp_ns
   samples   : SUBSET (1..MaxBars),         \* the runtime library
   selection : SUBSET (1..MaxBars),         \* bars the parameters were selected from
   hash      : Option({"FROZEN"}),
   selectedOn: Selections,
   eligible  : BOOLEAN,                     \* and untouched_test
   status    : Statuses]                    \* reliability_evaluated_on, evidence_status

EvidenceTypeOK ==
  /\ flat \in Seq(BOOLEAN) /\ Len(flat) <= MaxBars
  /\ \A p, q \in artifact : p = q
  /\ \A p \in artifact : p \in Profiles /\ p.bars <= Len(flat)

-----------------------------------------------------------------------------
(* What the builder derives from the size of the corpus.                   *)

Bars         == Len(flat)
Frames       == (FrameWarmup + 1)..Bars
FrameCount   == Bars - FrameWarmup
Lookback     == Greatest(IntegerSqrt(Bars), 2)
Horizon      == Greatest(IntegerLog2(Bars), 2)
TestCount    == Greatest(IntegerSqrt(FrameCount), 1)
TestBar      == Bars - TestCount + 1          \* the first frame of the test
ValidationBar == Bars - 2 * TestCount + 1     \* the first frame of the validation

Splittable ==
  /\ Bars >= MinimumBars
  /\ FrameCount >= MinimumFrames
  /\ FrameCount - 2 * TestCount >= MinimumSegment

(* causal_volatility: some bar of the lookback has a range.                *)
Volatile(i) == \E j \in Greatest(i - Lookback + 1, 2)..i : ~flat[j]

(* outcome_label_state: a label is known after its first passage, at most  *)
(* one horizon later; a passage past the last bar is right-censored.  A    *)
(* frame without volatility has no passage and is no candidate.            *)
Passages == {h \in FastPassages : h <= Horizon} \cup {Horizon}

FaultyCandidates(passage) ==
  {[bar |-> i, outcome |-> i + passage[i]] : i \in DOMAIN passage}
Candidates(passage) ==
  {[bar |-> i, outcome |-> i + passage[i]] :
     i \in {j \in DOMAIN passage : j + passage[j] <= Bars}}

Training(rows)   == LET split == ValidationBar IN {r \in rows : r.bar < split}
Test(rows)       == LET split == TestBar IN {r \in rows : r.bar >= split}
Validation(rows) == rows \ (Training(rows) \cup Test(rows))

Segmented(rows) ==
  /\ Cardinality(Training(rows)) >= MinimumSegment
  /\ Validation(rows) # {}
  /\ Test(rows) # {}

(* parameter_selection_labels_matured                                      *)
FaultyMatured(rows) == \A r \in Training(rows) : r.outcome <= Boundary
Matured(rows) == \A r \in Training(rows) \cup Validation(rows) : r.outcome <= Boundary

Prospective(hash, rows) ==
  /\ hash = "FROZEN"
  /\ Matured(rows)
  /\ \A r \in Validation(rows) : r.bar <= Boundary
  /\ \A r \in Test(rows) : r.bar > Boundary

Status(eligible, selectedOn) ==
  CASE eligible -> "UNTOUCHED"
    [] ~eligible /\ selectedOn = "PREREGISTERED_PROTOCOL" -> "AWAITING"
    [] OTHER -> "CONSUMED"

Profile(hash, rows) ==
  LET library    == Training(rows) \cup Validation(rows)
      selectedOn == IF hash = "FROZEN" THEN "PREREGISTERED_PROTOCOL" ELSE "TEMPORAL_VALIDATION"
  IN
  [bars       |-> Bars,
   split      |-> TestBar,
   samples    |-> {r.bar : r \in library},
   selection  |-> {r.outcome : r \in library} \cup 1..(ValidationBar - 1),
   hash       |-> IF hash = "FROZEN" THEN {hash} ELSE {},
   selectedOn |-> selectedOn,
   eligible   |-> Prospective(hash, rows),
   status     |-> Status(Prospective(hash, rows), selectedOn)]

(* validate_profile, as far as it is about evidence.                       *)
Valid(p) ==
  /\ p.samples # {}
  /\ p.selectedOn = "TEMPORAL_VALIDATION" => p.hash = {}
  /\ p.selectedOn = "PREREGISTERED_PROTOCOL" => p.hash = {"FROZEN"}
  /\ p.eligible => p.selectedOn = "PREREGISTERED_PROTOCOL"
  /\ p.status = Status(p.eligible, p.selectedOn)
  /\ p.eligible => p.split > Boundary /\ \A i \in p.samples : i <= Boundary

-----------------------------------------------------------------------------
Init == flat = << >> /\ artifact = {}

(* A bar closes and joins the corpus.                                      *)
Close(isFlat) ==
  /\ Bars < MaxBars
  /\ isFlat => Cardinality({i \in 1..Bars : flat[i]}) < MaxFlatBars
  /\ flat' = Append(flat, isFlat)
  /\ UNCHANGED artifact

(* calibrate-direction: the artifact is written once the protocol hash is  *)
(* absent or the frozen one, the corpus can be split, every segment has    *)
(* labels, the profile passes its own validation and an artifact already   *)
(* there may be overwritten.  Any other run ends in an error that leaves   *)
(* everything as it was; so does one whose prices give no barrier or no    *)
(* comparable sample to fit the estimator on.                              *)
Write(hash, rows, overwrite) ==
  LET profile == Profile(hash, rows) IN
  /\ Segmented(rows)
  /\ Valid(profile)
  /\ artifact = {} \/ overwrite
  /\ artifact' = {profile}
  /\ UNCHANGED flat

Calibrate(hash, overwrite) ==
  /\ hash \in {"ABSENT", "FROZEN"}
  /\ Splittable
  /\ \E passage \in [{i \in Frames : Volatile(i)} -> Passages] :
       Write(hash, Candidates(passage), overwrite)

Next ==
  \/ \E isFlat \in BOOLEAN : Close(isFlat)
  \/ \E hash \in Hashes, overwrite \in BOOLEAN : Calibrate(hash, overwrite)

Spec == Init /\ [][Next]_vars

-----------------------------------------------------------------------------
(* Properties.                                                             *)

(* An eligible profile owes nothing to its test: every bar its barrier,    *)
(* its training labels or its validation labels were read from closed by   *)
(* the boundary, and so before the first snapshot of the test.             *)
SelectionBlindToProspect ==
  \A p \in artifact : p.eligible =>
    \A i \in p.selection : i <= Boundary /\ i < p.split

(* How narrow the gate is: a label takes at least one bar to mature, so    *)
(* the last snapshot before the boundary is in no eligible library.        *)
BoundarySnapshotUnlabelled ==
  \A p \in artifact : p.eligible => \A i \in p.samples : i < Boundary

(* What that takes: once the test is at least a horizon long the boundary  *)
(* snapshot can only be missing because it has no volatility, and then a   *)
(* whole lookback of bars before the boundary has no range at all.         *)
EligibilityNeedsFlatSpell ==
  \A p \in artifact :
    LET lookback == Greatest(IntegerSqrt(p.bars), 2)
        horizon  == Greatest(IntegerLog2(p.bars), 2)
    IN p.eligible /\ p.bars - p.split + 1 >= horizon =>
         \A j \in Greatest(Boundary - lookback + 1, 2)..Boundary : flat[j]

(* What the protocol records of its split rules, no_lookahead: no          *)
(* parameter is selected from a bar of the test segment.                   *)
SplitHasNoLookahead ==
  \A p \in artifact : \A i \in p.selection : i < p.split

=============================================================================
