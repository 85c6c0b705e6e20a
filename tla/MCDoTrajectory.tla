--------------------------- MODULE MCDoTrajectory ---------------------------
(***************************************************************************)
(* DoTrajectory for TLC, with the latest published observations recorded   *)
(* so that properties can be stated on what a reader of the rows sees.     *)
(***************************************************************************)
EXTENDS DoTrajectory

VARIABLE recent     \* history: the latest published observations, oldest first

Horizon == Greatest(TauWindows, HysteresisGraceWindows + 1)

MCInit == Init /\ recent = << >>
MCNext == Next /\ recent' = Push(recent, row', Horizon)
MCSpec == MCInit /\ [][MCNext]_<<vars, recent>>

LatestAll(n, Test(_)) ==
  /\ Len(recent) >= n
  /\ \A k \in (Len(recent) - n + 1)..Len(recent) : Test(recent[k])

Predicate(r) ==
  r.transport = "COHERENT" /\ r.recurrence = "RECURRENT" /\ r.contraction = "CONTRACTING"
Discontinuous(r) == \E d \in r.deficit : d > 0

(* A reader of the published rows sees CRYSTALLIZED exactly when each of   *)
(* the last TAU_WINDOWS rows is coherent, recurrent and contracting: no    *)
(* inactive, provisional or unresolved window is skipped over.             *)
CrystallizedExactly ==
  row.structuralState = "CRYSTALLIZED" <=> LatestAll(TauWindows, Predicate)

(* The persistence diagnostic says that more than the grace windows in a   *)
(* row were discontinuous; a window that inherits is never diagnosed as a  *)
(* disruption, and a long disruption is never undiagnosed.                 *)
DisruptionDiagnosed ==
  /\ "PERSISTENT_TRANSPORT_DISRUPTION" \in row.diagnostics
       <=> LatestAll(HysteresisGraceWindows + 1, Discontinuous)
  /\ "HYSTERESIS_INHERITANCE" \in row.diagnostics =>
       row.diagnostics \cap {"TRANSPORT_DISRUPTION", "PERSISTENT_TRANSPORT_DISRUPTION"} = {}

(* Crystallization feeds on a falling capacity: each window of the run     *)
(* needs a peak a third higher inside the reference window, so a run       *)
(* cannot outlast one reference window per level the capacity can fall.    *)
CrystallizationExpires ==
  crystallizingRun <= CapacityMax * (VariationReferenceWindow - 1)

=============================================================================
