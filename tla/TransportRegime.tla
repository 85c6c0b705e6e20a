--------------------------- MODULE TransportRegime ---------------------------
(***************************************************************************)
(* What the D_O observer promises about transport, without windows,        *)
(* coherence values or counters: a VIABLE regime is inherited through at   *)
(* most Grace consecutive discontinuous windows, every other discontinuity *)
(* is a disruption, a disruption ends only in a coherent or an inactive    *)
(* window, and once transport has been evaluated it is never unresolved.   *)
(***************************************************************************)
EXTENDS Integers

CONSTANT Grace      \* windows a viable regime survives without coherence

VARIABLES
  phase,            \* what the latest window reports
  inherited,        \* consecutive windows the viable regime was inherited
  evaluated         \* transport has been evaluated at least once

vars == <<phase, inherited, evaluated>>

Init == phase = "UNRESOLVED" /\ inherited = 0 /\ evaluated = FALSE

MayInherit == \/ phase = "VIABLE" /\ Grace > 0
              \/ phase = "PROVISIONAL" /\ inherited < Grace

(* No transport verdict yet.                                               *)
Wait == /\ ~evaluated
        /\ phase' = "UNRESOLVED"
        /\ inherited' = 0
        /\ UNCHANGED evaluated

(* No movement: whatever was viable is forgotten.                          *)
Quiesce == /\ phase' = "INACTIVE"
           /\ inherited' = 0
           /\ UNCHANGED evaluated

(* A coherent window; only a VIABLE one can later be inherited.            *)
Settle == /\ phase' \in {"VIABLE", "ORGANIZED"}
          /\ inherited' = 0
          /\ evaluated' = TRUE

Inherit == /\ MayInherit
           /\ phase' = "PROVISIONAL"
           /\ inherited' = inherited + 1
           /\ UNCHANGED evaluated

Disrupt == /\ ~MayInherit
           /\ phase' = "DISRUPTED"
           /\ inherited' = 0
           /\ evaluated' = TRUE

Next == Wait \/ Quiesce \/ Settle \/ Inherit \/ Disrupt

Spec == Init /\ [][Next]_vars

=============================================================================
