----------------------- MODULE MCDirectionalResolution -----------------------
(***************************************************************************)
(* Snapshots, queries and Wilson bounds for DirectionalResolution.         *)
(***************************************************************************)
EXTENDS DirectionalResolution

Snapshots(masks, positions, directions, passages) ==
  [mask : masks, at : positions, direction : directions, passage : passages]

(* Seventeen snapshots: nine to train, four to validate, four to test, so  *)
(* that a vote has three neighbours and all three directions may have one. *)
(* The validation snapshot at -2 has one neighbour that is nearer than two *)
(* others: it tells the powers apart.  Two snapshots with a partial mask   *)
(* are too few for a vote.                                                 *)
MCMenu ==
  <<Snapshots({"FULL"}, {0}, {"UP", "DOWN"}, {1}),
    Snapshots({"FULL"}, {1}, {"UP", "RANGE"}, {3}),
    Snapshots({"FULL"}, {2}, {"RANGE", "DOWN"}, {2}),
    Snapshots({"FULL"}, {2}, {"UP"}, {1}),
    Snapshots({"FULL"}, {1}, {"RANGE"}, {4}),
    Snapshots({"PARTIAL"}, {1}, {"UP"}, {1}),
    Snapshots({"FULL"}, {3}, {"DOWN"}, {4}),
    Snapshots({"FULL"}, {3}, {"DOWN"}, {3}),
    Snapshots({"FULL"}, {3}, {"DOWN"}, {2}),
    Snapshots({"FULL"}, {1}, Directions, {2}),
    Snapshots({"FULL"}, {2}, {"UP"}, {1}) \cup Snapshots({"FULL"}, {-2}, {"DOWN"}, {1}),
    Snapshots({"PARTIAL"}, {1}, {"UP"}, {2}),
    Snapshots({"FULL"}, {3}, {"RANGE", "DOWN"}, {4}),
    Snapshots({"FULL"}, {1}, {"UP", "DOWN"}, {2}) \cup Snapshots({"PARTIAL"}, {1}, {"UP"}, {2}),
    Snapshots({"FULL"}, {3}, {"DOWN"}, {1}) \cup Snapshots({"PARTIAL"}, {1}, {"UP"}, {1}),
    Snapshots({"PARTIAL"}, {1}, {"DOWN"}, {1}),
    Snapshots({"PARTIAL"}, {1}, {"RANGE"}, {4})>>

(* A corrected bar of the test may change the last label of the validation *)
(* and the first snapshot of the test.                                     *)
MCCorrections ==
  {[i \in 13..14 |-> IF i = 13 THEN a ELSE b] : a \in MCMenu[13], b \in MCMenu[14]}

MCQueries == Snapshots({"FULL"}, 0..3, {"UNRESOLVED"}, {0})
               \cup Snapshots({"PARTIAL"}, {1}, {"UNRESOLVED"}, {0})

(* The Wilson lower bound in percent, rounded, for up to four trials.      *)
WilsonTable == <<<<21>>, <<9, 34>>, <<6, 21, 44>>, <<5, 15, 30, 51>>>>
MCWilsonLower(k, n) == IF k = 0 \/ n \notin 1..4 THEN 0 ELSE WilsonTable[n][k]

=============================================================================
