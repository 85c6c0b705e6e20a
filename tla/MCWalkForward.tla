---------------------------- MODULE MCWalkForward ----------------------------
(***************************************************************************)
(* Fifteen bars are calibrated, and the market goes on for three more. The *)
(* training segment is fixed up to the choice of an opening; validation,   *)
(* evaluation and what comes later take every path of a small step down    *)
(* and a large one up, so that passages of one, two and three bars, and    *)
(* none within the horizon, overlap in every order.                        *)
(***************************************************************************)
EXTENDS WalkForward

MCTrajectories ==
  {<<0, 1, 3, 0, 1, 2, 0, 3, 1, 0, 2, 1, 0, 3, 1, 2, 0, 1>>,
   <<2, 0, 1, 3, 2, 0, 1, 1, 2, 3, 0, 0, 2, 1, 1, 0, 3, 2>>}

MCOpenings ==
  {<<-1, 2, -1, -1, 2, -1, 2, -1, -1, 2, -1, -1>>, <<2, -1, -1, 2, 2, -1, -1, -1, 2, -1, 2, -1>>}

MCMoves == {-1, 2}

=============================================================================
