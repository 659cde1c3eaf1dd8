------------------------------- MODULE MCLink -------------------------------
(***************************************************************************)
(* Instances of Link for TLC: one slow packet and some fast ones, in one   *)
(* direction of a link or in both.                                         *)
(***************************************************************************)
EXTENDS Link, TLC

CONSTANTS p1, p2, p3, p4

\* Four packets are the fewest with which a transfer is scheduled into the past.
SlowThenFast == p1 :> 4 @@ p2 :> 1 @@ p3 :> 1
SlowThenThreeFast == SlowThenFast @@ p4 :> 1
Directions == {"XY", "YX"}
OneDirection == {"XY"}
RunUntilTimes == {3, 6}
RunForever == {Forever}
=============================================================================
