----------------------------- MODULE MCLinkState -----------------------------
(***************************************************************************)
(* Instances of LinkState for TLC.  Routers are 2, 3 and 4; "h4" is a      *)
(* network with hosts at router 4.                                         *)
(***************************************************************************)
EXTENDS LinkState, TLC

Three == {2, 3, 4}
Once == 2 :> 1 @@ 3 :> 1 @@ 4 :> 1
TwoFromFour == 2 :> 1 @@ 3 :> 1 @@ 4 :> 2

\* A triangle whose direct link from 2 to 4 is slow.
TriangleLinks == {"23", "24", "34", "h4"}
TriangleEnds == "23" :> {2, 3} @@ "24" :> {2, 4} @@ "34" :> {3, 4} @@ "h4" :> {4, 9}
SlowDirectLink == "23" :> 1 @@ "24" :> 3 @@ "34" :> 1 @@ "h4" :> 1
=============================================================================
