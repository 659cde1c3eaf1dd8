--------------------------- MODULE MCSpanningTree ---------------------------
(***************************************************************************)
(* Instances of SpanningTree for TLC.  Switch ids start at 5 and the host  *)
(* is 1, as in the repository's tests.                                     *)
(***************************************************************************)
EXTENDS SpanningTree, TLC

Three == {5, 6, 7}

\* A full mesh of three switches with equal costs, and a host that is linked to
\* switch 7 last.
MeshLinks == {"56", "57", "67", "h7"}

\* Three switches in a row.
RowLinks == {"56", "67"}

LinkEnds == "56" :> {5, 6} @@ "57" :> {5, 7} @@ "67" :> {6, 7} @@ "h7" :> {1, 7}
EqualCost == [l \in DOMAIN LinkEnds |-> 1]
Program == "56" :> 1 @@ "57" :> 2 @@ "67" :> 3 @@ "h7" :> 4
=============================================================================
