------------------------------- MODULE MCTcp -------------------------------
(***************************************************************************)
(* An instance of Tcp for TLC: two flows of host a to the same port of     *)
(* host b, which share a connection, and one flow back.                    *)
(***************************************************************************)
EXTENDS Tcp

ThreeFlows == {"e", "f", "g"}
Sources == "e" :> "a" @@ "f" :> "a" @@ "g" :> "b"
Destinations == "e" :> "b" @@ "f" :> "b" @@ "g" :> "a"
SrcPorts == "e" :> 5 @@ "f" :> 1 @@ "g" :> 2
DstPorts == "e" :> 3 @@ "f" :> 3 @@ "g" :> 4
Lengths == "e" :> 1 @@ "f" :> 2 @@ "g" :> 3
=============================================================================
