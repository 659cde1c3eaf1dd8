--------------------------- MODULE MCShortestPaths ---------------------------
(***************************************************************************)
(* Instances of ShortestPaths for TLC: every network of routers 1 to 4 in  *)
(* which a pair has no link, a cheap or a dear one, seen from router 1     *)
(* with all or with three of the routers in the database.                  *)
(***************************************************************************)
EXTENDS ShortestPaths, FiniteSets

Ids == 1 .. 4
Pairs == {p \in SUBSET Ids : Cardinality(p) = 2}
Infos(cost, r) ==
  {[neighbor |-> q, cost |-> cost[{r, q}]] : q \in {o \in Ids \ {r} : cost[{r, o}] # 0}}

AllNetworks ==
  {[r \in ids |-> Infos(cost, r)] : ids \in {Ids, {1, 2, 3}}, cost \in [Pairs -> {0, 1, 3}]}
=============================================================================
