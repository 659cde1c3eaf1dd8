------------------------------ MODULE LinkState ------------------------------
(***************************************************************************)
(* Link-state routing in src/node/router: handleHelloP.go finds the        *)
(* neighbours, handleLsaP.go floods every router's links and computes      *)
(* routing tables from them.  Links are Channel: every Hello and LSA       *)
(* arrives, once, in any order, loss mark or not (ReceivePacket does not   *)
(* look at it).  All links are made before the scheduler runs; each is a   *)
(* network of its own, between two routers or a router and another node,   *)
(* which drops Hellos and LSAs.                                            *)
(***************************************************************************)
EXTENDS Integers, FiniteSets, FiniteSetsExt, Functions, Bags, BagsExt

CONSTANTS Routers,    \* node ids of the routers
          Links,
          Ends,       \* Ends[l]: the ids of the link's two nodes
          Cost,       \* Cost[l]: GetLinkCost()
          SlowLinks,  \* the links with a delay of 0.2 s or more
          MaxHellos, MaxLsas   \* how often each router sends: bounds on the run

ASSUME RoutersAssumption == Routers \subseteq Nat /\ IsFiniteSet(Routers)
ASSUME EndsAssumption ==
  \A l \in Links : /\ Ends[l] \subseteq Nat
                   /\ \E a, b \in Ends[l] : a # b /\ Ends[l] = {a, b}
ASSUME CostAssumption == \A l \in Links : Cost[l] \in Nat \ {0}
ASSUME SlowAssumption == SlowLinks \subseteq Links
ASSUME BoundsAssumption ==
  /\ MaxHellos \in [Routers -> Nat \ {0}]
  /\ MaxLsas \in [Routers -> Nat \ {0}]

VARIABLES neighbors,              \* neighbors[r][q].link, NoLink if q is unknown to r
          lsaSequenceNumber,
          isTopologyInitialized,
          topologyDatabase,       \* [r][q].sequenceNumber, Absent if there is no entry
          routingTable,           \* routingTable[r][l]: the entry for l's network
          wire,                   \* the Hellos and LSAs in flight
          hellos,                 \* how many Hellos each router has sent
          panicked                \* the program has ended in a panic

vars == <<neighbors, lsaSequenceNumber, isTopologyInitialized, topologyDatabase,
          routingTable, wire, hellos, panicked>>

NoLink == "nil"
Absent == -1
Direct == -1
NoRoute == [nexthop |-> Direct, link |-> NoLink]
\* nil is not a link.
ASSUME NilAssumption == NoLink \notin Links

interfaces(r) == {l \in Links : r \in Ends[l]}
RouterLinks == {l \in Links : Ends[l] \subseteq Routers}
Peer(l, r) == CHOOSE q \in Ends[l] : q # r

Hello == [type : {"Hello"}, link : RouterLinks, from : Routers]
Lsa == [type : {"LSA"}, link : RouterLinks, from : Routers, origin : Routers, seq : Nat \ {0}]
Entry == [nexthop : Routers \cup {Direct}, link : Links \cup {NoLink}]

\* Copies for the routers at the other ends of the links ls of r.
Hellos(r) == {[type |-> "Hello", link |-> l, from |-> r] : l \in interfaces(r) \cap RouterLinks}
Lsas(r, ls, origin, seq) ==
  {[type |-> "LSA", link |-> l, from |-> r, origin |-> origin, seq |-> seq] :
     l \in ls \cap interfaces(r) \cap RouterLinks}

\* NewRouter and AddLink.
Init ==
  /\ neighbors = [r \in Routers |-> [q \in Routers |-> NoLink]]
  /\ lsaSequenceNumber = [r \in Routers |-> 0]
  /\ isTopologyInitialized = [r \in Routers |-> FALSE]
  /\ topologyDatabase = [r \in Routers |-> [q \in Routers |-> Absent]]
  /\ routingTable = [r \in Routers |-> [l \in Links |->
       IF r \in Ends[l] THEN [nexthop |-> Direct, link |-> l] ELSE NoRoute]]
  /\ wire = EmptyBag
  /\ hellos = [r \in Routers |-> 0]
  /\ panicked = FALSE

-----------------------------------------------------------------------------
\* Hellos: to every neighbour, again and again.
sendHelloPacket(r) ==
  /\ hellos[r] < MaxHellos[r] /\ ~panicked
  /\ hellos' = [hellos EXCEPT ![r] = @ + 1]
  /\ wire' = wire (+) SetToBag(Hellos(r))
  /\ UNCHANGED <<neighbors, lsaSequenceNumber, isTopologyInitialized, topologyDatabase,
                 routingTable, panicked>>

\* The link of a known neighbour is replaced too.
receiveHelloPacket(m) ==
  /\ BagIn(m, wire) /\ m.type = "Hello" /\ ~panicked
  /\ neighbors' = [neighbors EXCEPT ![Peer(m.link, m.from)][m.from] = m.link]
  /\ wire' = BagRemove(wire, m)
  /\ UNCHANGED <<lsaSequenceNumber, isTopologyInitialized, topologyDatabase,
                 routingTable, hellos, panicked>>

\* The first Hello is sent before 0.1 s (scheduleHelloPacket), the first LSA
\* after 0.3 s (scheduleLsaPacket): all Hellos but those on slow links are there.
FirstHellosDone ==
  /\ \A r \in Routers : hellos[r] > 0
  /\ \A l \in RouterLinks \ SlowLinks : \A r \in Ends[l] : neighbors[r][Peer(l, r)] # NoLink

sendLsaPacket(r) ==
  /\ lsaSequenceNumber[r] < MaxLsas[r] /\ FirstHellosDone /\ ~panicked
  /\ lsaSequenceNumber' = [lsaSequenceNumber EXCEPT ![r] = @ + 1]
  /\ wire' = wire (+) SetToBag(Lsas(r, interfaces(r), r, lsaSequenceNumber[r] + 1))
  /\ UNCHANGED <<neighbors, isTopologyInitialized, topologyDatabase, routingTable,
                 hellos, panicked>>

-----------------------------------------------------------------------------
\* The routers of the database that can be reached from r: those in every set
\* that contains r and that no link leaves.
reached(r, known) ==
  LET leaves(l, part) == \E q \in part, o \in known \ part : Ends[l] = {q, o}
  IN {q \in known : \A part \in SUBSET (known \ {q}) :
        r \in part => \E l \in RouterLinks : leaves(l, part)}

linkCost(q, o) == Min({Cost[l] : l \in {k \in Links : Ends[k] = {q, o}}})

\* calculateShortestPaths, by its result: previousNodes is a tree of shortest
\* paths from r, any one because the order of the links in an LSA is that of a
\* Go map.  The routers that are left at math.Inf are not in it.
ShortestPathTrees(r, known) ==
  LET nodes == reached(r, known)
      linked(q, o) == \E l \in Links : Ends[l] = {q, o}
      shortest(previous) ==
        LET cost[q \in nodes] ==
              IF q = r THEN 0 ELSE cost[previous[q]] + linkCost(q, previous[q])
        IN \A q, o \in nodes : linked(q, o) => cost[q] <= cost[o] + linkCost(q, o)
      tree(previous) == \A part \in SUBSET (nodes \ {r}) :
                          part # {} => \E q \in part : previous[q] \notin part
  IN {previous \in [nodes \ {r} -> nodes] :
        /\ \A q \in nodes \ {r} : linked(q, previous[q])
        /\ tree(previous) /\ shortest(previous)}

calculateShortestPaths ==
  [r \in Routers |-> [known \in SUBSET Routers |-> ShortestPathTrees(r, known)]]

\* findInitialHop, for all destinations.
findInitialHop(r, previous) ==
  LET hop[q \in DOMAIN previous] == IF previous[q] = r THEN q ELSE hop[previous[q]]
  IN hop

\* The table written by updateRoutingTableWithDijkstra.  Both routers of a
\* network have an entry for it, and the one that comes later in the order,
\* which is that of a Go map, replaces the other.
newRoutingTable(r, hop, order) ==
  [l \in Links |->
     LET routers == Ends[l] \cap DOMAIN hop
         last == CHOOSE q \in routers : \A p \in routers : order[p] <= order[q]
     IN IF routers # {}
        THEN [nexthop |-> IF r \in Ends[l] THEN Direct ELSE hop[last],
              link |-> neighbors[r][hop[last]]]
        ELSE IF r \in Ends[l] THEN [nexthop |-> Direct, link |-> l] ELSE NoRoute]

\* getLinkToNeighbor dereferences the neighbour's entry: a nil pointer when
\* no Hello of it has arrived yet.
updateRoutingTableWithDijkstra(r, known) ==
  \E previous \in calculateShortestPaths[r][known] :
    LET hop == findInitialHop(r, previous)
        found == \A q \in DOMAIN hop : neighbors[r][hop[q]] # NoLink
    IN /\ panicked' = ~found
       /\ IF found
          THEN \E order \in Bijection(DOMAIN hop, 1 .. Cardinality(DOMAIN hop)) :
                 routingTable' = [routingTable EXCEPT ![r] = newRoutingTable(r, hop, order)]
          ELSE UNCHANGED routingTable

\* A missing entry counts as sequence number 0.
Newer_firstOnly(seq, stored) == stored = Absent
Newer_needsEntry(seq, stored) == stored # Absent /\ seq > stored
Newer_orEqual(seq, stored) == seq >= stored
Newer(seq, stored) == seq > stored \/ (stored = Absent /\ seq > 0)

\* floodLsa: back over the link it came from too, but not to the origin.
floodLsa_ownId(r, origin, seq) == Lsas(r, {l \in interfaces(r) : r \notin Ends[l]}, origin, seq)
floodLsa(r, origin, seq) == Lsas(r, {l \in interfaces(r) : origin \notin Ends[l]}, origin, seq)

\* initializeTopologyDatabase
initialized(r) ==
  IF isTopologyInitialized[r] THEN topologyDatabase[r]
  ELSE [topologyDatabase[r] EXCEPT ![r] = 0]

receiveLsaPacket(m) ==
  LET r == Peer(m.link, m.from)
      accepted == Newer(m.seq, initialized(r)[m.origin])
      database == IF accepted THEN [initialized(r) EXCEPT ![m.origin] = m.seq] ELSE initialized(r)
  IN /\ BagIn(m, wire) /\ m.type = "LSA" /\ ~panicked
     /\ isTopologyInitialized' = [isTopologyInitialized EXCEPT ![r] = TRUE]
     /\ topologyDatabase' = [topologyDatabase EXCEPT ![r] = database]
     /\ IF accepted
        THEN updateRoutingTableWithDijkstra(r, {q \in Routers : database[q] # Absent})
        ELSE UNCHANGED <<routingTable, panicked>>
     /\ wire' = BagRemove(wire, m) (+)
                SetToBag(IF accepted /\ ~panicked' THEN floodLsa(r, m.origin, m.seq) ELSE {})
     /\ UNCHANGED <<neighbors, lsaSequenceNumber, hellos>>

Next == \/ \E r \in Routers : sendHelloPacket(r) \/ sendLsaPacket(r)
        \/ \E m \in BagToSet(wire) : receiveHelloPacket(m) \/ receiveLsaPacket(m)

Spec == Init /\ [][Next]_vars

\* The scheduler runs on while a send or a delivery is scheduled.
FairSpec == Spec /\ WF_vars(Next)

-----------------------------------------------------------------------------
\* The fields of every router and the packets in flight have their types.
TypeOK ==
  /\ neighbors \in [Routers -> [Routers -> Links \cup {NoLink}]]
  /\ lsaSequenceNumber \in [Routers -> Nat]
  /\ isTopologyInitialized \in [Routers -> BOOLEAN]
  /\ topologyDatabase \in [Routers -> [Routers -> Nat \cup {Absent}]]
  /\ routingTable \in [Routers -> [Links -> Entry]]
  /\ IsABag(wire) /\ BagToSet(wire) \subseteq Hello \cup Lsa
  /\ hellos \in [Routers -> Nat]
  /\ panicked \in BOOLEAN

\* Is origin's LSA with this number on its way from r over l?
OnItsWay(l, r, origin, seq) ==
  [type |-> "LSA", link |-> l, from |-> r, origin |-> origin, seq |-> seq] \in BagToSet(wire)

\* Flooding leaves no gap (handleLsaP.go:91-103): over every link the other
\* router has an LSA at least as new as this one's, or is about to get it.
FloodLeavesNoGap ==
  ~panicked =>
    \A l \in RouterLinks : \A r \in Ends[l] :
      LET q == Peer(l, r)
      IN /\ \/ topologyDatabase[q][r] >= lsaSequenceNumber[r]
            \/ lsaSequenceNumber[r] = 0
            \/ OnItsWay(l, r, r, lsaSequenceNumber[r])
         /\ \A o \in Routers \ Ends[l] :
              \/ topologyDatabase[q][o] >= topologyDatabase[r][o]
              \/ OnItsWay(l, r, o, topologyDatabase[r][o])

\* A router's own LSA never comes back to it (handleLsaP.go:60), so its own
\* entry stays what initializeTopologyDatabase made it.
OwnEntryUntouched ==
  \A r \in Routers :
    topologyDatabase[r][r] = IF isTopologyInitialized[r] THEN 0 ELSE Absent

Connects(ls) ==
  \A part \in SUBSET Routers :
    part # {} /\ part # Routers =>
      \E l \in ls : \E r \in part, q \in Routers \ part : Ends[l] = {r, q}

NoLsaInFlight == ~panicked /\ \A m \in BagToSet(wire) : m.type # "LSA"

\* lsa_test.go:13: when no LSA is in flight, every router has the latest LSA
\* of every other router.
SameTopologyAtRest ==
  NoLsaInFlight /\ Connects(RouterLinks) =>
    \A r, o \in Routers :
      r # o /\ lsaSequenceNumber[o] > 0 => topologyDatabase[r][o] = lsaSequenceNumber[o]

\* Where r sends a packet for the network of l.
Forward(l) == [r \in Routers |-> IF r \in Ends[l] THEN r ELSE Peer(routingTable[r][l].link, r)]

\* arp_with_router_test.go:14: a packet for a network with one router gets
\* there by the routers' tables, from every router and with every order of Go's maps.
RoutesArriveAtRest ==
  NoLsaInFlight /\ Connects(RouterLinks) /\ (\A o \in Routers : lsaSequenceNumber[o] > 0) =>
    \A l \in Links \ RouterLinks : \A home \in Ends[l] \cap Routers, r \in Routers :
      LET at[k \in 0 .. Cardinality(Routers)] == IF k = 0 THEN r ELSE Forward(l)[at[k - 1]]
      IN /\ \A q \in Routers : routingTable[q][l] # NoRoute
         /\ at[Cardinality(Routers)] = home

\* All routers have announced themselves and are done with it.
Settled == NoLsaInFlight /\ lsaSequenceNumber = MaxLsas

\* The flooding ends, although LSAs also go back over the link they came from.
FloodingEnds == <>[]Settled
=============================================================================
