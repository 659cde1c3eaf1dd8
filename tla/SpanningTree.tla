---------------------------- MODULE SpanningTree ----------------------------
(***************************************************************************)
(* The spanning-tree side of src/node/nswitch/nswitch.go: switches elect   *)
(* the lowest id as root by flooding BPDUs and choose which ports forward. *)
(* Links are Channel: every BPDU arrives, once, in any order.  A loss mark *)
(* does not matter, because ReceivePacket looks at it only for packets     *)
(* that are not BPDUs; nodes that are not switches drop BPDUs.             *)
(***************************************************************************)
EXTENDS Integers, Sequences, Functions, Bags, BagsExt

CONSTANTS Switches,   \* node ids of the switches
          Links,
          Ends,       \* Ends[l]: the ids of the link's two nodes
          Cost,       \* Cost[l]: GetLinkCost()
          Order,      \* Order[l]: the position of its NewLink in the main program
          Early       \* as many links are made before the scheduler runs, the
                      \* others by events the main program has scheduled

ASSUME SwitchesAssumption == Switches \subseteq Nat
ASSUME EndsAssumption ==
  \A l \in Links : /\ Ends[l] \subseteq Nat
                   /\ \E a, b \in Ends[l] : a # b /\ Ends[l] = {a, b}
ASSUME CostAssumption == \A l \in Links : Cost[l] \in Nat \ {0}

ASSUME OrderAssumption == Early \in Nat /\ \A l \in Links : Order[l] \in Nat

VARIABLES links,          \* links[s]: GetLinks(), in the order of AddLink
          linkStates,     \* linkStates[s][l]; "absent" is a missing map key
          rootId, rootPathCost, isRoot,
          wire            \* the BPDUs in flight

vars == <<links, linkStates, rootId, rootPathCost, isRoot, wire>>

LinkState == {"absent", "initial", "forwarding", "blocking"}
BPDU == [link : Links, bridge : Switches, root : Switches, cost : Nat]

Attached(s) == Range(links[s])

\* isLinkBetweenSwitches, and the node of the link that is not s.
BetweenSwitches(l) == Ends[l] \subseteq Switches
Peer(l, s) == CHOOSE t \in Ends[l] : t # s

\* Both AddLinks of l are done.
Made(l) == \A s \in Ends[l] \cap Switches : l \in Attached(s)

Init ==
  /\ links = [s \in Switches |-> <<>>]
  /\ linkStates = [s \in Switches |-> [l \in Links |-> "absent"]]
  /\ rootId = [s \in Switches |-> s]
  /\ rootPathCost = [s \in Switches |-> 0]
  /\ isRoot = [s \in Switches |-> TRUE]
  /\ wire = EmptyBag

\* What sendBPDU puts on the links ls of s, when s knows this root and cost.
BPDUs(s, ls, root, cost) ==
  {[link |-> l, bridge |-> s, root |-> root, cost |-> cost] :
     l \in {k \in ls : BetweenSwitches(k)}}

-----------------------------------------------------------------------------
\* AddLink ends with sendBPDU, on the new link and on all others.
Announced(l) ==
  UNION {BPDUs(s, Attached(s) \cup {l}, rootId[s], rootPathCost[s]) : s \in Ends[l] \cap Switches}

\* NewLink calls AddLink on both nodes.
NewLink(l) ==
  LET ss == Ends[l] \cap Switches
  IN /\ \A s \in ss : l \notin Attached(s)
     /\ \A k \in Links : Order[k] < Order[l] => Made(k)
     /\ links' = [s \in Switches |-> IF s \in ss THEN Append(links[s], l) ELSE links[s]]
     /\ linkStates' = [s \in Switches |->
          IF s \in ss
          THEN [linkStates[s] EXCEPT ![l] = IF isRoot[s] THEN "forwarding" ELSE "initial"]
          ELSE linkStates[s]]
     /\ wire' = wire (+) SetToBag(Announced(l))
     /\ UNCHANGED <<rootId, rootPathCost, isRoot>>

\* The link that updateLinkStates keeps: least cost, then least node id, then
\* the one that was attached first.
Better_highestId(l, k, receivedCost) ==
  LET pathCost(x) == Cost[x] + receivedCost
      id(x) == CHOOSE n \in Ends[x] : \A m \in Ends[x] : n <= m
  IN \/ pathCost(l) < pathCost(k)
     \/ pathCost(l) = pathCost(k) /\ id(l) > id(k)

Better(l, k, receivedCost) ==
  LET pathCost(x) == Cost[x] + receivedCost
      id(x) == CHOOSE n \in Ends[x] : \A m \in Ends[x] : n <= m
  IN \/ pathCost(l) < pathCost(k)
     \/ pathCost(l) = pathCost(k) /\ id(l) < id(k)

BestLinks(s, receivedCost) ==
  {links[s][i] : i \in {j \in DOMAIN links[s] :
     /\ BetweenSwitches(links[s][j])
     /\ \A k \in DOMAIN links[s] :
          BetweenSwitches(links[s][k]) =>
            IF k < j THEN Better(links[s][j], links[s][k], receivedCost)
                     ELSE ~Better(links[s][k], links[s][j], receivedCost)}}

\* updateLinkStates: the states of s's ports after a BPDU with this cost.
PortStates_decidedOnly(s, root, receivedCost) ==
  [l \in Links |->
     IF linkStates[s][l] \in {"absent", "initial"} THEN linkStates[s][l]
     ELSE IF root \/ ~BetweenSwitches(l) \/ l \in BestLinks(s, receivedCost)
          THEN "forwarding" ELSE "blocking"]

PortStates(s, root, receivedCost) ==
  [l \in Links |->
     IF l \notin Attached(s) THEN linkStates[s][l]
     ELSE IF root \/ ~BetweenSwitches(l) \/ l \in BestLinks(s, receivedCost)
          THEN "forwarding" ELSE "blocking"]

\* Is this root information better than what s has?
Improves_costFirst(s, root, cost) ==
  \/ cost < rootPathCost[s]
  \/ cost = rootPathCost[s] /\ root < rootId[s]

Improves_newRootOnly(s, root, cost) == root < rootId[s]

Improves(s, root, cost) ==
  \/ root < rootId[s]
  \/ root = rootId[s] /\ cost < rootPathCost[s]

\* The scheduler delivers nothing before the main program has run it.
Running == \A l \in Links : Order[l] <= Early => Made(l)

\* The link has handed m over.
Delivered_stillQueued(m) == wire

Delivered(m) == BagRemove(wire, m)

\* A changed root or cost is sent on.
Resent(s, root, cost) ==
  IF Improves(s, root, cost) THEN BPDUs(s, Attached(s), root, cost) ELSE {}

\* processBPDU at the switch the BPDU is delivered to.
ProcessBPDU(m) ==
  LET s == Peer(m.link, m.bridge)
      cost == m.cost + Cost[m.link]
      changed == Improves(s, m.root, cost)
  IN /\ BagIn(m, wire) /\ Running
     /\ wire' = Delivered(m) (+) SetToBag(Resent(s, m.root, cost))
     /\ rootId' = [rootId EXCEPT ![s] = IF changed THEN m.root ELSE @]
     /\ rootPathCost' = [rootPathCost EXCEPT ![s] = IF changed THEN cost ELSE @]
     /\ isRoot' = [isRoot EXCEPT ![s] = @ /\ ~changed]
     /\ linkStates' = [linkStates EXCEPT ![s] = PortStates(s, isRoot[s] /\ ~changed, cost)]
     /\ UNCHANGED links

Next == \/ \E l \in Links : NewLink(l)
        \/ \E m \in BagToSet(wire) : ProcessBPDU(m)

Spec == Init /\ [][Next]_vars

\* The main program and the scheduler go on while there is a link to make or a BPDU
\* to deliver; neither is preferred.
FairSpec == Spec /\ WF_vars(Next)

-----------------------------------------------------------------------------
\* The switches' tables and the BPDUs in flight are well formed.
TypeOK ==
  /\ links \in [Switches -> Seq(Links)]
  /\ linkStates \in [Switches -> [Links -> LinkState]]
  /\ rootId \in [Switches -> Switches]
  /\ rootPathCost \in [Switches -> Nat]
  /\ isRoot \in [Switches -> BOOLEAN]
  /\ IsABag(wire) /\ BagToSet(wire) \subseteq BPDU

\* All links are made and no BPDU is in flight.
AtRest == /\ \A l \in Links : Made(l)
          /\ BagToSet(wire) = {}

SwitchLinks == {l \in Links : BetweenSwitches(l)}

\* Every partition of the switches into two is crossed by one of the links.
Connects(ls) ==
  \A part \in SUBSET Switches :
    part # {} /\ part # Switches =>
      \E l \in ls : \E s \in part, t \in Switches \ part : Ends[l] = {s, t}

\* What a switch knows reaches its neighbours: over each of its links the other
\* switch knows something at least as good, or is about to be told.
NewsTravels ==
  \A s \in Switches : \A l \in Attached(s) \cap SwitchLinks :
    \/ ~Improves(Peer(l, s), rootId[s], rootPathCost[s] + Cost[l])
    \/ BagIn([link |-> l, bridge |-> s, root |-> rootId[s], cost |-> rootPathCost[s]], wire)

\* When the exchange is over, all switches agree on the lowest id as root, and
\* only that switch thinks it is the root (nswitch.go:127-131), whatever the
\* order in which the links were made and the BPDUs delivered.
RootAgreementAtRest ==
  AtRest /\ Connects(SwitchLinks) =>
    \A s \in Switches : /\ \A t \in Switches : rootId[s] <= t
                        /\ isRoot[s] <=> rootId[s] = s

\* When the exchange is over, rootPathCost is the length of a shortest path to
\* the root: zero there, elsewhere the best of the neighbours' costs.
ShortestCostAtRest ==
  AtRest /\ Connects(SwitchLinks) =>
    \A s \in Switches :
      IF isRoot[s] THEN rootPathCost[s] = 0
      ELSE /\ \A l \in SwitchLinks : s \in Ends[l] =>
                rootPathCost[s] <= rootPathCost[Peer(l, s)] + Cost[l]
           /\ \E l \in SwitchLinks : s \in Ends[l] /\
                rootPathCost[s] = rootPathCost[Peer(l, s)] + Cost[l]

\* A port of a switch that is not the root keeps the state "initial" of AddLink
\* (nswitch.go:53) if no BPDU comes any more: the link leads to a host, and no
\* link to another switch was attached after it.
CutOff(s, l) ==
  /\ ~isRoot[s] /\ ~BetweenSwitches(l)
  /\ linkStates[s][l] = "initial"
  /\ \A i, j \in DOMAIN links[s] : links[s][j] = l /\ BetweenSwitches(links[s][i]) => i < j

\* When the exchange is over, every port of the root forwards and the ports of the
\* others are decided, forwarding towards hosts, however late its link was made
\* and however BPDUs overtook each other.  The one exception is a host's link at a
\* switch that is not the root, made when all its links to switches were there.
PortsDecidedAtRest ==
  AtRest => \A s \in Switches : \A l \in Attached(s) :
    \/ linkStates[s][l] = "forwarding"
    \/ ~isRoot[s] /\ BetweenSwitches(l) /\ linkStates[s][l] = "blocking"
    \/ CutOff(s, l)

\* The links that carry traffic between switches: both ends forward.
ActiveLinks == {l \in SwitchLinks : \A s \in Ends[l] : linkStates[s][l] = "forwarding"}

\* stp_test.go:12: the switches form a spanning tree: the active links connect
\* them all, and would not without any one of them.
SpanningTreeAtRest ==
  AtRest => /\ Connects(ActiveLinks)
            /\ \A l \in ActiveLinks : ~Connects(ActiveLinks \ {l})

\* The exchange of BPDUs ends: the switches do not answer each other for ever.
Converges == <>[]AtRest
=============================================================================
