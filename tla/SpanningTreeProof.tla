------------------------- MODULE SpanningTreeProof -------------------------
(***************************************************************************)
(* Theorems about SpanningTree, for every set of switches and links, every *)
(* cost and every order of the main program's NewLinks.                    *)
(***************************************************************************)
EXTENDS SpanningTree, CommonFacts, TLAPS

\* The two ends of a link.
LEMMA PeerFacts ==
  ASSUME NEW l \in Links, NEW s \in Ends[l]
  PROVE  /\ Peer(l, s) \in Ends[l] /\ Peer(l, s) # s
         /\ Ends[l] = {s, Peer(l, s)}
         /\ Peer(l, Peer(l, s)) = s
<1>1. PICK a, b \in Ends[l] : a # b /\ Ends[l] = {a, b}
  BY EndsAssumption
<1>2. \E t \in Ends[l] : t # s
  BY <1>1
<1>3. Peer(l, s) \in Ends[l] /\ Peer(l, s) # s
  BY <1>2 DEF Peer
<1>4. Ends[l] = {s, Peer(l, s)}
  BY <1>1, <1>3
<1>5. \A t \in Ends[l] : t # Peer(l, s) => t = s
  BY <1>4
<1>6. Peer(l, Peer(l, s)) \in Ends[l] /\ Peer(l, Peer(l, s)) # Peer(l, s)
  BY <1>3 DEF Peer
<1>7. QED BY <1>3, <1>4, <1>5, <1>6

LEMMA RangeAppend ==
  ASSUME NEW q \in Seq(Links), NEW l \in Links
  PROVE  Append(q, l) \in Seq(Links) /\ Range(Append(q, l)) = Range(q) \cup {l}
<1>1. Append(q, l) \in Seq(Links)
  OBVIOUS
<1>2. DOMAIN Append(q, l) = DOMAIN q \cup {Len(q) + 1}
  OBVIOUS
<1>3. \A i \in DOMAIN q : Append(q, l)[i] = q[i]
  OBVIOUS
<1>4. Append(q, l)[Len(q) + 1] = l
  OBVIOUS
<1>5. Range(Append(q, l)) = Range(q) \cup {l}
  BY <1>2, <1>3, <1>4 DEF Range
<1>6. QED BY <1>1, <1>5

-----------------------------------------------------------------------------
\* Both ends of an attached link know it, and BPDUs come from switches over
\* links between switches.
Structure ==
  /\ \A s \in Switches : \A l \in Attached(s) :
       s \in Ends[l] /\ \A t \in Ends[l] \cap Switches : l \in Attached(t)
  /\ \A m \in BagToSet(wire) : BetweenSwitches(m.link) /\ m.bridge \in Ends[m.link]

\* A switch is its own root exactly when it says so, and then at no cost.
OwnRoot ==
  \A s \in Switches : /\ rootId[s] <= s
                      /\ isRoot[s] <=> rootId[s] = s
                      /\ isRoot[s] => rootPathCost[s] = 0

LEMMA AttachedLinks == TypeOK => \A s \in Switches : Attached(s) \subseteq Links
  BY DEF TypeOK, Attached, Range

\* The receiver of a BPDU, and what the BPDU tells it.
LEMMA Receiver ==
  ASSUME TypeOK, Structure, NEW m \in BagToSet(wire)
  PROVE  /\ m \in BPDU
         /\ m.link \in Links /\ m.bridge \in Switches /\ m.root \in Switches
         /\ m.root \in Nat /\ m.cost \in Nat /\ Cost[m.link] \in Nat
         /\ m.cost + Cost[m.link] \in Nat
         /\ Peer(m.link, m.bridge) \in Switches
         /\ Peer(m.link, Peer(m.link, m.bridge)) = m.bridge
         /\ Peer(m.link, m.bridge) \in Ends[m.link] /\ m.bridge \in Ends[m.link]
         /\ m.bridge # Peer(m.link, m.bridge)
<1>1. m \in BPDU /\ BetweenSwitches(m.link) /\ m.bridge \in Ends[m.link]
  BY DEF TypeOK, Structure
<1>2. m.link \in Links /\ m.bridge \in Switches /\ m.root \in Switches /\ m.cost \in Nat
  BY <1>1 DEF BPDU
<1>3. m.root \in Switches /\ m.root \in Nat /\ Cost[m.link] \in Nat
  BY <1>1, <1>2, CostAssumption, SwitchesAssumption DEF BPDU
<1>4. m.cost + Cost[m.link] \in Nat
  BY <1>2, <1>3
<1>5. /\ Peer(m.link, m.bridge) \in Ends[m.link] /\ Peer(m.link, m.bridge) # m.bridge
      /\ Peer(m.link, Peer(m.link, m.bridge)) = m.bridge
  BY <1>1, <1>2, PeerFacts
<1>6. Peer(m.link, m.bridge) \in Switches
  BY <1>1, <1>5 DEF BetweenSwitches
<1>7. QED BY <1>1, <1>2, <1>3, <1>4, <1>5, <1>6

LEMMA SentAreBPDUs ==
  ASSUME NEW s \in Switches, NEW ls \in SUBSET Links, NEW r \in Switches, NEW c \in Nat
  PROVE  /\ BPDUs(s, ls, r, c) \subseteq BPDU
         /\ \A m \in BPDUs(s, ls, r, c) :
              m.bridge = s /\ m.link \in ls /\ BetweenSwitches(m.link) /\ m.root = r /\ m.cost = c
  BY DEF BPDUs, BPDU

\* What NewLink does.
LEMMA NewLinkEffect ==
  ASSUME TypeOK, Structure, NEW l \in Links, NewLink(l)
  PROVE  /\ TypeOK' /\ Structure'
         /\ \A s \in Switches : Attached(s)' = IF s \in Ends[l] THEN Attached(s) \cup {l} ELSE Attached(s)
         /\ BagToSet(wire') = BagToSet(wire) \cup Announced(l)
         /\ rootId' = rootId /\ rootPathCost' = rootPathCost /\ isRoot' = isRoot
<1>1. ASSUME NEW s \in Switches
      PROVE  /\ links'[s] \in Seq(Links)
             /\ Range(links'[s]) = IF s \in Ends[l] THEN Range(links[s]) \cup {l} ELSE Range(links[s])
  <2>1. links[s] \in Seq(Links)
    BY DEF TypeOK
  <2>2. links'[s] = IF s \in Ends[l] THEN Append(links[s], l) ELSE links[s]
    BY DEF NewLink
  <2>3. QED BY <2>1, <2>2, RangeAppend
<1>2. \A s \in Switches : Attached(s)' = IF s \in Ends[l] THEN Attached(s) \cup {l} ELSE Attached(s)
  BY <1>1 DEF Attached
<1>3. BagToSet(wire') = BagToSet(wire) \cup Announced(l) /\ IsABag(wire')
  BY WireAdd DEF NewLink, TypeOK
<1>4. \A m \in Announced(l) : /\ m \in BPDU /\ BetweenSwitches(m.link)
                              /\ m.bridge \in Ends[m.link]
  <2>1. SUFFICES ASSUME NEW s \in Ends[l] \cap Switches,
                        NEW m \in BPDUs(s, Attached(s) \cup {l}, rootId[s], rootPathCost[s])
                 PROVE  m \in BPDU /\ BetweenSwitches(m.link) /\ m.bridge \in Ends[m.link]
    BY DEF Announced
  <2>2. Attached(s) \cup {l} \subseteq Links /\ rootId[s] \in Switches /\ rootPathCost[s] \in Nat
    BY AttachedLinks DEF TypeOK
  <2>3. m \in BPDU /\ m.bridge = s /\ m.link \in Attached(s) \cup {l} /\ BetweenSwitches(m.link)
    BY <2>2, SentAreBPDUs
  <2>4. QED BY <2>3 DEF Structure
<1>5. rootId' = rootId /\ rootPathCost' = rootPathCost /\ isRoot' = isRoot
  BY DEF NewLink
<1>6. TypeOK'
  <2>1. links' \in [Switches -> Seq(Links)]
    BY <1>1 DEF NewLink
  <2>2. linkStates' \in [Switches -> [Links -> LinkState]]
    BY DEF NewLink, TypeOK, LinkState
  <2>3. BagToSet(wire') \subseteq BPDU
    BY <1>3, <1>4 DEF TypeOK
  <2>4. QED BY <1>3, <1>5, <2>1, <2>2, <2>3 DEF TypeOK
<1>7. Structure'
  <2>1. \A s \in Switches : \A k \in Attached(s)' :
          s \in Ends[k] /\ \A t \in Ends[k] \cap Switches : k \in Attached(t)'
    BY <1>2 DEF Structure
  <2>2. QED BY <1>3, <1>4, <2>1 DEF Structure, BetweenSwitches
<1>8. QED BY <1>2, <1>3, <1>5, <1>6, <1>7

\* What processBPDU does.
LEMMA ProcessEffect ==
  ASSUME TypeOK, Structure, NEW m \in BagToSet(wire), ProcessBPDU(m),
         NEW s, s = Peer(m.link, m.bridge),
         NEW cost, cost = m.cost + Cost[m.link]
  PROVE  /\ TypeOK' /\ Structure'
         /\ \A t \in Switches : Attached(t)' = Attached(t)
         /\ \A t \in Switches \ {s} : /\ rootId'[t] = rootId[t]
                                      /\ rootPathCost'[t] = rootPathCost[t]
                                      /\ isRoot'[t] = isRoot[t]
         /\ Improves(s, m.root, cost) =>
              /\ rootId'[s] = m.root /\ rootPathCost'[s] = cost /\ isRoot'[s] = FALSE
              /\ BPDUs(s, Attached(s), m.root, cost) \subseteq BagToSet(wire')
         /\ ~Improves(s, m.root, cost) =>
              /\ rootId'[s] = rootId[s] /\ rootPathCost'[s] = rootPathCost[s]
              /\ isRoot'[s] = isRoot[s]
         /\ BagToSet(wire) \ {m} \subseteq BagToSet(wire')
         /\ BagToSet(wire') \subseteq
              BagToSet(wire) \cup IF Improves(s, m.root, cost)
                                  THEN BPDUs(s, Attached(s), m.root, cost) ELSE {}
<1> DEFINE changed == Improves(s, m.root, cost)
<1>1. s \in Switches /\ cost \in Nat /\ m.root \in Switches
  BY Receiver
<1>2. changed \in BOOLEAN
  BY DEF Improves
<1>3. /\ rootId' = [rootId EXCEPT ![s] = IF changed THEN m.root ELSE @]
      /\ rootPathCost' = [rootPathCost EXCEPT ![s] = IF changed THEN cost ELSE @]
      /\ isRoot' = [isRoot EXCEPT ![s] = @ /\ ~changed]
      /\ linkStates' = [linkStates EXCEPT ![s] = PortStates(s, isRoot[s] /\ ~changed, cost)]
      /\ wire' = BagRemove(wire, m) (+) SetToBag(Resent(s, m.root, cost))
      /\ links' = links
  BY DEF ProcessBPDU, Delivered
<1>4. /\ IsABag(wire')
      /\ BagToSet(wire') = BagToSet(BagRemove(wire, m)) \cup Resent(s, m.root, cost)
      /\ BagToSet(BagRemove(wire, m)) \subseteq BagToSet(wire)
      /\ BagToSet(wire) \ {m} \subseteq BagToSet(BagRemove(wire, m))
  <2>1. /\ IsABag(BagRemove(wire, m))
        /\ BagToSet(BagRemove(wire, m)) \subseteq BagToSet(wire)
        /\ BagToSet(wire) \ {m} \subseteq BagToSet(BagRemove(wire, m))
    BY WireRemove DEF TypeOK, BagRemove, Ext!BagRemove
  <2>2. QED BY <1>3, <2>1, WireAdd
<1>5. Resent(s, m.root, cost) = IF changed THEN BPDUs(s, Attached(s), m.root, cost) ELSE {}
  BY DEF Resent
<1>6. Attached(s) \in SUBSET Links
  BY <1>1, AttachedLinks
<1>7. \A n \in BPDUs(s, Attached(s), m.root, cost) :
        n \in BPDU /\ BetweenSwitches(n.link) /\ n.bridge \in Ends[n.link]
  BY <1>1, <1>6, SentAreBPDUs DEF Structure
<1>8. PortStates(s, isRoot[s] /\ ~changed, cost) \in [Links -> LinkState]
  BY <1>1 DEF PortStates, TypeOK, LinkState
<1>9. TypeOK'
  <2>1. rootId' \in [Switches -> Switches] /\ rootPathCost' \in [Switches -> Nat]
    BY <1>1, <1>2, <1>3 DEF TypeOK
  <2>2. isRoot' \in [Switches -> BOOLEAN]
    BY <1>1, <1>2, <1>3 DEF TypeOK
  <2>3. linkStates' \in [Switches -> [Links -> LinkState]]
    BY <1>1, <1>3, <1>8 DEF TypeOK
  <2>4. BagToSet(wire') \subseteq BPDU
    BY <1>4, <1>5, <1>7 DEF TypeOK
  <2>5. QED BY <1>3, <1>4, <2>1, <2>2, <2>3, <2>4 DEF TypeOK
<1>10. \A t \in Switches : Attached(t)' = Attached(t)
  BY <1>3 DEF Attached
<1>11. Structure'
  BY <1>4, <1>5, <1>7, <1>10 DEF Structure, BetweenSwitches
<1>12. \A t \in Switches \ {s} : /\ rootId'[t] = rootId[t]
                                 /\ rootPathCost'[t] = rootPathCost[t]
                                 /\ isRoot'[t] = isRoot[t]
  BY <1>3 DEF TypeOK
<1>13. CASE changed
  <2>1. rootId'[s] = m.root /\ rootPathCost'[s] = cost /\ isRoot'[s] = FALSE
    BY <1>1, <1>3, <1>13 DEF TypeOK
  <2>2. BPDUs(s, Attached(s), m.root, cost) \subseteq BagToSet(wire')
    BY <1>4, <1>5, <1>13
  <2>3. QED BY <1>4, <1>5, <1>9, <1>10, <1>11, <1>12, <1>13, <2>1, <2>2
<1>14. CASE ~changed
  <2>1. rootId'[s] = rootId[s] /\ rootPathCost'[s] = rootPathCost[s]
    BY <1>1, <1>3, <1>14 DEF TypeOK
  <2>2. isRoot'[s] = isRoot[s]
    BY <1>1, <1>3, <1>14 DEF TypeOK
  <2>3. QED BY <1>4, <1>5, <1>9, <1>10, <1>11, <1>12, <1>14, <2>1, <2>2
<1>15. QED BY <1>13, <1>14

-----------------------------------------------------------------------------
\* What a switch knows is at least as good as this root and cost.
Knows(s, root, cost) ==
  rootId[s] < root \/ (rootId[s] = root /\ rootPathCost[s] <= cost)

LEMMA KnowsOrImproves ==
  ASSUME TypeOK, NEW s \in Switches, NEW r \in Nat, NEW c \in Nat
  PROVE  Knows(s, r, c) <=> ~Improves(s, r, c)
<1>1. rootId[s] \in Nat /\ rootPathCost[s] \in Nat
  BY SwitchesAssumption DEF TypeOK
<1>2. QED BY <1>1 DEF Knows, Improves

\* A BPDU never claims more than its sender knows, and a switch that is not
\* its own root has its cost from a neighbour.
NoRumour == \A m \in BagToSet(wire) : Knows(m.bridge, m.root, m.cost)

Support ==
  \A s \in Switches : ~isRoot[s] =>
    \E l \in SwitchLinks : /\ s \in Ends[l]
                           /\ \/ rootId[Peer(l, s)] < rootId[s]
                              \/ /\ rootId[Peer(l, s)] = rootId[s]
                                 /\ rootPathCost[Peer(l, s)] + Cost[l] <= rootPathCost[s]

IInv == TypeOK /\ Structure /\ OwnRoot /\ NoRumour /\ Support /\ NewsTravels

\* A switch only ever learns better roots and costs.
LEMMA OnlyBetter ==
  ASSUME TypeOK, Structure, OwnRoot, NEW m \in BagToSet(wire), ProcessBPDU(m), NEW t \in Switches
  PROVE  /\ rootId'[t] < rootId[t] \/ (rootId'[t] = rootId[t] /\ rootPathCost'[t] <= rootPathCost[t])
         /\ isRoot'[t] => isRoot[t]
<1> DEFINE s == Peer(m.link, m.bridge)
           cost == m.cost + Cost[m.link]
<1>1. /\ rootId[t] \in Nat /\ rootPathCost[t] \in Nat
      /\ isRoot \in [Switches -> BOOLEAN]
  BY SwitchesAssumption DEF TypeOK
<1>2. s \in Switches
  BY Receiver
<1> HIDE DEF s, cost
<1>3. /\ \A u \in Switches \ {s} : /\ rootId'[u] = rootId[u]
                                   /\ rootPathCost'[u] = rootPathCost[u]
                                   /\ isRoot'[u] = isRoot[u]
      /\ Improves(s, m.root, cost) =>
           rootId'[s] = m.root /\ rootPathCost'[s] = cost /\ isRoot'[s] = FALSE
      /\ ~Improves(s, m.root, cost) =>
           /\ rootId'[s] = rootId[s] /\ rootPathCost'[s] = rootPathCost[s]
           /\ isRoot'[s] = isRoot[s]
  BY ProcessEffect DEF s, cost
<1>4. m.root \in Nat /\ cost \in Nat
  BY Receiver DEF cost
<1>5. CASE t # s
  BY <1>1, <1>3, <1>5
<1>6. CASE t = s /\ ~Improves(s, m.root, cost)
  BY <1>1, <1>3, <1>6
<1>7. CASE t = s /\ Improves(s, m.root, cost)
  BY <1>1, <1>3, <1>4, <1>7 DEF Improves
<1>8. QED BY <1>5, <1>6, <1>7

\* Nothing that a switch knows is forgotten.
LEMMA StillKnows ==
  ASSUME TypeOK, Structure, OwnRoot, NEW m \in BagToSet(wire), ProcessBPDU(m),
         NEW t \in Switches, NEW r \in Nat, NEW c \in Nat, Knows(t, r, c)
  PROVE  Knows(t, r, c)'
<1>1. rootId[t] \in Nat /\ rootPathCost[t] \in Nat
  BY SwitchesAssumption DEF TypeOK
<1>2. TypeOK'
  BY ProcessEffect
<1>3. rootId'[t] \in Nat /\ rootPathCost'[t] \in Nat
  BY <1>2, SwitchesAssumption DEF TypeOK
<1>4. QED BY <1>1, <1>3, OnlyBetter DEF Knows

LEMMA InitInv == Init => IInv
<1> SUFFICES ASSUME Init PROVE IInv
  OBVIOUS
<1>1. IsABag(wire) /\ BagToSet(wire) = {}
  BY DEF Init, EmptyBag, SetToBag, IsABag, BagToSet
<1>2. \A s \in Switches : Attached(s) = {}
  BY DEF Init, Attached, Range
<1>3. TypeOK
  BY <1>1 DEF Init, TypeOK, LinkState
<1>4. Structure
  BY <1>1, <1>2 DEF Structure
<1>5. OwnRoot
  BY SwitchesAssumption DEF Init, OwnRoot
<1>6. NoRumour /\ NewsTravels
  BY <1>1, <1>2 DEF NoRumour, NewsTravels
<1>7. Support
  BY DEF Init, Support
<1>8. QED BY <1>3, <1>4, <1>5, <1>6, <1>7 DEF IInv

-----------------------------------------------------------------------------
LEMMA NewLinkInv == ASSUME IInv, NEW l \in Links, NewLink(l) PROVE IInv'
<1>1. TypeOK /\ Structure /\ OwnRoot /\ NoRumour /\ Support /\ NewsTravels
  BY DEF IInv
<1>2. /\ TypeOK' /\ Structure'
      /\ \A s \in Switches : Attached(s)' = IF s \in Ends[l] THEN Attached(s) \cup {l} ELSE Attached(s)
      /\ BagToSet(wire') = BagToSet(wire) \cup Announced(l)
      /\ rootId' = rootId /\ rootPathCost' = rootPathCost /\ isRoot' = isRoot
  BY <1>1, NewLinkEffect
<1>3. OwnRoot' /\ Support'
  BY <1>1, <1>2 DEF OwnRoot, Support, SwitchLinks
<1>4. NoRumour'
  <2>1. ASSUME NEW m \in Announced(l) PROVE Knows(m.bridge, m.root, m.cost)
    <3>1. PICK s \in Ends[l] \cap Switches :
            m \in BPDUs(s, Attached(s) \cup {l}, rootId[s], rootPathCost[s])
      BY DEF Announced
    <3>2. m.bridge = s /\ m.root = rootId[s] /\ m.cost = rootPathCost[s]
      BY <3>1 DEF BPDUs
    <3>3. rootPathCost[s] \in Nat
      BY <1>1, <3>1 DEF TypeOK
    <3>4. QED BY <3>2, <3>3 DEF Knows
  <2>2. QED BY <1>1, <1>2, <2>1 DEF NoRumour, Knows
<1>5. NewsTravels'
  <2> SUFFICES ASSUME NEW s \in Switches, NEW k \in Attached(s)', k \in SwitchLinks
               PROVE  \/ ~Improves(Peer(k, s), rootId[s], rootPathCost[s] + Cost[k])
                      \/ [link |-> k, bridge |-> s, root |-> rootId[s], cost |-> rootPathCost[s]]
                            \in BagToSet(wire')
    BY <1>2 DEF NewsTravels, Improves, BagIn, SwitchLinks
  <2>1. CASE s \in Ends[l]
    <3>1. k \in Attached(s) \cup {l} /\ BetweenSwitches(k)
      BY <1>2, <2>1 DEF SwitchLinks
    <3>2. [link |-> k, bridge |-> s, root |-> rootId[s], cost |-> rootPathCost[s]]
            \in BPDUs(s, Attached(s) \cup {l}, rootId[s], rootPathCost[s])
      BY <3>1 DEF BPDUs
    <3>3. [link |-> k, bridge |-> s, root |-> rootId[s], cost |-> rootPathCost[s]] \in Announced(l)
      BY <2>1, <3>2 DEF Announced
    <3>4. QED BY <1>2, <3>3
  <2>2. CASE s \notin Ends[l]
    BY <1>1, <1>2, <2>2 DEF NewsTravels, BagIn
  <2>3. QED BY <2>1, <2>2
<1>6. QED BY <1>2, <1>3, <1>4, <1>5 DEF IInv

LEMMA ProcessInv == ASSUME IInv, NEW m \in BagToSet(wire), ProcessBPDU(m) PROVE IInv'
<1> DEFINE s == Peer(m.link, m.bridge)
           cost == m.cost + Cost[m.link]
<1>1. TypeOK /\ Structure /\ OwnRoot /\ NoRumour /\ Support /\ NewsTravels
  BY DEF IInv
<1>2. /\ m.link \in Links /\ m.bridge \in Switches /\ m.root \in Switches /\ m.root \in Nat
      /\ m.cost \in Nat /\ Cost[m.link] \in Nat /\ cost \in Nat
      /\ s \in Switches /\ s \in Nat /\ s \in Ends[m.link] /\ m.bridge \in Ends[m.link]
      /\ Peer(m.link, s) = m.bridge /\ m.bridge # s /\ m.link \in SwitchLinks
  BY <1>1, Receiver, SwitchesAssumption DEF Structure, SwitchLinks
<1>3. /\ TypeOK' /\ Structure'
      /\ \A t \in Switches : Attached(t)' = Attached(t)
      /\ \A t \in Switches \ {s} : /\ rootId'[t] = rootId[t]
                                   /\ rootPathCost'[t] = rootPathCost[t]
                                   /\ isRoot'[t] = isRoot[t]
      /\ Improves(s, m.root, cost) =>
           /\ rootId'[s] = m.root /\ rootPathCost'[s] = cost /\ isRoot'[s] = FALSE
           /\ BPDUs(s, Attached(s), m.root, cost) \subseteq BagToSet(wire')
      /\ ~Improves(s, m.root, cost) =>
           /\ rootId'[s] = rootId[s] /\ rootPathCost'[s] = rootPathCost[s]
           /\ isRoot'[s] = isRoot[s]
      /\ BagToSet(wire) \ {m} \subseteq BagToSet(wire')
      /\ BagToSet(wire') \subseteq
           BagToSet(wire) \cup IF Improves(s, m.root, cost)
                               THEN BPDUs(s, Attached(s), m.root, cost) ELSE {}
  BY <1>1, ProcessEffect
<1>4. \A t \in Switches : /\ rootId[t] \in Nat /\ rootPathCost[t] \in Nat
                          /\ rootId'[t] \in Nat /\ rootPathCost'[t] \in Nat
  BY <1>1, <1>3, SwitchesAssumption DEF TypeOK
<1>5. \A t \in Switches, r \in Nat, c \in Nat : Knows(t, r, c) => Knows(t, r, c)'
  BY <1>1, StillKnows
<1>6. Knows(s, m.root, cost)'
  <2>1. CASE Improves(s, m.root, cost)
    BY <1>2, <1>3, <2>1 DEF Knows
  <2>2. CASE ~Improves(s, m.root, cost)
    <3>1. Knows(s, m.root, cost)
      BY <1>1, <1>2, <2>2, KnowsOrImproves
    <3>2. QED BY <1>2, <1>5, <3>1
  <2>3. QED BY <2>1, <2>2
<1> HIDE DEF s, cost
<1>7. OwnRoot'
  <2> SUFFICES ASSUME NEW t \in Switches
               PROVE  /\ rootId'[t] <= t
                      /\ isRoot'[t] <=> rootId'[t] = t
                      /\ isRoot'[t] => rootPathCost'[t] = 0
    BY DEF OwnRoot
  <2>1. rootId[t] <= t /\ (isRoot[t] <=> rootId[t] = t) /\ (isRoot[t] => rootPathCost[t] = 0)
    BY <1>1 DEF OwnRoot
  <2>2. CASE t = s /\ Improves(s, m.root, cost)
    <3>1. m.root < rootId[s] \/ (m.root = rootId[s] /\ cost < rootPathCost[s])
      BY <2>2 DEF Improves
    <3>2. m.root < s
      BY <1>2, <1>4, <2>1, <2>2, <3>1
    <3>3. QED BY <1>2, <1>3, <2>2, <3>2
  <2>3. CASE t # s \/ ~Improves(s, m.root, cost)
    BY <1>3, <2>1, <2>3
  <2>4. QED BY <2>2, <2>3
<1>8. NoRumour'
  <2> SUFFICES ASSUME NEW n \in BagToSet(wire') PROVE Knows(n.bridge, n.root, n.cost)'
    BY DEF NoRumour, Knows
  <2>1. CASE n \in BagToSet(wire)
    <3>1. n.bridge \in Switches /\ n.root \in Nat /\ n.cost \in Nat
      BY <1>1, <2>1, Receiver
    <3>2. Knows(n.bridge, n.root, n.cost)
      BY <1>1, <2>1 DEF NoRumour
    <3>3. QED BY <1>5, <3>1, <3>2
  <2>2. CASE n \notin BagToSet(wire)
    <3>1. n \in BPDUs(s, Attached(s), m.root, cost) /\ Improves(s, m.root, cost)
      BY <1>3, <2>2
    <3>2. n.bridge = s /\ n.root = m.root /\ n.cost = cost
      BY <3>1 DEF BPDUs
    <3>3. QED BY <1>6, <3>2 DEF Knows
  <2>3. QED BY <2>1, <2>2
<1>9. Support'
  <2> SUFFICES ASSUME NEW t \in Switches, ~isRoot'[t]
               PROVE  \E l \in SwitchLinks :
                        /\ t \in Ends[l]
                        /\ \/ rootId'[Peer(l, t)] < rootId'[t]
                           \/ /\ rootId'[Peer(l, t)] = rootId'[t]
                              /\ rootPathCost'[Peer(l, t)] + Cost[l] <= rootPathCost'[t]
    BY DEF Support
  <2>1. CASE t = s /\ Improves(s, m.root, cost)
    <3>1. Knows(m.bridge, m.root, m.cost)'
      BY <1>1, <1>2, <1>5 DEF NoRumour
    <3>2. rootId'[m.bridge] < m.root \/ (rootId'[m.bridge] = m.root /\ rootPathCost'[m.bridge] <= m.cost)
      BY <3>1 DEF Knows
    <3>3. rootPathCost'[m.bridge] <= m.cost => rootPathCost'[m.bridge] + Cost[m.link] <= cost
      <4>1. rootPathCost'[m.bridge] \in Nat /\ m.cost \in Nat /\ Cost[m.link] \in Nat
        BY <1>2, <1>4
      <4>2. QED BY <4>1 DEF cost
    <3>4. rootId'[t] = m.root /\ rootPathCost'[t] = cost
      BY <1>3, <2>1
    <3>5. m.link \in SwitchLinks /\ t \in Ends[m.link] /\ Peer(m.link, t) = m.bridge
      BY <1>2, <2>1
    <3>6. \/ rootId'[Peer(m.link, t)] < rootId'[t]
          \/ /\ rootId'[Peer(m.link, t)] = rootId'[t]
             /\ rootPathCost'[Peer(m.link, t)] + Cost[m.link] <= rootPathCost'[t]
      BY <3>2, <3>3, <3>4, <3>5
    <3>7. QED BY <3>5, <3>6
  <2>2. CASE t # s \/ ~Improves(s, m.root, cost)
    <3>1. rootId'[t] = rootId[t] /\ rootPathCost'[t] = rootPathCost[t] /\ ~isRoot[t]
      BY <1>3, <2>2
    <3>2. PICK l \in SwitchLinks :
            /\ t \in Ends[l]
            /\ \/ rootId[Peer(l, t)] < rootId[t]
               \/ /\ rootId[Peer(l, t)] = rootId[t]
                  /\ rootPathCost[Peer(l, t)] + Cost[l] <= rootPathCost[t]
      BY <1>1, <3>1 DEF Support
    <3>3. l \in Links /\ Peer(l, t) \in Switches /\ Cost[l] \in Nat
      BY <3>2, PeerFacts, CostAssumption DEF SwitchLinks, BetweenSwitches
    <3>4. \/ rootId'[Peer(l, t)] < rootId[Peer(l, t)]
          \/ /\ rootId'[Peer(l, t)] = rootId[Peer(l, t)]
             /\ rootPathCost'[Peer(l, t)] <= rootPathCost[Peer(l, t)]
      BY <1>1, <3>3, OnlyBetter
    <3>5. \/ rootId'[Peer(l, t)] < rootId'[t]
          \/ /\ rootId'[Peer(l, t)] = rootId'[t]
             /\ rootPathCost'[Peer(l, t)] + Cost[l] <= rootPathCost'[t]
      BY <1>4, <3>1, <3>2, <3>3, <3>4
    <3>6. QED BY <3>2, <3>5
  <2>3. QED BY <2>1, <2>2
<1>10. NewsTravels'
  <2> DEFINE news(t, l) == [link |-> l, bridge |-> t, root |-> rootId'[t], cost |-> rootPathCost'[t]]
  <2> SUFFICES ASSUME NEW t \in Switches, NEW l \in Attached(t) \cap SwitchLinks,
                      news(t, l) \notin BagToSet(wire')
               PROVE  Knows(Peer(l, t), rootId[t], rootPathCost[t] + Cost[l])'
    <3>1. ASSUME NEW t \in Switches, NEW l \in Attached(t)' \cap SwitchLinks
          PROVE  \/ ~Improves(Peer(l, t), rootId[t], rootPathCost[t] + Cost[l])'
                 \/ news(t, l) \in BagToSet(wire')
      <4>1. /\ t \in Ends[l] /\ l \in Links /\ Peer(l, t) \in Switches /\ Cost[l] \in Nat
            /\ l \in Attached(t)
        BY <1>1, <1>3, <3>1, PeerFacts, CostAssumption DEF Structure, SwitchLinks, BetweenSwitches
      <4>2. CASE Knows(Peer(l, t), rootId[t], rootPathCost[t] + Cost[l])'
        <5>1. rootId'[t] \in Nat /\ rootPathCost'[t] + Cost[l] \in Nat
          BY <1>4, <4>1
        <5>2. rootId'[Peer(l, t)] \in Nat /\ rootPathCost'[Peer(l, t)] \in Nat
          BY <1>4, <4>1
        <5>3. QED BY <4>2, <5>1, <5>2 DEF Knows, Improves
      <4>3. QED BY <3>1, <4>1, <4>2
    <3>2. QED BY <3>1 DEF NewsTravels, BagIn, SwitchLinks, Improves
  <2>1. /\ t \in Ends[l] /\ l \in Links /\ Peer(l, t) \in Switches /\ Cost[l] \in Nat
        /\ Peer(l, t) # t /\ BetweenSwitches(l)
    BY <1>1, PeerFacts, CostAssumption DEF Structure, SwitchLinks, BetweenSwitches
  <2>2. rootPathCost[t] + Cost[l] \in Nat /\ rootId[t] \in Nat
    BY <1>4, <2>1
  <2>3. ~(t = s /\ Improves(s, m.root, cost))
    <3>1. ASSUME t = s, Improves(s, m.root, cost) PROVE FALSE
      <4>1. news(t, l) = [link |-> l, bridge |-> s, root |-> m.root, cost |-> cost]
        BY <1>3, <3>1
      <4>2. [link |-> l, bridge |-> s, root |-> m.root, cost |-> cost]
               \in BPDUs(s, Attached(s), m.root, cost)
        BY <2>1, <3>1 DEF BPDUs
      <4>3. QED BY <1>3, <3>1, <4>1, <4>2
    <3>2. QED BY <3>1
  <2>4. rootId'[t] = rootId[t] /\ rootPathCost'[t] = rootPathCost[t]
    BY <1>3, <2>3
  <2>5. CASE news(t, l) = m
    <3>1. m.link = l /\ m.bridge = t /\ m.root = rootId[t] /\ m.cost = rootPathCost[t]
      BY <2>4, <2>5
    <3>2. Peer(l, t) = s /\ cost = rootPathCost[t] + Cost[l]
      BY <3>1 DEF s, cost
    <3>3. QED BY <1>6, <2>4, <3>1, <3>2 DEF Knows
  <2>6. CASE news(t, l) # m
    <3>1. news(t, l) \notin BagToSet(wire)
      BY <1>3, <2>6
    <3>2. ~Improves(Peer(l, t), rootId[t], rootPathCost[t] + Cost[l])
      BY <1>1, <2>4, <3>1 DEF NewsTravels, BagIn
    <3>3. Knows(Peer(l, t), rootId[t], rootPathCost[t] + Cost[l])
      BY <1>1, <2>1, <2>2, <3>2, KnowsOrImproves
    <3>4. Knows(Peer(l, t), rootId[t], rootPathCost[t] + Cost[l])'
      BY <1>5, <2>1, <2>2, <2>4, <3>3 DEF Knows
    <3>5. QED BY <3>4
  <2>7. QED BY <2>5, <2>6
<1>11. QED BY <1>3, <1>7, <1>8, <1>9, <1>10 DEF IInv

\* The invariant holds in every reachable state.
LEMMA Invariant == Spec => []IInv
<1>1. Init => IInv
  BY InitInv
<1>2. IInv /\ [Next]_vars => IInv'
  <2> SUFFICES ASSUME IInv, [Next]_vars PROVE IInv'
    OBVIOUS
  <2>1. ASSUME NEW l \in Links, NewLink(l) PROVE IInv'
    BY <2>1, NewLinkInv
  <2>2. ASSUME NEW m \in BagToSet(wire), ProcessBPDU(m) PROVE IInv'
    BY <2>2, ProcessInv
  <2>3. CASE UNCHANGED vars
    BY <2>3 DEF vars, IInv, TypeOK, Structure, OwnRoot, NoRumour, Knows, Support, NewsTravels,
                Improves, Attached, BagIn
  <2>4. QED BY <2>1, <2>2, <2>3 DEF Next
<1>3. QED BY <1>1, <1>2, PTL DEF Spec

\* At rest, and with the switches connected, they agree on the lowest id.
LEMMA Agreement ==
  ASSUME IInv, AtRest, Connects(SwitchLinks)
  PROVE  \A s, t \in Switches : rootId[s] = rootId[t] /\ rootId[s] <= t
<1>1. TypeOK /\ OwnRoot /\ NewsTravels
  BY DEF IInv
<1>2. \A s \in Switches : rootId[s] \in Nat /\ rootPathCost[s] \in Nat
  BY <1>1, SwitchesAssumption DEF TypeOK
<1>3. ASSUME NEW l \in SwitchLinks, NEW s \in Ends[l], NEW t \in Ends[l], s # t
      PROVE  rootId[t] <= rootId[s]
  <2>1. l \in Links /\ s \in Switches /\ t \in Switches /\ Peer(l, s) = t /\ Cost[l] \in Nat
    BY <1>3, PeerFacts, CostAssumption DEF SwitchLinks, BetweenSwitches
  <2>2. l \in Attached(s) \cap SwitchLinks
    BY <1>3, <2>1 DEF AtRest, Made
  <2>3. ~Improves(t, rootId[s], rootPathCost[s] + Cost[l])
    BY <1>1, <2>1, <2>2 DEF NewsTravels, BagIn, AtRest
  <2>4. QED BY <1>2, <2>1, <2>3 DEF Improves
<1>4. \A s, t \in Switches : rootId[s] = rootId[t]
  <2> SUFFICES ASSUME NEW s0 \in Switches PROVE \A t \in Switches : rootId[t] = rootId[s0]
    OBVIOUS
  <2> DEFINE part == {t \in Switches : rootId[t] = rootId[s0]}
  <2>1. part \in SUBSET Switches /\ part # {}
    OBVIOUS
  <2>2. ASSUME part # Switches PROVE FALSE
    <3>1. PICK l \in SwitchLinks : \E s \in part, t \in Switches \ part : Ends[l] = {s, t}
      BY <2>1, <2>2 DEF Connects
    <3>2. PICK s \in part, t \in Switches \ part : Ends[l] = {s, t}
      BY <3>1
    <3>3. rootId[t] <= rootId[s] /\ rootId[s] <= rootId[t]
      BY <1>3, <3>2
    <3>4. QED BY <1>2, <3>2, <3>3
  <2>3. QED BY <2>2
<1>5. QED BY <1>1, <1>4 DEF OwnRoot

LEMMA AgreementImplied == IInv => RootAgreementAtRest
<1> SUFFICES ASSUME IInv, AtRest, Connects(SwitchLinks), NEW s \in Switches
             PROVE  /\ \A t \in Switches : rootId[s] <= t
                    /\ isRoot[s] <=> rootId[s] = s
  BY DEF RootAgreementAtRest
<1>1. QED BY Agreement DEF IInv, OwnRoot

LEMMA ShortestImplied == IInv => ShortestCostAtRest
<1> SUFFICES ASSUME IInv, AtRest, Connects(SwitchLinks), NEW s \in Switches
             PROVE  IF isRoot[s] THEN rootPathCost[s] = 0
                    ELSE /\ \A l \in SwitchLinks : s \in Ends[l] =>
                              rootPathCost[s] <= rootPathCost[Peer(l, s)] + Cost[l]
                         /\ \E l \in SwitchLinks : s \in Ends[l] /\
                              rootPathCost[s] = rootPathCost[Peer(l, s)] + Cost[l]
  BY DEF ShortestCostAtRest
<1>1. TypeOK /\ OwnRoot /\ Support /\ NewsTravels
  BY DEF IInv
<1>2. \A t \in Switches : rootId[t] = rootId[s] /\ rootId[t] \in Nat /\ rootPathCost[t] \in Nat
  BY <1>1, Agreement, SwitchesAssumption DEF TypeOK
<1>3. ASSUME NEW l \in SwitchLinks, s \in Ends[l]
      PROVE  /\ Peer(l, s) \in Switches /\ Cost[l] \in Nat
             /\ rootPathCost[s] <= rootPathCost[Peer(l, s)] + Cost[l]
  <2>1. /\ l \in Links /\ Peer(l, s) \in Switches /\ Peer(l, s) \in Ends[l]
        /\ Peer(l, Peer(l, s)) = s /\ Cost[l] \in Nat
    BY <1>3, PeerFacts, CostAssumption DEF SwitchLinks, BetweenSwitches
  <2>2. l \in Attached(Peer(l, s)) \cap SwitchLinks
    BY <2>1 DEF AtRest, Made
  <2>3. ~Improves(s, rootId[Peer(l, s)], rootPathCost[Peer(l, s)] + Cost[l])
    BY <1>1, <2>1, <2>2 DEF NewsTravels, BagIn, AtRest
  <2>4. QED BY <1>2, <2>1, <2>3 DEF Improves
<1>4. CASE isRoot[s]
  BY <1>1, <1>4 DEF OwnRoot
<1>5. CASE ~isRoot[s]
  <2>1. PICK l \in SwitchLinks : /\ s \in Ends[l]
                                 /\ \/ rootId[Peer(l, s)] < rootId[s]
                                    \/ /\ rootId[Peer(l, s)] = rootId[s]
                                       /\ rootPathCost[Peer(l, s)] + Cost[l] <= rootPathCost[s]
    BY <1>1, <1>5 DEF Support
  <2>2. rootPathCost[s] = rootPathCost[Peer(l, s)] + Cost[l]
    BY <1>2, <1>3, <2>1
  <2>3. QED BY <1>3, <1>5, <2>1, <2>2
<1>6. QED BY <1>4, <1>5

-----------------------------------------------------------------------------
\* The fields of every switch, and every BPDU in flight, have their types.
THEOREM SpanningTreeTypes == Spec => []TypeOK
<1>1. IInv => TypeOK
  BY DEF IInv
<1>2. QED BY <1>1, Invariant, PTL

\* A switch's neighbours know something at least as good as it does, or are
\* about to be told: sendBPDU is called wherever it must be (AddLink and
\* processBPDU, nswitch.go:42-56 and 115-140).
THEOREM NewsTravelsAlways == Spec => []NewsTravels
<1>1. IInv => NewsTravels
  BY DEF IInv
<1>2. QED BY <1>1, Invariant, PTL

\* In any connected network, with any costs, the switches agree on the lowest
\* id as soon as no BPDU is in flight (nswitch.go:122-138).
THEOREM RootAgreement == Spec => []RootAgreementAtRest
<1>1. QED BY AgreementImplied, Invariant, PTL

\* In any connected network rootPathCost is then a shortest distance to the
\* root (nswitch.go:122-138), although BPDUs may overtake each other.
THEOREM ShortestCost == Spec => []ShortestCostAtRest
<1>1. QED BY ShortestImplied, Invariant, PTL

-----------------------------------------------------------------------------
\* A port that is not decided is about to be: a BPDU for its switch, over whatever
\* link, is in flight (processBPDU decides all ports, updateLinkStates).
Decided(s, l) ==
  \/ linkStates[s][l] = "forwarding"
  \/ ~isRoot[s] /\ BetweenSwitches(l) /\ linkStates[s][l] = "blocking"
  \/ CutOff(s, l)
Told(s) == \E m \in BagToSet(wire) : Peer(m.link, m.bridge) = s
DecisionsComing == \A s \in Switches : \A l \in Attached(s) : Decided(s, l) \/ Told(s)

\* A new link between switches has both of them told.
LEMMA NewLinkTells ==
  ASSUME IInv, NEW l \in Links, NewLink(l), NEW s \in Switches
  PROVE  /\ Told(s) => Told(s)'
         /\ s \in Ends[l] /\ BetweenSwitches(l) => Told(s)'
<1>1. BagToSet(wire') = BagToSet(wire) \cup Announced(l)
  BY NewLinkEffect DEF IInv
<1>2. ASSUME s \in Ends[l], BetweenSwitches(l) PROVE Told(s)'
  <2> DEFINE t == Peer(l, s)
             m == [link |-> l, bridge |-> t, root |-> rootId[t], cost |-> rootPathCost[t]]
  <2>1. t \in Ends[l] \cap Switches /\ Peer(l, t) = s
    BY <1>2, PeerFacts DEF BetweenSwitches
  <2> HIDE DEF t
  <2>2. m \in BPDUs(t, Attached(t) \cup {l}, rootId[t], rootPathCost[t])
    BY <1>2 DEF BPDUs
  <2>3. m \in Announced(l)
    BY <2>1, <2>2 DEF Announced
  <2>4. QED BY <1>1, <2>1, <2>3 DEF Told
<1>3. QED BY <1>1, <1>2 DEF Told

LEMMA NewLinkDecides ==
  ASSUME IInv, DecisionsComing, NEW l \in Links, NewLink(l)
  PROVE  DecisionsComing'
<1>1. /\ links \in [Switches -> Seq(Links)]
      /\ linkStates \in [Switches -> [Links -> LinkState]]
  BY DEF IInv, TypeOK
<1>2. isRoot' = isRoot
  BY DEF NewLink
<1> SUFFICES ASSUME NEW s \in Switches, NEW k \in Attached(s)', ~Told(s)' PROVE Decided(s, k)'
  BY DEF DecisionsComing
<1>3. CASE s \notin Ends[l]
  <2>1. links'[s] = links[s] /\ linkStates'[s] = linkStates[s]
    BY <1>3 DEF NewLink
  <2>2. Decided(s, k)
    BY <2>1, NewLinkTells DEF DecisionsComing, Attached
  <2>3. QED BY <1>2, <2>1, <2>2 DEF Decided, CutOff, BetweenSwitches
<1>4. CASE s \in Ends[l]
  <2>1. ~BetweenSwitches(l)
    BY <1>4, NewLinkTells
  <2>2. /\ links'[s] = Append(links[s], l) /\ l \notin Attached(s)
        /\ linkStates'[s] = [linkStates[s] EXCEPT ![l] = IF isRoot[s] THEN "forwarding" ELSE "initial"]
    BY <1>4 DEF NewLink
  <2> DEFINE n == Len(links[s])
  <2>3. /\ n \in Nat /\ DOMAIN links[s] = 1 .. n /\ DOMAIN links'[s] = 1 .. (n + 1)
        /\ links'[s][n + 1] = l
        /\ \A i \in 1 .. n : links'[s][i] = links[s][i] /\ links[s][i] # l
    BY <1>1, <2>2 DEF Attached, Range
  <2> HIDE DEF n
  <2>4. CASE k = l
    <3>1. \A i, j \in DOMAIN links'[s] : links'[s][j] = l /\ BetweenSwitches(links'[s][i]) => i < j
      BY <2>1, <2>3
    <3>2. linkStates'[s][l] = IF isRoot[s] THEN "forwarding" ELSE "initial"
      BY <1>1, <2>2
    <3>3. QED BY <1>2, <2>1, <2>4, <3>1, <3>2 DEF Decided, CutOff, BetweenSwitches
  <2>5. CASE k # l
    <3>0. PICK m \in DOMAIN links'[s] : links'[s][m] = k
      BY DEF Attached, Range
    <3>1. k \in Attached(s)
      BY <2>3, <2>5, <3>0 DEF Attached, Range
    <3>2. linkStates'[s][k] = linkStates[s][k]
      BY <1>1, <2>2, <2>5
    <3>3. Decided(s, k)
      BY <3>1, NewLinkTells DEF DecisionsComing
    <3>4. CASE CutOff(s, k)
      <4>1. \A i, j \in DOMAIN links'[s] : links'[s][j] = k /\ BetweenSwitches(links'[s][i]) => i < j
        BY <2>1, <2>3, <2>5, <3>4 DEF CutOff
      <4>2. QED BY <1>2, <3>2, <3>4, <4>1 DEF Decided, CutOff, BetweenSwitches
    <3>5. CASE ~CutOff(s, k)
      BY <1>2, <3>2, <3>3, <3>5 DEF Decided, BetweenSwitches
    <3>6. QED BY <3>4, <3>5
  <2>6. QED BY <2>4, <2>5
<1>5. QED BY <1>3, <1>4

LEMMA ProcessDecides ==
  ASSUME IInv, DecisionsComing, NEW m \in BagToSet(wire), ProcessBPDU(m)
  PROVE  DecisionsComing'
<1> DEFINE s == Peer(m.link, m.bridge)
           cost == m.cost + Cost[m.link]
           root == isRoot[s] /\ ~Improves(s, m.root, cost)
<1>1. TypeOK /\ Structure
  BY DEF IInv
<1>2. links' = links /\ BagToSet(wire) \ {m} \subseteq BagToSet(wire')
  BY <1>1, ProcessEffect DEF ProcessBPDU
<1>3. /\ s \in Switches
      /\ linkStates' = [linkStates EXCEPT ![s] = PortStates(s, root, cost)]
      /\ isRoot' = [isRoot EXCEPT ![s] = root]
  BY <1>1, Receiver DEF ProcessBPDU
<1> SUFFICES ASSUME NEW t \in Switches, NEW k \in Attached(t), ~Told(t)' PROVE Decided(t, k)'
  BY <1>2 DEF DecisionsComing, Attached
<1>4. t # s => ~Told(t)
  BY <1>2 DEF Told
<1> HIDE DEF s, root, cost
<1>5. CASE t = s
  <2>1. k \in Links
    BY <1>1 DEF TypeOK, Attached, Range
  <2>2. linkStates'[s][k] = PortStates(s, root, cost)[k] /\ isRoot'[s] = root
    BY <1>1, <1>3 DEF TypeOK
  <2>3. \/ PortStates(s, root, cost)[k] = "forwarding"
        \/ ~root /\ BetweenSwitches(k) /\ PortStates(s, root, cost)[k] = "blocking"
    BY <1>5, <2>1 DEF PortStates
  <2>4. QED BY <1>5, <2>2, <2>3 DEF Decided, BetweenSwitches
<1>6. CASE t # s
  <2>1. linkStates'[t] = linkStates[t] /\ isRoot'[t] = isRoot[t]
    BY <1>1, <1>3, <1>6 DEF TypeOK
  <2>2. Decided(t, k)
    BY <1>4, <1>6 DEF DecisionsComing
  <2>3. QED BY <1>2, <2>1, <2>2 DEF Decided, CutOff, BetweenSwitches
<1>7. QED BY <1>5, <1>6

\* Every port of every switch is decided when the exchange of BPDUs is over, but
\* for links that were made to hosts last and not at the root (nswitch.go:53),
\* however late links are made and BPDUs overtake each other.
THEOREM PortsDecided == Spec => []PortsDecidedAtRest
<1>1. Init => IInv /\ DecisionsComing
  <2>1. Init => DecisionsComing
    BY DEF Init, DecisionsComing, Attached, Range
  <2>2. QED BY <2>1, InitInv
<1>2. DecisionsComing /\ IInv /\ IInv' /\ [Next]_vars => DecisionsComing'
  <2> SUFFICES ASSUME IInv, DecisionsComing, [Next]_vars PROVE DecisionsComing'
    OBVIOUS
  <2>1. CASE UNCHANGED vars
    BY <2>1 DEF vars, DecisionsComing, Decided, CutOff, BetweenSwitches, Told, Attached
  <2>2. QED BY <2>1, NewLinkDecides, ProcessDecides DEF Next
<1>3. IInv /\ DecisionsComing => PortsDecidedAtRest
  BY DEF DecisionsComing, Decided, Told, AtRest, PortsDecidedAtRest
<1>4. QED BY <1>1, <1>2, <1>3, Invariant, PTL DEF Spec
=============================================================================
