--------------------------- MODULE LinkStateProof ---------------------------
(***************************************************************************)
(* Theorems about LinkState, for every set of routers and links, all costs *)
(* and delays, and any number of Hellos and LSAs.                          *)
(***************************************************************************)
EXTENDS LinkState, CommonFacts, TLAPS

\* The part of TypeOK that flooding depends on.
FloodTypes ==
  /\ lsaSequenceNumber \in [Routers -> Nat]
  /\ isTopologyInitialized \in [Routers -> BOOLEAN]
  /\ topologyDatabase \in [Routers -> [Routers -> Nat \cup {Absent}]]
  /\ IsABag(wire) /\ BagToSet(wire) \subseteq Hello \cup Lsa
  /\ panicked \in BOOLEAN

\* Messages come from an end of their link, and no LSA is on a link of its
\* origin unless it was the origin that sent it.
Structure ==
  \A m \in BagToSet(wire) :
    /\ m.from \in Ends[m.link]
    /\ m.type = "LSA" => m.origin = m.from \/ m.origin \notin Ends[m.link]

\* Nobody has, and no LSA carries, a number that the origin has not reached.
NothingInvented ==
  /\ \A r, o \in Routers : topologyDatabase[r][o] <= lsaSequenceNumber[o]
  /\ \A m \in BagToSet(wire) : m.type = "LSA" => m.seq <= lsaSequenceNumber[m.origin]

IInv == FloodTypes /\ Structure /\ NothingInvented /\ OwnEntryUntouched /\ FloodLeavesNoGap

\* The two ends of a link.
LEMMA PeerFacts ==
  ASSUME NEW l \in Links, NEW r \in Ends[l]
  PROVE  /\ Peer(l, r) \in Ends[l] /\ Peer(l, r) # r
         /\ Ends[l] = {r, Peer(l, r)}
         /\ Peer(l, Peer(l, r)) = r
<1>1. PICK a, b \in Ends[l] : a # b /\ Ends[l] = {a, b}
  BY EndsAssumption
<1>2. \E q \in Ends[l] : q # r
  BY <1>1
<1>3. Peer(l, r) \in Ends[l] /\ Peer(l, r) # r
  BY <1>2 DEF Peer
<1>4. Ends[l] = {r, Peer(l, r)}
  BY <1>1, <1>3
<1>5. \A q \in Ends[l] : q # Peer(l, r) => q = r
  BY <1>4
<1>6. Peer(l, Peer(l, r)) \in Ends[l] /\ Peer(l, Peer(l, r)) # Peer(l, r)
  BY <1>3 DEF Peer
<1>7. QED BY <1>3, <1>4, <1>5, <1>6

LEMMA RouterLinkFacts ==
  ASSUME NEW l \in RouterLinks, NEW r \in Ends[l]
  PROVE  /\ l \in Links /\ r \in Routers /\ Peer(l, r) \in Routers /\ Peer(l, r) \in Ends[l]
         /\ Peer(l, r) # r /\ Peer(l, Peer(l, r)) = r /\ Ends[l] = {r, Peer(l, r)}
         /\ l \in interfaces(r)
  BY PeerFacts DEF RouterLinks, interfaces

\* What sendHelloPacket, sendLsaPacket and floodLsa put on the wire.
LEMMA HellosSent ==
  ASSUME NEW r \in Routers
  PROVE  \A m \in Hellos(r) : m \in Hello /\ m.type = "Hello" /\ m.from \in Ends[m.link]
  BY DEF Hellos, Hello, interfaces, RouterLinks

LEMMA LsasSent ==
  ASSUME NEW r \in Routers, NEW ls, NEW o \in Routers, NEW seq \in Nat \ {0}
  PROVE  /\ \A m \in Lsas(r, ls, o, seq) :
              /\ m \in Lsa /\ m.type = "LSA" /\ m.from = r /\ m.from \in Ends[m.link]
              /\ m.link \in ls /\ m.origin = o /\ m.seq = seq
         /\ \A l \in ls \cap RouterLinks : r \in Ends[l] =>
              [type |-> "LSA", link |-> l, from |-> r, origin |-> o, seq |-> seq] \in Lsas(r, ls, o, seq)
  BY DEF Lsas, Lsa, interfaces, RouterLinks

LEMMA InitInv == Init => IInv
<1> SUFFICES ASSUME Init PROVE IInv
  OBVIOUS
<1>1. IsABag(wire) /\ BagToSet(wire) = {}
  BY DEF Init, EmptyBag, SetToBag, IsABag, BagToSet
<1>2. FloodTypes
  BY <1>1 DEF Init, FloodTypes
<1>3. Structure
  BY <1>1 DEF Structure
<1>4. NothingInvented
  BY <1>1 DEF Init, NothingInvented, Absent
<1>5. OwnEntryUntouched
  BY DEF Init, OwnEntryUntouched
<1>6. FloodLeavesNoGap
  BY RouterLinkFacts DEF Init, FloodLeavesNoGap, Absent
<1>7. QED BY <1>2, <1>3, <1>4, <1>5, <1>6 DEF IInv

-----------------------------------------------------------------------------
LEMMA SendHelloInv == ASSUME IInv, NEW r \in Routers, sendHelloPacket(r) PROVE IInv'
<1>1. IsABag(wire') /\ BagToSet(wire') = BagToSet(wire) \cup Hellos(r)
  BY WireAdd DEF IInv, FloodTypes, sendHelloPacket
<1>2. /\ UNCHANGED <<lsaSequenceNumber, isTopologyInitialized, topologyDatabase, panicked>>
  BY DEF sendHelloPacket
<1>3. FloodTypes'
  BY <1>1, <1>2, HellosSent DEF IInv, FloodTypes
<1>4. Structure' /\ NothingInvented'
  BY <1>1, <1>2, HellosSent DEF IInv, Structure, NothingInvented
<1>5. OwnEntryUntouched' /\ FloodLeavesNoGap'
  BY <1>1, <1>2 DEF IInv, OwnEntryUntouched, FloodLeavesNoGap, OnItsWay
<1>6. QED BY <1>3, <1>4, <1>5 DEF IInv

LEMMA ReceiveHelloInv ==
  ASSUME IInv, NEW m \in BagToSet(wire), receiveHelloPacket(m) PROVE IInv'
<1>1. /\ IsABag(wire') /\ BagToSet(wire') \subseteq BagToSet(wire)
      /\ BagToSet(wire) \ {m} \subseteq BagToSet(wire')
      /\ m.type = "Hello"
  BY WireRemove DEF IInv, FloodTypes, receiveHelloPacket, BagRemove, Ext!BagRemove
<1>2. /\ UNCHANGED <<lsaSequenceNumber, isTopologyInitialized, topologyDatabase, panicked>>
  BY DEF receiveHelloPacket
<1>3. FloodTypes'
  BY <1>1, <1>2 DEF IInv, FloodTypes
<1>4. Structure' /\ NothingInvented'
  BY <1>1, <1>2 DEF IInv, Structure, NothingInvented
<1>5. \A l, r, o, seq : OnItsWay(l, r, o, seq) => OnItsWay(l, r, o, seq)'
  BY <1>1 DEF OnItsWay
<1>6. OwnEntryUntouched' /\ FloodLeavesNoGap'
  BY <1>2, <1>5 DEF IInv, OwnEntryUntouched, FloodLeavesNoGap
<1>7. QED BY <1>3, <1>4, <1>6 DEF IInv

LEMMA SendLsaInv == ASSUME IInv, NEW s \in Routers, sendLsaPacket(s) PROVE IInv'
<1> DEFINE sent == Lsas(s, interfaces(s), s, lsaSequenceNumber[s] + 1)
<1>1. /\ IsABag(wire') /\ BagToSet(wire') = BagToSet(wire) \cup sent
  BY WireAdd DEF IInv, FloodTypes, sendLsaPacket
<1>2. /\ UNCHANGED <<isTopologyInitialized, topologyDatabase, panicked>>
      /\ lsaSequenceNumber' = [lsaSequenceNumber EXCEPT ![s] = @ + 1]
  BY DEF sendLsaPacket
<1>3. lsaSequenceNumber[s] + 1 \in Nat \ {0}
  BY DEF IInv, FloodTypes
<1>4. /\ \A m \in sent : /\ m \in Lsa /\ m.type = "LSA" /\ m.from = s /\ m.from \in Ends[m.link]
                         /\ m.origin = s /\ m.seq = lsaSequenceNumber[s] + 1
      /\ \A l \in interfaces(s) \cap RouterLinks : s \in Ends[l] =>
           [type |-> "LSA", link |-> l, from |-> s, origin |-> s,
            seq |-> lsaSequenceNumber[s] + 1] \in sent
  BY <1>3, LsasSent
<1> HIDE DEF sent
<1>5. \A o \in Routers : /\ lsaSequenceNumber[o] \in Nat /\ lsaSequenceNumber'[o] \in Nat
                         /\ lsaSequenceNumber[o] <= lsaSequenceNumber'[o]
                         /\ o # s => lsaSequenceNumber'[o] = lsaSequenceNumber[o]
                         /\ lsaSequenceNumber'[s] = lsaSequenceNumber[s] + 1
  BY <1>2 DEF IInv, FloodTypes
<1>6. FloodTypes'
  BY <1>1, <1>2, <1>4 DEF IInv, FloodTypes
<1>7. Structure'
  BY <1>1, <1>4 DEF IInv, Structure
<1>8. NothingInvented'
  <2>1. ASSUME NEW r \in Routers, NEW o \in Routers
        PROVE  topologyDatabase'[r][o] <= lsaSequenceNumber'[o]
    <3>1. topologyDatabase[r][o] <= lsaSequenceNumber[o] /\ topologyDatabase[r][o] \in Int
      BY DEF IInv, NothingInvented, FloodTypes, Absent
    <3>2. QED BY <1>2, <1>5, <3>1
  <2>2. ASSUME NEW m \in BagToSet(wire'), m.type = "LSA"
        PROVE  m.seq <= lsaSequenceNumber'[m.origin]
    <3>1. CASE m \in sent
      BY <1>4, <1>5, <3>1
    <3>2. CASE m \in BagToSet(wire)
      <4>1. m \in Lsa
        BY <2>2, <3>2 DEF IInv, FloodTypes, Hello
      <4>2. m.seq <= lsaSequenceNumber[m.origin] /\ m.seq \in Nat /\ m.origin \in Routers
        BY <2>2, <3>2, <4>1 DEF IInv, NothingInvented, Lsa
      <4>3. QED BY <1>5, <4>2
    <3>3. QED BY <1>1, <2>2, <3>1, <3>2
  <2>3. QED BY <2>1, <2>2 DEF NothingInvented
<1>9. OwnEntryUntouched'
  BY <1>2 DEF IInv, OwnEntryUntouched
<1>10. FloodLeavesNoGap'
  <2>1. SUFFICES ASSUME ~panicked, NEW l \in RouterLinks, NEW r \in Ends[l],
                        NEW q, q = Peer(l, r)
                 PROVE  /\ \/ topologyDatabase[q][r] >= lsaSequenceNumber'[r]
                           \/ lsaSequenceNumber'[r] = 0
                           \/ OnItsWay(l, r, r, lsaSequenceNumber[r])'
                        /\ \A o \in Routers \ Ends[l] :
                             \/ topologyDatabase[q][o] >= topologyDatabase[r][o]
                             \/ OnItsWay(l, r, o, topologyDatabase[r][o])'
    BY <1>2 DEF FloodLeavesNoGap, OnItsWay
  <2>2. \A o, n : OnItsWay(l, r, o, n) => OnItsWay(l, r, o, n)'
    BY <1>1 DEF OnItsWay
  <2>3. /\ \/ topologyDatabase[q][r] >= lsaSequenceNumber[r]
           \/ lsaSequenceNumber[r] = 0
           \/ OnItsWay(l, r, r, lsaSequenceNumber[r])
        /\ \A o \in Routers \ Ends[l] :
             \/ topologyDatabase[q][o] >= topologyDatabase[r][o]
             \/ OnItsWay(l, r, o, topologyDatabase[r][o])
    BY <2>1 DEF IInv, FloodLeavesNoGap
  <2>4. \A o \in Routers \ Ends[l] :
          \/ topologyDatabase[q][o] >= topologyDatabase[r][o]
          \/ OnItsWay(l, r, o, topologyDatabase[r][o])'
    BY <1>2, <2>2, <2>3 DEF OnItsWay
  <2>5. CASE r = s
    <3>1. l \in interfaces(s) \cap RouterLinks /\ s \in Ends[l]
      BY <2>5, RouterLinkFacts
    <3>2. OnItsWay(l, r, r, lsaSequenceNumber[r])'
      BY <1>1, <1>4, <1>5, <2>5, <3>1 DEF OnItsWay
    <3>3. QED BY <2>4, <3>2
  <2>6. CASE r # s
    <3>1. lsaSequenceNumber'[r] = lsaSequenceNumber[r]
      BY <1>5, <2>6, RouterLinkFacts
    <3>2. QED BY <2>2, <2>3, <2>4, <3>1 DEF OnItsWay
  <2>7. QED BY <2>5, <2>6
<1>11. QED BY <1>6, <1>7, <1>8, <1>9, <1>10 DEF IInv

\* Recomputing the table either works or ends the program.
LEMMA UpdateWorksOrPanics ==
  ASSUME NEW r, NEW known, updateRoutingTableWithDijkstra(r, known)
  PROVE  panicked' \in BOOLEAN
  BY DEF updateRoutingTableWithDijkstra

\* What receiveLsaPacket does to the databases and the wire.
LEMMA ReceiveEffect ==
  ASSUME IInv, NEW m \in BagToSet(wire), receiveLsaPacket(m), NEW s, s = Peer(m.link, m.from)
  PROVE  /\ m \in Lsa /\ m.type = "LSA" /\ m.link \in RouterLinks /\ m.from \in Ends[m.link]
         /\ m.origin \in Routers /\ m.seq \in Nat \ {0} /\ s \in Routers
         /\ Peer(m.link, s) = m.from /\ s # m.from /\ m.origin # s
         /\ UNCHANGED lsaSequenceNumber
         /\ FloodTypes'
         /\ isTopologyInitialized' = [isTopologyInitialized EXCEPT ![s] = TRUE]
         /\ \A r \in Routers \ {s} : topologyDatabase'[r] = topologyDatabase[r]
         /\ topologyDatabase'[s][s] = IF isTopologyInitialized[s] THEN topologyDatabase[s][s] ELSE 0
         /\ topologyDatabase'[s][m.origin] =
              IF m.seq > topologyDatabase[s][m.origin] THEN m.seq ELSE topologyDatabase[s][m.origin]
         /\ \A o \in Routers \ {s, m.origin} : topologyDatabase'[s][o] = topologyDatabase[s][o]
         /\ BagToSet(wire) \ {m} \subseteq BagToSet(wire')
         /\ BagToSet(wire') \subseteq BagToSet(wire) \cup floodLsa(s, m.origin, m.seq)
         /\ ~panicked' /\ m.seq > topologyDatabase[s][m.origin] =>
              floodLsa(s, m.origin, m.seq) \subseteq BagToSet(wire')
<1> DEFINE accepted == Newer(m.seq, initialized(s)[m.origin])
           sent == IF accepted /\ ~panicked' THEN floodLsa(s, m.origin, m.seq) ELSE {}
           database == IF accepted THEN [initialized(s) EXCEPT ![m.origin] = m.seq] ELSE initialized(s)
<1>1. /\ isTopologyInitialized' = [isTopologyInitialized EXCEPT ![s] = TRUE]
      /\ topologyDatabase' = [topologyDatabase EXCEPT ![s] = database]
      /\ wire' = BagRemove(wire, m) (+) SetToBag(sent)
      /\ UNCHANGED lsaSequenceNumber
      /\ m.type = "LSA"
  BY DEF receiveLsaPacket
<1>2. /\ m \in Lsa /\ m.link \in RouterLinks /\ m.from \in Ends[m.link]
      /\ m.origin = m.from \/ m.origin \notin Ends[m.link]
      /\ m.origin \in Routers /\ m.seq \in Nat \ {0}
  <2>1. m \in Lsa
    BY <1>1 DEF IInv, FloodTypes, Hello
  <2>2. QED BY <1>1, <2>1 DEF IInv, Structure, Lsa
<1>3. s \in Routers /\ s \in Ends[m.link] /\ Peer(m.link, s) = m.from /\ s # m.from
  BY <1>2, RouterLinkFacts
<1>4. m.origin # s
  BY <1>2, <1>3
<1>5. panicked' \in BOOLEAN
  <2>1. CASE accepted
    BY <2>1, UpdateWorksOrPanics DEF receiveLsaPacket
  <2>2. CASE ~accepted
    BY <2>2 DEF receiveLsaPacket, IInv, FloodTypes
  <2>3. QED BY <2>1, <2>2
<1>6. /\ topologyDatabase[s] \in [Routers -> Nat \cup {Absent}]
      /\ initialized(s) = IF isTopologyInitialized[s] THEN topologyDatabase[s]
                          ELSE [topologyDatabase[s] EXCEPT ![s] = 0]
  BY <1>3 DEF IInv, FloodTypes, initialized
<1>7. /\ initialized(s) \in [Routers -> Nat \cup {Absent}]
      /\ initialized(s)[m.origin] = topologyDatabase[s][m.origin]
      /\ initialized(s)[s] = IF isTopologyInitialized[s] THEN topologyDatabase[s][s] ELSE 0
      /\ \A o \in Routers \ {s} : initialized(s)[o] = topologyDatabase[s][o]
  BY <1>2, <1>3, <1>4, <1>6
<1>8. accepted <=> m.seq > topologyDatabase[s][m.origin]
  <2>1. topologyDatabase[s][m.origin] \in Nat \cup {Absent}
    BY <1>2, <1>6
  <2>2. QED BY <1>2, <1>7, <2>1 DEF Newer, Absent
<1> HIDE DEF accepted
<1>9. /\ database \in [Routers -> Nat \cup {Absent}]
      /\ database[s] = IF isTopologyInitialized[s] THEN topologyDatabase[s][s] ELSE 0
      /\ database[m.origin] = IF accepted THEN m.seq ELSE topologyDatabase[s][m.origin]
      /\ \A o \in Routers \ {s, m.origin} : database[o] = topologyDatabase[s][o]
  <2>1. CASE accepted
    BY <1>2, <1>3, <1>4, <1>7, <2>1
  <2>2. CASE ~accepted
    BY <1>2, <1>3, <1>4, <1>7, <2>2
  <2>3. QED BY <2>1, <2>2
<1> HIDE DEF database
<1>10. /\ topologyDatabase'[s] = database
       /\ \A r \in Routers \ {s} : topologyDatabase'[r] = topologyDatabase[r]
       /\ topologyDatabase' \in [Routers -> [Routers -> Nat \cup {Absent}]]
  BY <1>1, <1>3, <1>9 DEF IInv, FloodTypes
<1>11. /\ IsABag(wire')
       /\ BagToSet(wire') = BagToSet(BagRemove(wire, m)) \cup sent
       /\ BagToSet(BagRemove(wire, m)) \subseteq BagToSet(wire)
       /\ BagToSet(wire) \ {m} \subseteq BagToSet(BagRemove(wire, m))
  <2>1. /\ IsABag(BagRemove(wire, m))
        /\ BagToSet(BagRemove(wire, m)) \subseteq BagToSet(wire)
        /\ BagToSet(wire) \ {m} \subseteq BagToSet(BagRemove(wire, m))
    BY <1>1, WireRemove DEF IInv, FloodTypes, BagRemove, Ext!BagRemove
  <2>2. QED BY <1>1, <2>1, WireAdd
<1>12. floodLsa(s, m.origin, m.seq) \subseteq Lsa
  BY <1>2, <1>3, LsasSent DEF floodLsa
<1>13. FloodTypes'
  <2>1. isTopologyInitialized' \in [Routers -> BOOLEAN]
    BY <1>1 DEF IInv, FloodTypes
  <2>2. BagToSet(wire') \subseteq Hello \cup Lsa
    BY <1>11, <1>12 DEF IInv, FloodTypes
  <2>3. lsaSequenceNumber' \in [Routers -> Nat]
    BY <1>1 DEF IInv, FloodTypes
  <2>4. QED BY <1>5, <1>10, <1>11, <2>1, <2>2, <2>3 DEF FloodTypes
<1>14. /\ BagToSet(wire) \ {m} \subseteq BagToSet(wire')
       /\ BagToSet(wire') \subseteq BagToSet(wire) \cup floodLsa(s, m.origin, m.seq)
       /\ ~panicked' /\ accepted => floodLsa(s, m.origin, m.seq) \subseteq BagToSet(wire')
  BY <1>11
<1>15. QED BY <1>1, <1>2, <1>3, <1>4, <1>8, <1>9, <1>10, <1>13, <1>14

LEMMA ReceiveLsaInv ==
  ASSUME IInv, NEW m \in BagToSet(wire), receiveLsaPacket(m) PROVE IInv'
<1> DEFINE s == Peer(m.link, m.from)
           flooded == floodLsa(s, m.origin, m.seq)
<1>1. /\ m \in Lsa /\ m.type = "LSA" /\ m.link \in RouterLinks /\ m.from \in Ends[m.link]
      /\ m.origin \in Routers /\ m.seq \in Nat \ {0} /\ s \in Routers
      /\ Peer(m.link, s) = m.from /\ s # m.from /\ m.origin # s
      /\ UNCHANGED lsaSequenceNumber
      /\ FloodTypes'
      /\ isTopologyInitialized' = [isTopologyInitialized EXCEPT ![s] = TRUE]
      /\ \A r \in Routers \ {s} : topologyDatabase'[r] = topologyDatabase[r]
      /\ topologyDatabase'[s][s] = IF isTopologyInitialized[s] THEN topologyDatabase[s][s] ELSE 0
      /\ topologyDatabase'[s][m.origin] =
           IF m.seq > topologyDatabase[s][m.origin] THEN m.seq ELSE topologyDatabase[s][m.origin]
      /\ \A o \in Routers \ {s, m.origin} : topologyDatabase'[s][o] = topologyDatabase[s][o]
      /\ BagToSet(wire) \ {m} \subseteq BagToSet(wire')
      /\ BagToSet(wire') \subseteq BagToSet(wire) \cup flooded
      /\ ~panicked' /\ m.seq > topologyDatabase[s][m.origin] => flooded \subseteq BagToSet(wire')
  BY ReceiveEffect
<1>2. \A n \in flooded : /\ n \in Lsa /\ n.from = s /\ n.from \in Ends[n.link]
                         /\ m.origin \notin Ends[n.link] /\ n.origin = m.origin /\ n.seq = m.seq
  BY <1>1, LsasSent DEF floodLsa
<1>3. \A l \in RouterLinks : s \in Ends[l] /\ m.origin \notin Ends[l] =>
        [type |-> "LSA", link |-> l, from |-> s, origin |-> m.origin, seq |-> m.seq] \in flooded
  BY <1>1, LsasSent, RouterLinkFacts DEF floodLsa
<1> HIDE DEF s, flooded
<1>4. \A r, o \in Routers : /\ topologyDatabase[r][o] \in Int /\ topologyDatabase'[r][o] \in Int
                            /\ lsaSequenceNumber[o] \in Nat
                            /\ topologyDatabase[r][o] <= lsaSequenceNumber[o]
  BY <1>1 DEF IInv, FloodTypes, NothingInvented, Absent
<1>5. \A r \in Routers : topologyDatabase[r][r] = IF isTopologyInitialized[r] THEN 0 ELSE Absent
  BY DEF IInv, OwnEntryUntouched
<1>6. m.seq <= lsaSequenceNumber[m.origin]
  BY <1>1 DEF IInv, NothingInvented
<1>7. Structure'
  BY <1>1, <1>2 DEF IInv, Structure
<1>8. NothingInvented'
  <2>1. ASSUME NEW r \in Routers, NEW o \in Routers
        PROVE  topologyDatabase'[r][o] <= lsaSequenceNumber[o]
    <3>1. CASE r # s
      BY <1>1, <1>4, <3>1
    <3>2. CASE r = s /\ o = s
      <4>1. topologyDatabase'[s][s] = 0
        BY <1>1, <1>5
      <4>2. QED BY <1>4, <3>2, <4>1
    <3>3. CASE r = s /\ o = m.origin
      BY <1>1, <1>4, <1>6, <3>3
    <3>4. CASE r = s /\ o \notin {s, m.origin}
      BY <1>1, <1>4, <3>4
    <3>5. QED BY <3>1, <3>2, <3>3, <3>4
  <2>2. ASSUME NEW n \in BagToSet(wire'), n.type = "LSA"
        PROVE  n.seq <= lsaSequenceNumber[n.origin]
    <3>1. CASE n \in flooded
      BY <1>2, <1>6, <3>1
    <3>2. CASE n \in BagToSet(wire)
      BY <2>2, <3>2 DEF IInv, NothingInvented
    <3>3. QED BY <1>1, <3>1, <3>2
  <2>3. QED BY <1>1, <2>1, <2>2 DEF NothingInvented
<1>9. OwnEntryUntouched'
  <2> SUFFICES ASSUME NEW r \in Routers
               PROVE  topologyDatabase'[r][r] = IF isTopologyInitialized'[r] THEN 0 ELSE Absent
    BY DEF OwnEntryUntouched
  <2>1. isTopologyInitialized \in [Routers -> BOOLEAN]
    BY DEF IInv, FloodTypes
  <2>2. CASE r = s
    BY <1>1, <1>5, <2>1, <2>2
  <2>3. CASE r # s
    BY <1>1, <1>5, <2>1, <2>3
  <2>4. QED BY <2>2, <2>3
<1>10. \A r, o \in Routers : topologyDatabase'[r][o] >= topologyDatabase[r][o]
  <2> SUFFICES ASSUME NEW r \in Routers, NEW o \in Routers
               PROVE  topologyDatabase'[r][o] >= topologyDatabase[r][o]
    OBVIOUS
  <2>1. CASE r # s
    BY <1>1, <1>4, <2>1
  <2>2. CASE r = s /\ o = s
    BY <1>1, <1>4, <1>5, <2>2 DEF Absent
  <2>3. CASE r = s /\ o = m.origin
    BY <1>1, <1>4, <2>3
  <2>4. CASE r = s /\ o \notin {s, m.origin}
    BY <1>1, <1>4, <2>4
  <2>5. QED BY <2>1, <2>2, <2>3, <2>4
<1>11. topologyDatabase'[s][m.origin] >= m.seq
  BY <1>1, <1>4
<1>12. FloodLeavesNoGap'
  <2>1. SUFFICES ASSUME ~panicked', NEW l \in RouterLinks, NEW r \in Ends[l],
                        NEW q, q = Peer(l, r)
                 PROVE  /\ \/ topologyDatabase'[q][r] >= lsaSequenceNumber[r]
                           \/ lsaSequenceNumber[r] = 0
                           \/ OnItsWay(l, r, r, lsaSequenceNumber[r])'
                        /\ \A o \in Routers \ Ends[l] :
                             \/ topologyDatabase'[q][o] >= topologyDatabase'[r][o]
                             \/ OnItsWay(l, r, o, topologyDatabase[r][o])'
    BY <1>1 DEF FloodLeavesNoGap, OnItsWay
  <2>2. r \in Routers /\ q \in Routers /\ q # r /\ q \in Ends[l]
    BY <2>1, RouterLinkFacts
  <2>3. ~panicked
    BY DEF receiveLsaPacket
  <2>4. /\ \/ topologyDatabase[q][r] >= lsaSequenceNumber[r]
           \/ lsaSequenceNumber[r] = 0
           \/ OnItsWay(l, r, r, lsaSequenceNumber[r])
        /\ \A o \in Routers \ Ends[l] :
             \/ topologyDatabase[q][o] >= topologyDatabase[r][o]
             \/ OnItsWay(l, r, o, topologyDatabase[r][o])
    BY <2>1, <2>3 DEF IInv, FloodLeavesNoGap
  \* An LSA on its way is still on its way, or its receiver has it now.
  <2>5. ASSUME NEW o \in Routers, NEW n, OnItsWay(l, r, o, n)
        PROVE  \/ [type |-> "LSA", link |-> l, from |-> r, origin |-> o, seq |-> n] \in BagToSet(wire')
               \/ topologyDatabase'[q][o] >= n
    <3>1. CASE [type |-> "LSA", link |-> l, from |-> r, origin |-> o, seq |-> n] = m
      <4>1. m.link = l /\ m.from = r /\ m.origin = o /\ m.seq = n
        BY <3>1
      <4>2. q = s
        BY <2>1, <4>1 DEF s
      <4>3. QED BY <1>11, <4>1, <4>2
    <3>2. CASE [type |-> "LSA", link |-> l, from |-> r, origin |-> o, seq |-> n] # m
      BY <1>1, <2>5, <3>2 DEF OnItsWay
    <3>3. QED BY <3>1, <3>2
  <2>6. \/ topologyDatabase'[q][r] >= lsaSequenceNumber[r]
        \/ lsaSequenceNumber[r] = 0
        \/ OnItsWay(l, r, r, lsaSequenceNumber[r])'
    <3>1. CASE topologyDatabase[q][r] >= lsaSequenceNumber[r]
      BY <1>4, <1>10, <2>2, <3>1
    <3>2. CASE OnItsWay(l, r, r, lsaSequenceNumber[r])
      BY <1>1, <2>2, <2>5, <3>2 DEF OnItsWay
    <3>3. QED BY <2>4, <3>1, <3>2
  <2>7. ASSUME NEW o \in Routers \ Ends[l]
        PROVE  \/ topologyDatabase'[q][o] >= topologyDatabase'[r][o]
               \/ [type |-> "LSA", link |-> l, from |-> r, origin |-> o,
                   seq |-> topologyDatabase'[r][o]] \in BagToSet(wire')
    <3>1. CASE r = s /\ o = m.origin /\ m.seq > topologyDatabase[s][m.origin]
      <4>1. topologyDatabase'[r][o] = m.seq
        BY <1>1, <3>1
      <4>2. [type |-> "LSA", link |-> l, from |-> s, origin |-> m.origin, seq |-> m.seq] \in flooded
        BY <1>3, <2>7, <3>1
      <4>3. QED BY <1>1, <2>1, <3>1, <4>1, <4>2
    <3>2. CASE ~(r = s /\ o = m.origin /\ m.seq > topologyDatabase[s][m.origin])
      <4>1. topologyDatabase'[r][o] = topologyDatabase[r][o]
        BY <1>1, <2>2, <2>7, <3>2
      <4>2. CASE topologyDatabase[q][o] >= topologyDatabase[r][o]
        BY <1>4, <1>10, <2>2, <4>1, <4>2
      <4>3. CASE OnItsWay(l, r, o, topologyDatabase[r][o])
        BY <2>5, <4>1, <4>3
      <4>4. QED BY <2>4, <4>2, <4>3
    <3>3. QED BY <3>1, <3>2
  <2>8. QED BY <2>6, <2>7 DEF OnItsWay
<1>13. QED BY <1>1, <1>7, <1>8, <1>9, <1>12 DEF IInv

\* The invariant holds in every reachable state.
LEMMA Invariant == Spec => []IInv
<1>1. Init => IInv
  BY InitInv
<1>2. IInv /\ [Next]_vars => IInv'
  <2> SUFFICES ASSUME IInv, [Next]_vars PROVE IInv'
    OBVIOUS
  <2>1. ASSUME NEW r \in Routers, sendHelloPacket(r) PROVE IInv'
    BY <2>1, SendHelloInv
  <2>2. ASSUME NEW r \in Routers, sendLsaPacket(r) PROVE IInv'
    BY <2>2, SendLsaInv
  <2>3. ASSUME NEW m \in BagToSet(wire), receiveHelloPacket(m) PROVE IInv'
    BY <2>3, ReceiveHelloInv
  <2>4. ASSUME NEW m \in BagToSet(wire), receiveLsaPacket(m) PROVE IInv'
    BY <2>4, ReceiveLsaInv
  <2>5. CASE UNCHANGED vars
    BY <2>5 DEF vars, IInv, FloodTypes, Structure, NothingInvented, OwnEntryUntouched,
                FloodLeavesNoGap, OnItsWay
  <2>6. QED BY <2>1, <2>2, <2>3, <2>4, <2>5 DEF Next
<1>3. QED BY <1>1, <1>2, PTL DEF Spec

\* With no LSA in flight, having the latest LSA of o spreads over every link
\* until all routers have it.
LEMMA SameTopologyImplied == IInv => SameTopologyAtRest
<1> SUFFICES ASSUME IInv, NoLsaInFlight, Connects(RouterLinks),
                    NEW r0 \in Routers, NEW o \in Routers, r0 # o, lsaSequenceNumber[o] > 0
             PROVE  topologyDatabase[r0][o] = lsaSequenceNumber[o]
  BY DEF SameTopologyAtRest
<1> DEFINE part == {r \in Routers : r = o \/ topologyDatabase[r][o] = lsaSequenceNumber[o]}
<1>1. \A r \in Routers : /\ topologyDatabase[r][o] \in Int
                         /\ lsaSequenceNumber[o] \in Nat
                         /\ topologyDatabase[r][o] <= lsaSequenceNumber[o]
  BY DEF IInv, FloodTypes, NothingInvented, Absent
<1>2. ASSUME NEW l \in RouterLinks, NEW r \in part, NEW q \in Routers, Ends[l] = {r, q}, q # r,
             q # o
      PROVE  topologyDatabase[q][o] = lsaSequenceNumber[o]
  <2>1. r \in Ends[l] /\ q = Peer(l, r)
    BY <1>2, RouterLinkFacts
  <2>2. \A n : ~OnItsWay(l, r, o, n)
    BY DEF NoLsaInFlight, OnItsWay
  <2>3. /\ \/ topologyDatabase[q][r] >= lsaSequenceNumber[r]
           \/ lsaSequenceNumber[r] = 0
           \/ OnItsWay(l, r, r, lsaSequenceNumber[r])
        /\ \A x \in Routers \ Ends[l] :
             \/ topologyDatabase[q][x] >= topologyDatabase[r][x]
             \/ OnItsWay(l, r, x, topologyDatabase[r][x])
    BY <2>1 DEF IInv, FloodLeavesNoGap, NoLsaInFlight
  <2>4. CASE r = o
    BY <1>1, <2>2, <2>3, <2>4
  <2>5. CASE r # o
    <3>1. o \in Routers \ Ends[l]
      BY <1>2, <2>5
    <3>2. topologyDatabase[r][o] = lsaSequenceNumber[o]
      BY <2>5
    <3>3. topologyDatabase[q][o] >= topologyDatabase[r][o]
      BY <2>2, <2>3, <3>1
    <3>4. QED BY <1>1, <3>2, <3>3
  <2>6. QED BY <2>4, <2>5
<1>3. part \in SUBSET Routers /\ o \in part
  OBVIOUS
<1>4. ASSUME part # Routers PROVE FALSE
  <2>1. PICK l \in RouterLinks : \E r \in part, q \in Routers \ part : Ends[l] = {r, q}
    BY <1>3, <1>4 DEF Connects
  <2>2. PICK r \in part, q \in Routers \ part : Ends[l] = {r, q}
    BY <2>1
  <2>3. q # r /\ q # o
    BY <2>2, <1>3
  <2>4. topologyDatabase[q][o] = lsaSequenceNumber[o]
    BY <1>2, <2>2, <2>3
  <2>5. QED BY <2>2, <2>4
<1>5. QED BY <1>4

-----------------------------------------------------------------------------
\* Flooding leaves no gap (handleLsaP.go:50-107), whatever the network, the
\* delays and the number of LSAs.
THEOREM NoGap == Spec => []FloodLeavesNoGap
<1>1. IInv => FloodLeavesNoGap
  BY DEF IInv
<1>2. QED BY <1>1, Invariant, PTL

\* No router ever takes its own LSA for news (handleLsaP.go:60).
THEOREM OwnEntry == Spec => []OwnEntryUntouched
<1>1. IInv => OwnEntryUntouched
  BY DEF IInv
<1>2. QED BY <1>1, Invariant, PTL

\* In any connected network all routers have the latest LSA of all others as
\* soon as no LSA is in flight (lsa_test.go:13).
THEOREM SameTopology == Spec => []SameTopologyAtRest
<1>1. QED BY SameTopologyImplied, Invariant, PTL

-----------------------------------------------------------------------------
(***************************************************************************)
(* The routing tables.  findInitialHop is a recursive function on a tree   *)
(* of previous nodes: there is one, because the way back from a router can *)
(* be said without it, and it gives a router because every way back ends.  *)
(***************************************************************************)
\* The way back from q: what is in every set that has q and the previous node of
\* each of its elements, as far as it is not r.
Closed(part, previous) == \A q \in part : previous[q] \in DOMAIN previous => previous[q] \in part
WayBack(q, previous) ==
  {a \in DOMAIN previous : \A part \in SUBSET DOMAIN previous :
     q \in part /\ Closed(part, previous) => a \in part}
FirstHops(q, r, previous) == {a \in WayBack(q, previous) : previous[a] = r}

LEMMA OneStepBack ==
  ASSUME NEW previous, NEW r, r \notin DOMAIN previous, NEW q \in DOMAIN previous,
         previous[q] = r \/ previous[q] \in DOMAIN previous
  PROVE  FirstHops(q, r, previous) = IF previous[q] = r THEN {q} ELSE FirstHops(previous[q], r, previous)
<1> DEFINE D == DOMAIN previous
           w == WayBack(q, previous)
           v == WayBack(previous[q], previous)
<1>1. q \in w
  BY DEF WayBack
<1>2. CASE previous[q] = r
  <2>1. Closed({q}, previous)
    BY <1>2 DEF Closed
  <2>2. \A a \in w : a \in {q}
    BY <2>1 DEF WayBack
  <2>3. QED BY <1>1, <1>2, <2>2 DEF FirstHops
<1>3. CASE previous[q] # r
  <2>0. previous[q] \in D
    BY <1>3
  <2>1. ASSUME NEW a \in v PROVE a \in w
    <3> SUFFICES ASSUME NEW part \in SUBSET D, q \in part, Closed(part, previous) PROVE a \in part
      BY DEF WayBack
    <3>1. previous[q] \in part
      BY <2>0 DEF Closed
    <3>2. QED BY <3>1 DEF WayBack
  <2>2. ASSUME NEW a \in w, a # q PROVE a \in v
    <3> SUFFICES ASSUME NEW part \in SUBSET D, previous[q] \in part, Closed(part, previous)
                 PROVE  a \in part
      BY DEF WayBack
    <3>1. part \cup {q} \in SUBSET D /\ Closed(part \cup {q}, previous)
      BY DEF Closed
    <3>2. a \in part \cup {q}
      BY <3>1 DEF WayBack
    <3>3. QED BY <2>2, <3>2
  <2> HIDE DEF v, w
  <2>3. \A a : a \in FirstHops(q, r, previous) <=> a \in FirstHops(previous[q], r, previous)
    BY <1>3, <2>1, <2>2 DEF FirstHops, v, w
  <2>4. QED BY <1>3, <2>3
<1>4. QED BY <1>2, <1>3

\* findInitialHop obeys its recursion.
LEMMA HopExists ==
  ASSUME NEW previous, NEW r, r \notin DOMAIN previous,
         \A q \in DOMAIN previous : previous[q] = r \/ previous[q] \in DOMAIN previous
  PROVE  LET hop == findInitialHop(r, previous)
         IN  /\ DOMAIN hop = DOMAIN previous
             /\ \A q \in DOMAIN previous : hop[q] = IF previous[q] = r THEN q ELSE hop[previous[q]]
<1> DEFINE D == DOMAIN previous
           solves(f) == f = [q \in D |-> IF previous[q] = r THEN q ELSE f[previous[q]]]
           h == [q \in D |-> CHOOSE a : a \in FirstHops(q, r, previous)]
           hop == findInitialHop(r, previous)
<1>1. ASSUME NEW q \in D PROVE h[q] = IF previous[q] = r THEN q ELSE h[previous[q]]
  <2>1. FirstHops(q, r, previous) = IF previous[q] = r THEN {q} ELSE FirstHops(previous[q], r, previous)
    BY OneStepBack
  <2>2. CASE previous[q] = r
    <3>1. h[q] = CHOOSE a : a \in {q}
      BY <2>1, <2>2
    <3>2. QED BY <2>2, <3>1
  <2>3. CASE previous[q] # r
    BY <2>1, <2>3
  <2>4. QED BY <2>2, <2>3
<1>2. solves(h)
  <2>1. h = [q \in D |-> h[q]]
    OBVIOUS
  <2> HIDE DEF h
  <2>2. QED BY <1>1, <2>1
<1>3. hop = CHOOSE f : solves(f)
  BY DEF findInitialHop
<1> HIDE DEF hop, h
<1>4. solves(hop)
  <2> HIDE DEF solves
  <2>1. QED BY <1>2, <1>3
<1>5. DOMAIN hop = D /\ \A q \in D : hop[q] = IF previous[q] = r THEN q ELSE hop[previous[q]]
  BY <1>4
<1>6. QED BY <1>5 DEF hop

\* In a tree the first hops are routers of the tree.
LEMMA HopType ==
  ASSUME NEW r \in Routers, NEW known \in SUBSET Routers,
         NEW previous \in ShortestPathTrees(r, known)
  PROVE  LET hop == findInitialHop(r, previous)
         IN  /\ DOMAIN hop \subseteq Routers \ {r} /\ IsFiniteSet(DOMAIN hop)
             /\ \A q \in DOMAIN hop : hop[q] \in DOMAIN hop /\ previous[hop[q]] = r
<1> DEFINE hop == findInitialHop(r, previous)
           D == DOMAIN previous
           nodes == reached(r, known)
<1>1. /\ previous \in [nodes \ {r} -> nodes]
      /\ \A part \in SUBSET (nodes \ {r}) : part # {} => \E q \in part : previous[q] \notin part
  BY DEF ShortestPathTrees
<1>2. nodes \subseteq Routers
  BY DEF reached
<1> HIDE DEF nodes
<1>3. D = nodes \ {r} /\ \A q \in D : previous[q] = r \/ previous[q] \in D
  BY <1>1
<1>4. DOMAIN hop = D /\ \A q \in D : hop[q] = IF previous[q] = r THEN q ELSE hop[previous[q]]
  BY <1>3, HopExists
<1> HIDE DEF hop, D
<1> DEFINE bad == {q \in D : ~(hop[q] \in D /\ previous[hop[q]] = r)}
<1>5. bad = {}
  <2> SUFFICES ASSUME bad # {} PROVE FALSE
    OBVIOUS
  <2>1. PICK q \in bad : previous[q] \notin bad
    BY <1>1, <1>3
  <2>2. QED BY <1>3, <1>4, <2>1
<1>6. IsFiniteSet(D)
  BY <1>2, <1>3, RoutersAssumption, FiniteParts
<1>7. QED BY <1>2, <1>3, <1>4, <1>5, <1>6 DEF hop

\* One of the at most two routers of a network is the last in the order.
LEMMA LastRouter ==
  ASSUME NEW l \in Links, NEW D, IsFiniteSet(D), NEW order \in Bijection(D, 1 .. Cardinality(D)),
         Ends[l] \cap D # {}
  PROVE  (CHOOSE q \in Ends[l] \cap D : \A p \in Ends[l] \cap D : order[p] <= order[q])
            \in Ends[l] \cap D
<1>1. PICK a, b \in Ends[l] : Ends[l] = {a, b}
  BY EndsAssumption
<1>2. Cardinality(D) \in Nat
  BY Counting
<1>3. \A q \in D : order[q] \in Nat
  <2>1. order \in [D -> 1 .. Cardinality(D)]
    BY DEF Bijection, Injection
  <2>2. QED BY <1>2, <2>1
<1>4. \E q \in Ends[l] \cap D : \A p \in Ends[l] \cap D : order[p] <= order[q]
  <2>1. CASE a \in D /\ b \in D
    <3>1. order[a] <= order[b] \/ order[b] <= order[a]
      BY <1>3, <2>1
    <3>2. order[a] <= order[a] /\ order[b] <= order[b]
      BY <1>3, <2>1
    <3>3. QED BY <1>1, <2>1, <3>1, <3>2
  <2>2. CASE a \notin D \/ b \notin D
    <3>1. PICK q \in Ends[l] \cap D : TRUE
      OBVIOUS
    <3>2. \A p \in Ends[l] \cap D : p = q
      BY <1>1, <2>2
    <3>3. order[q] <= order[q]
      BY <1>3
    <3>4. QED BY <3>1, <3>2, <3>3
  <2>3. QED BY <1>1, <2>1, <2>2
<1>5. QED BY <1>4

Tables ==
  /\ neighbors \in [Routers -> [Routers -> Links \cup {NoLink}]]
  /\ routingTable \in [Routers -> [Links -> Entry]]
  /\ hellos \in [Routers -> Nat]

\* Recomputing the table of r writes entries.
LEMMA UpdateType ==
  ASSUME Tables, NEW r \in Routers, NEW known \in SUBSET Routers,
         updateRoutingTableWithDijkstra(r, known)
  PROVE  routingTable' \in [Routers -> [Links -> Entry]]
<1>1. CASE UNCHANGED routingTable
  BY <1>1 DEF Tables
<1>2. CASE ~UNCHANGED routingTable
  <2>1. PICK previous \in calculateShortestPaths[r][known] :
          \E order \in Bijection(DOMAIN findInitialHop(r, previous),
                                 1 .. Cardinality(DOMAIN findInitialHop(r, previous))) :
            routingTable' = [routingTable EXCEPT ![r] =
                               newRoutingTable(r, findInitialHop(r, previous), order)]
    BY <1>2 DEF updateRoutingTableWithDijkstra
  <2> DEFINE hop == findInitialHop(r, previous)
             D == DOMAIN hop
  <2>2. previous \in ShortestPathTrees(r, known)
    BY <2>1 DEF calculateShortestPaths
  <2>3. /\ D \subseteq Routers /\ IsFiniteSet(D)
        /\ \A q \in D : hop[q] \in D
    BY <2>2, HopType
  <2>4. PICK order \in Bijection(D, 1 .. Cardinality(D)) :
          routingTable' = [routingTable EXCEPT ![r] = newRoutingTable(r, hop, order)]
    BY <2>1
  <2> HIDE DEF hop
  <2>5. newRoutingTable(r, hop, order) \in [Links -> Entry]
    <3> DEFINE last(l) == CHOOSE q \in Ends[l] \cap D : \A p \in Ends[l] \cap D : order[p] <= order[q]
               entry(l) ==
                 IF Ends[l] \cap D # {}
                 THEN [nexthop |-> IF r \in Ends[l] THEN Direct ELSE hop[last(l)],
                       link |-> neighbors[r][hop[last(l)]]]
                 ELSE IF r \in Ends[l] THEN [nexthop |-> Direct, link |-> l] ELSE NoRoute
    <3>1. newRoutingTable(r, hop, order) = [l \in Links |-> entry(l)]
      BY DEF newRoutingTable
    <3>2. ASSUME NEW l \in Links PROVE entry(l) \in Entry
      <4>1. CASE Ends[l] \cap D # {}
        <5>1. last(l) \in D
          BY <2>3, <4>1, LastRouter
        <5> HIDE DEF last
        <5>2. hop[last(l)] \in Routers
          BY <2>3, <5>1
        <5>3. neighbors[r][hop[last(l)]] \in Links \cup {NoLink}
          BY <5>2 DEF Tables
        <5>4. QED BY <4>1, <5>2, <5>3 DEF Entry
      <4>2. CASE Ends[l] \cap D = {}
        BY <4>2 DEF Entry, NoRoute
      <4>3. QED BY <4>1, <4>2
    <3> HIDE DEF entry
    <3>3. QED BY <3>1, <3>2
  <2>6. QED BY <2>4, <2>5 DEF Tables
<1>3. QED BY <1>1, <1>2

LEMMA TablesStart == Init => Tables
<1> SUFFICES ASSUME Init PROVE Tables
  OBVIOUS
<1>1. \A r \in Routers, l \in Links :
        (IF r \in Ends[l] THEN [nexthop |-> Direct, link |-> l] ELSE NoRoute) \in Entry
  BY DEF Entry, NoRoute
<1>2. QED BY <1>1 DEF Init, Tables

LEMMA TablesStep == ASSUME IInv, Tables, [Next]_vars PROVE Tables'
<1>1. CASE UNCHANGED vars
  BY <1>1 DEF vars, Tables
<1>2. ASSUME NEW r \in Routers, sendHelloPacket(r) \/ sendLsaPacket(r) PROVE Tables'
  BY <1>2 DEF sendHelloPacket, sendLsaPacket, Tables
<1>3. ASSUME NEW m \in BagToSet(wire), receiveHelloPacket(m) PROVE Tables'
  <2>1. m \in Hello
    BY <1>3 DEF receiveHelloPacket, IInv, FloodTypes, Lsa
  <2>2. m.link \in RouterLinks /\ m.from \in Routers /\ m.from \in Ends[m.link]
    BY <2>1 DEF Hello, IInv, Structure
  <2>3. m.link \in Links /\ Peer(m.link, m.from) \in Routers
    BY <2>2, RouterLinkFacts
  <2>4. QED BY <1>3, <2>2, <2>3 DEF receiveHelloPacket, Tables
<1>4. ASSUME NEW m \in BagToSet(wire), receiveLsaPacket(m) PROVE Tables'
  <2> DEFINE s == Peer(m.link, m.from)
  <2>1. s \in Routers
    BY <1>4, ReceiveEffect
  <2>2. UNCHANGED <<neighbors, hellos>>
    BY <1>4 DEF receiveLsaPacket
  <2>3. \/ UNCHANGED routingTable
        \/ \E known \in SUBSET Routers : updateRoutingTableWithDijkstra(s, known)
    <3> DEFINE accepted == Newer(m.seq, initialized(s)[m.origin])
               database == IF accepted THEN [initialized(s) EXCEPT ![m.origin] = m.seq]
                           ELSE initialized(s)
               known == {q \in Routers : database[q] # Absent}
    <3>1. IF accepted THEN updateRoutingTableWithDijkstra(s, known)
          ELSE UNCHANGED <<routingTable, panicked>>
      BY <1>4 DEF receiveLsaPacket
    <3>2. known \in SUBSET Routers
      OBVIOUS
    <3> HIDE DEF known, accepted
    <3>3. QED BY <3>1, <3>2
  <2> HIDE DEF s
  <2>4. routingTable' \in [Routers -> [Links -> Entry]]
    BY <2>1, <2>3, UpdateType DEF Tables
  <2>5. QED BY <2>2, <2>4 DEF Tables
<1>5. QED BY <1>1, <1>2, <1>3, <1>4 DEF Next

\* All fields stay well formed; in particular a routing table, whatever the tree
\* of shortest paths and the order of Go's maps, names routers and links.
THEOREM LinkStateTypes == Spec => []TypeOK
<1>1. Init => IInv /\ Tables
  BY InitInv, TablesStart
<1>2. Tables /\ IInv /\ [Next]_vars => Tables'
  BY TablesStep
<1>3. IInv /\ Tables => TypeOK
  BY DEF IInv, FloodTypes, Tables, TypeOK
<1>4. QED BY <1>1, <1>2, <1>3, Invariant, PTL DEF Spec

-----------------------------------------------------------------------------
(***************************************************************************)
(* The way of a packet over the tables of many routers.  Each router has a *)
(* tree of its own.  The trees need not agree: it is enough that the first *)
(* hop is closer to the destination over its own tree than the router is   *)
(* over its, and that costs are natural numbers.                           *)
(***************************************************************************)
\* The cost of a link between two routers is a positive number, the same both ways.
Linked(q, o) == \E l \in Links : Ends[l] = {q, o}

LEMMA LinkCostFacts ==
  ASSUME NEW q, NEW o, Linked(q, o)
  PROVE  linkCost(q, o) \in Nat \ {0} /\ linkCost(q, o) = linkCost(o, q) /\ Linked(o, q)
<1> DEFINE S == {Cost[l] : l \in {k \in Links : Ends[k] = {q, o}}}
<1>1. S \in SUBSET Nat /\ S # {} /\ 0 \notin S
  BY CostAssumption DEF Linked
<1>2. PICK n \in S : \A m \in S : n <= m
  <2> HIDE DEF S
  <2>1. QED BY <1>1, LeastNatural
<1>3. Min(S) \in S
  BY <1>2 DEF Min
<1>4. linkCost(q, o) = Min(S)
  BY DEF linkCost
<1>5. {q, o} = {o, q}
  OBVIOUS
<1>6. linkCost(q, o) = linkCost(o, q) /\ Linked(o, q)
  BY <1>5 DEF linkCost, Linked
<1> HIDE DEF S
<1>7. QED BY <1>1, <1>3, <1>4, <1>6

\* The costs of the routers of a tree.
CostsSolve(cost, nodes, r, previous) ==
  cost = [q \in nodes |-> IF q = r THEN 0 ELSE cost[previous[q]] + linkCost(q, previous[q])]
Costs(nodes, r, previous) == CHOOSE cost : CostsSolve(cost, nodes, r, previous)
IsTree(nodes, r, previous) ==
  \A part \in SUBSET (nodes \ {r}) : part # {} => \E q \in part : previous[q] \notin part

Spans(nodes, r, previous) ==
  /\ previous \in [nodes \ {r} -> nodes] /\ IsTree(nodes, r, previous)
  /\ \A q \in nodes \ {r} : Linked(q, previous[q])

\* They exist: the largest part of the tree for which they do is the whole.
LEMMA CostsExist ==
  ASSUME NEW nodes, IsFiniteSet(nodes), NEW r \in nodes, NEW previous, Spans(nodes, r, previous)
  PROVE  LET cost == Costs(nodes, r, previous)
         IN  /\ cost \in [nodes -> Nat] /\ cost[r] = 0
             /\ \A q \in nodes \ {r} : cost[q] = cost[previous[q]] + linkCost(q, previous[q])
<1> DEFINE step(cost, q) == cost[previous[q]] + linkCost(q, previous[q])
           works(cost, left) ==
             /\ cost \in [nodes \ left -> Nat] /\ cost[r] = 0
             /\ \A q \in nodes \ {r} : q \notin left =>
                  previous[q] \notin left /\ cost[q] = step(cost, q)
           Lefts == {left \in SUBSET (nodes \ {r}) : \E cost : works(cost, left)}
<1>0. /\ previous \in [nodes \ {r} -> nodes] /\ IsTree(nodes, r, previous)
      /\ \A q \in nodes \ {r} : Linked(q, previous[q])
  BY DEF Spans
<1>1. \A q \in nodes \ {r} : linkCost(q, previous[q]) \in Nat /\ previous[q] \in nodes
  BY <1>0, LinkCostFacts
<1>2. nodes \ {r} \in Lefts
  <2>1. [q \in {r} |-> 0] \in [nodes \ (nodes \ {r}) -> Nat]
    OBVIOUS
  <2>2. works([q \in {r} |-> 0], nodes \ {r})
    BY <2>1
  <2>3. QED BY <2>2
<1>3. PICK left \in Lefts : \A smaller \in Lefts : smaller \subseteq left => smaller = left
  <2>1. IsFiniteSet(nodes \ {r}) /\ Lefts \in SUBSET (SUBSET (nodes \ {r})) /\ Lefts # {}
    BY <1>2, FiniteParts
  <2> HIDE DEF Lefts
  <2>2. QED BY <2>1, LeastSubset
<1>4. PICK cost : works(cost, left)
  OBVIOUS
<1>5. left = {}
  <2> SUFFICES ASSUME left # {} PROVE FALSE
    OBVIOUS
  <2>1. PICK q \in left : previous[q] \notin left
    BY <1>0 DEF IsTree
  <2>2. q \in nodes \ {r} /\ q # previous[q] /\ step(cost, q) \in Nat
    BY <1>1, <1>4, <2>1
  <2> DEFINE more == [p \in nodes \ (left \ {q}) |-> IF p = q THEN step(cost, q) ELSE cost[p]]
  <2>3. more \in [nodes \ (left \ {q}) -> Nat] /\ more[r] = 0
    BY <1>4, <2>2
  <2>4. ASSUME NEW p \in nodes \ {r}, p \notin left \ {q}
        PROVE  previous[p] \notin left \ {q} /\ more[p] = step(more, p)
    <3>1. CASE p = q
      <4>1. more[previous[q]] = cost[previous[q]] /\ more[q] = step(cost, q)
        BY <1>1, <2>1, <2>2
      <4>2. QED BY <2>1, <3>1, <4>1
    <3>2. CASE p # q
      <4>1. p \notin left /\ previous[p] \notin left /\ cost[p] = step(cost, p)
        BY <1>4, <2>4, <3>2
      <4>2. more[p] = cost[p] /\ previous[p] # q /\ more[previous[p]] = cost[previous[p]]
        BY <1>1, <2>1, <2>4, <3>2, <4>1
      <4>3. QED BY <4>1, <4>2
    <3>3. QED BY <3>1, <3>2
  <2> HIDE DEF more
  <2>5. works(more, left \ {q})
    BY <2>3, <2>4
  <2>6. left \ {q} \in Lefts
    BY <2>5
  <2>7. QED BY <1>3, <2>1, <2>6
<1>6. CostsSolve(cost, nodes, r, previous)
  <2>1. cost \in [nodes -> Nat] /\ cost[r] = 0 /\ \A q \in nodes \ {r} : cost[q] = step(cost, q)
    BY <1>4, <1>5
  <2>2. QED BY <2>1 DEF CostsSolve
<1> DEFINE c == Costs(nodes, r, previous)
<1>7. CostsSolve(c, nodes, r, previous)
  BY <1>6 DEF Costs
<1> HIDE DEF c
<1>8. /\ DOMAIN c = nodes /\ c = [q \in nodes |-> c[q]] /\ c[r] = 0
      /\ \A q \in nodes \ {r} : c[q] = step(c, q)
  BY <1>7 DEF CostsSolve
<1> DEFINE bad == {q \in nodes \ {r} : c[q] \notin Nat}
<1>9. bad = {}
  <2> SUFFICES ASSUME bad # {} PROVE FALSE
    OBVIOUS
  <2>1. PICK q \in bad : previous[q] \notin bad
    BY <1>0 DEF IsTree
  <2>2. c[previous[q]] \in Nat /\ c[q] = step(c, q)
    BY <1>1, <1>8, <2>1
  <2>3. QED BY <1>1, <2>1, <2>2
<1>10. \A q \in nodes : c[q] \in Nat
  BY <1>8, <1>9
<1>11. c \in [nodes -> Nat]
  BY <1>8, <1>10
<1>12. QED BY <1>8, <1>11 DEF c

\* What ShortestPathTrees says of a tree.
LEMMA TreeFacts ==
  ASSUME NEW r, NEW known, NEW previous \in ShortestPathTrees(r, known),
         NEW nodes, nodes = reached(r, known)
  PROVE  /\ Spans(nodes, r, previous)
         /\ \A q, o \in nodes : Linked(q, o) =>
              Costs(nodes, r, previous)[q] <= Costs(nodes, r, previous)[o] + linkCost(q, o)
  BY DEF ShortestPathTrees, Spans, IsTree, Linked, Costs, CostsSolve

\* In a connected network whose routers are all known, all can be reached.
LEMMA AllReached ==
  ASSUME Connects(RouterLinks), NEW r \in Routers
  PROVE  reached(r, Routers) = Routers
<1> SUFFICES ASSUME NEW q \in Routers, NEW part \in SUBSET (Routers \ {q}), r \in part
             PROVE  \E l \in RouterLinks : \E p \in part, o \in Routers \ part : Ends[l] = {p, o}
  BY DEF reached
<1>1. part \in SUBSET Routers /\ part # {} /\ part # Routers
  OBVIOUS
<1>2. QED BY <1>1 DEF Connects

\* The first hop is closer to the destination than the router itself, as each
\* measures it: over r's tree, whose way home starts with the link to the hop,
\* and over the hop's own tree, which has no way that is longer than another.
LEMMA HopIsCloser ==
  ASSUME Connects(RouterLinks), NEW r \in Routers, NEW home \in Routers \ {r},
         NEW mine \in ShortestPathTrees(r, Routers),
         NEW h, h = findInitialHop(r, mine)[home],
         NEW its \in ShortestPathTrees(h, Routers)
  PROVE  Costs(Routers, h, its)[home] < Costs(Routers, r, mine)[home]
<1> DEFINE hop == findInitialHop(r, mine)
           far == Costs(Routers, r, mine)
           near == Costs(Routers, h, its)
<1>1. reached(r, Routers) = Routers
  BY AllReached
<1>0. Spans(Routers, r, mine)
  BY <1>1, TreeFacts
<1>2. /\ mine \in [Routers \ {r} -> Routers] /\ IsTree(Routers, r, mine)
      /\ \A q \in Routers \ {r} : Linked(q, mine[q])
  BY <1>0 DEF Spans
<1>3. /\ DOMAIN hop = Routers \ {r} /\ h \in Routers \ {r}
      /\ \A q \in Routers \ {r} : hop[q] = IF mine[q] = r THEN q ELSE hop[mine[q]]
  <2>1. /\ DOMAIN hop = DOMAIN mine
        /\ \A q \in DOMAIN mine : hop[q] = IF mine[q] = r THEN q ELSE hop[mine[q]]
    <3>1. DOMAIN mine = Routers \ {r} /\ \A q \in DOMAIN mine : mine[q] = r \/ mine[q] \in DOMAIN mine
      BY <1>2
    <3>2. QED BY <3>1, HopExists
  <2>2. \A q \in DOMAIN hop : hop[q] \in DOMAIN hop
    BY HopType
  <2>3. QED BY <1>2, <2>1, <2>2
<1>4. /\ far \in [Routers -> Nat] /\ far[r] = 0
      /\ \A q \in Routers \ {r} : far[q] = far[mine[q]] + linkCost(q, mine[q])
  BY <1>0, RoutersAssumption, CostsExist
<1>5. reached(h, Routers) = Routers
  BY <1>3, AllReached
<1>6. /\ Spans(Routers, h, its)
      /\ \A q, o \in Routers : Linked(q, o) => near[q] <= near[o] + linkCost(q, o)
  BY <1>5, TreeFacts
<1>7. near \in [Routers -> Nat] /\ near[h] = 0
  BY <1>3, <1>6, RoutersAssumption, CostsExist
<1> HIDE DEF hop, far, near
<1> DEFINE bad == {q \in Routers \ {r} : hop[q] = h /\ ~(near[q] < far[q])}
<1>8. bad = {}
  <2> SUFFICES ASSUME bad # {} PROVE FALSE
    OBVIOUS
  <2>1. PICK q \in bad : mine[q] \notin bad
    BY <1>2 DEF IsTree
  <2>2. /\ q \in Routers \ {r} /\ mine[q] \in Routers /\ Linked(q, mine[q])
        /\ linkCost(q, mine[q]) \in Nat \ {0}
        /\ far[q] = far[mine[q]] + linkCost(q, mine[q])
    BY <1>2, <1>4, <2>1, LinkCostFacts
  <2>3. CASE mine[q] = r
    <3>1. q = h
      BY <1>3, <2>1, <2>2, <2>3
    <3>2. QED BY <1>4, <1>7, <2>1, <2>2, <2>3, <3>1
  <2>4. CASE mine[q] # r
    <3>1. hop[mine[q]] = h
      BY <1>3, <2>1, <2>2, <2>4
    <3>2. near[mine[q]] < far[mine[q]]
      BY <2>1, <2>2, <2>4, <3>1
    <3>3. near[q] <= near[mine[q]] + linkCost(q, mine[q])
      BY <1>6, <2>2
    <3>4. near[q] \in Nat /\ near[mine[q]] \in Nat /\ far[mine[q]] \in Nat
      BY <1>4, <1>7, <2>2
    <3>5. near[q] < far[q]
      BY <2>2, <3>2, <3>3, <3>4
    <3>6. QED BY <2>1, <3>5
  <2>5. QED BY <2>3, <2>4
<1>9. hop[home] = h
  BY DEF hop
<1>10. near[home] < far[home]
  BY <1>8, <1>9
<1>11. QED BY <1>10 DEF near, far

\* A packet that each router sends to one which is closer to the home is there
\* after as many steps as there are routers: at each there are fewer that are closer.
Trip(from, step, n) == CHOOSE at : at = [k \in 0 .. n |-> IF k = 0 THEN from ELSE step[at[k - 1]]]
Visits(at, S, from, step, n) ==
  at \in [0 .. n -> S] /\ at[0] = from /\ \A k \in 1 .. n : at[k] = step[at[k - 1]]

LEMMA TripExists ==
  ASSUME NEW S, NEW step \in [S -> S], NEW from \in S, NEW n \in Nat
  PROVE  Visits(Trip(from, step, n), S, from, step, n)
<1> DEFINE walks(at, m) == /\ at \in [0 .. m -> S] /\ at[0] = from
                           /\ \A k \in 1 .. m : at[k] = step[at[k - 1]]
           bad == {m \in Nat : ~\E at : walks(at, m)}
<1>1. bad = {}
  <2> SUFFICES ASSUME bad # {} PROVE FALSE
    OBVIOUS
  <2>1. PICK m \in bad : \A k \in bad : m <= k
    BY LeastNatural
  <2>2. m # 0
    <3>1. [k \in 0 .. 0 |-> from] \in [0 .. 0 -> S] /\ 0 \in 0 .. 0 /\ 1 .. 0 = {}
      OBVIOUS
    <3>2. walks([k \in 0 .. 0 |-> from], 0)
      BY <3>1
    <3>3. QED BY <3>2
  <2>3. m - 1 \in Nat /\ m - 1 \notin bad
    BY <2>1, <2>2
  <2>4. PICK at : walks(at, m - 1)
    BY <2>3
  <2> DEFINE longer == [k \in 0 .. m |-> IF k = m THEN step[at[m - 1]] ELSE at[k]]
  <2>5. \A k \in 0 .. m : k = m \/ k \in 0 .. m - 1
    BY <2>1
  <2>6. m - 1 \in 0 .. m - 1 /\ at[m - 1] \in S
    BY <2>3, <2>4
  <2>7. longer \in [0 .. m -> S]
    BY <2>4, <2>5, <2>6
  <2>8. longer[0] = from
    BY <2>1, <2>2, <2>4
  <2>9. ASSUME NEW k \in 1 .. m PROVE longer[k] = step[longer[k - 1]]
    <3>1. k \in 0 .. m /\ k - 1 \in 0 .. m /\ k - 1 # m
      BY <2>1
    <3>2. longer[k - 1] = at[k - 1]
      BY <3>1
    <3>3. CASE k = m
      BY <3>1, <3>2, <3>3
    <3>4. CASE k # m
      <4>1. k \in 1 .. m - 1
        BY <2>1, <3>4
      <4>2. longer[k] = at[k] /\ at[k] = step[at[k - 1]]
        BY <2>4, <3>1, <3>4, <4>1
      <4>3. QED BY <3>2, <4>2
    <3>5. QED BY <3>3, <3>4
  <2> HIDE DEF longer
  <2>10. walks(longer, m)
    BY <2>7, <2>8, <2>9
  <2>11. QED BY <2>1, <2>10
<1>2. PICK at : walks(at, n)
  BY <1>1
<1> DEFINE is(a) == a = [k \in 0 .. n |-> IF k = 0 THEN from ELSE step[a[k - 1]]]
           trip == Trip(from, step, n)
<1>3. is(at)
  <2>1. \A k \in 0 .. n : k = 0 \/ k \in 1 .. n
    OBVIOUS
  <2>2. \A k \in 0 .. n : at[k] = IF k = 0 THEN from ELSE step[at[k - 1]]
    BY <1>2, <2>1
  <2>3. QED BY <1>2, <2>2
<1>4. is(trip)
  <2> HIDE DEF is
  <2>1. trip = CHOOSE a : is(a)
    BY DEF Trip, is
  <2>2. QED BY <1>3, <2>1
<1> HIDE DEF trip
<1>5. /\ DOMAIN trip = 0 .. n /\ trip[0] = from
      /\ \A k \in 1 .. n : trip[k] = step[trip[k - 1]]
  <2>1. 0 \in 0 .. n /\ \A k \in 1 .. n : k \in 0 .. n /\ k # 0
    OBVIOUS
  <2>2. QED BY <1>4, <2>1
<1> DEFINE out == {k \in 0 .. n : trip[k] \notin S}
<1>6. out = {}
  <2> SUFFICES ASSUME out # {} PROVE FALSE
    OBVIOUS
  <2>1. PICK k \in out : \A j \in out : k <= j
    <3>1. out \in SUBSET Nat
      OBVIOUS
    <3>2. QED BY <3>1, LeastNatural
  <2>2. k \in 1 .. n /\ k - 1 \in 0 .. n /\ ~(k <= k - 1)
    BY <1>5, <2>1
  <2>3. trip[k - 1] \in S
    BY <2>1, <2>2
  <2>4. QED BY <1>5, <2>1, <2>2, <2>3
<1>7. trip \in [0 .. n -> S]
  <2>1. trip = [k \in 0 .. n |-> trip[k]]
    BY <1>4
  <2>2. QED BY <1>6, <2>1
<1>8. QED BY <1>5, <1>7 DEF trip, Visits

LEMMA TripEnds ==
  ASSUME NEW S, IsFiniteSet(S), NEW step \in [S -> S], NEW from \in S, NEW home \in S,
         NEW far \in [S -> Nat], step[home] = home,
         \A q \in S \ {home} : far[step[q]] < far[q]
  PROVE  Trip(from, step, Cardinality(S))[Cardinality(S)] = home
<1> DEFINE n == Cardinality(S)
           at == Trip(from, step, n)
           closer(q) == {p \in S : far[p] < far[q]}
           c(q) == Cardinality(closer(q))
           bad == {k \in 0 .. n : at[k] # home /\ ~(c(at[k]) + k + 1 <= n)}
<1>1. n \in Nat
  BY Counting
<1> HIDE DEF n
<1>2. /\ at \in [0 .. n -> S] /\ at[0] = from
      /\ \A k \in 1 .. n : at[k] = step[at[k - 1]]
  <2>1. Visits(at, S, from, step, n)
    BY <1>1, TripExists
  <2>2. QED BY <2>1 DEF Visits
<1>3. \A q \in S : IsFiniteSet(closer(q)) /\ c(q) \in Nat /\ c(q) + 1 <= n
  <2> SUFFICES ASSUME NEW q \in S PROVE IsFiniteSet(closer(q)) /\ c(q) \in Nat /\ c(q) + 1 <= n
    OBVIOUS
  <2>1. closer(q) \in SUBSET S /\ q \in S \ closer(q)
    OBVIOUS
  <2> HIDE DEF closer
  <2>2. QED BY <2>1, Counting, FiniteParts DEF n
<1>4. ASSUME NEW q \in S \ {home} PROVE c(step[q]) + 1 <= c(q)
  <2>1. step[q] \in S /\ far[step[q]] < far[q]
    OBVIOUS
  <2>2. closer(step[q]) \in SUBSET closer(q) /\ step[q] \in closer(q) \ closer(step[q])
    BY <2>1
  <2>3. IsFiniteSet(closer(q))
    BY <1>3
  <2> HIDE DEF closer
  <2>4. QED BY <2>2, <2>3, Counting
<1> HIDE DEF at, c, closer
<1>5. bad = {}
  <2> SUFFICES ASSUME bad # {} PROVE FALSE
    OBVIOUS
  <2>1. PICK k \in bad : \A j \in bad : k <= j
    <3>1. bad \in SUBSET Nat
      BY <1>1
    <3> HIDE DEF bad
    <3>2. QED BY <3>1, LeastNatural
  <2>2. CASE k = 0
    BY <1>1, <1>2, <1>3, <2>1, <2>2
  <2>3. CASE k # 0
    <3>1. k \in 1 .. n /\ k - 1 \in 0 .. n /\ ~(k <= k - 1)
      BY <1>1, <2>1, <2>3
    <3>2. at[k - 1] \in S /\ at[k] = step[at[k - 1]] /\ k - 1 \notin bad
      BY <1>2, <2>1, <3>1
    <3>3. at[k - 1] # home /\ c(at[k - 1]) + (k - 1) + 1 <= n
      BY <2>1, <3>1, <3>2
    <3>4. c(at[k]) + 1 <= c(at[k - 1])
      BY <1>4, <3>2, <3>3
    <3>5. at[k] \in S /\ c(at[k]) \in Nat /\ c(at[k - 1]) \in Nat
      BY <1>3, <3>2
    <3>6. c(at[k]) + k + 1 <= n
      BY <1>1, <3>1, <3>3, <3>4, <3>5
    <3>7. QED BY <2>1, <3>6
  <2>4. QED BY <2>2, <2>3
<1>6. n \in 0 .. n /\ at[n] \in S
  BY <1>1, <1>2
<1>7. c(at[n]) \in Nat
  BY <1>3, <1>6
<1>8. at[n] = home
  BY <1>1, <1>5, <1>6, <1>7
<1>9. QED BY <1>8 DEF n, at

-----------------------------------------------------------------------------
(***************************************************************************)
(* What a router's table has to do with its database: it is the table of a *)
(* tree over all routers that the database knows.                          *)
(***************************************************************************)
Known(r) == {q \in Routers : topologyDatabase[r][q] # Absent}
Between(l, r, q) == l \in Links /\ Ends[l] = {r, q}
\* The only router of l's network.
Home(l, q) == Ends[l] \cap Routers = {q}

\* A neighbour's link leads to it.
NeighborsFound == \A r, q \in Routers : neighbors[r][q] # NoLink => Between(neighbors[r][q], r, q)
\* A router has its entry for each network that is its own only,
HomesKept ==
  \A r \in Routers, l \in Links :
    Home(l, r) => routingTable[r][l] = [nexthop |-> Direct, link |-> l]
\* and for another's an entry that leads to the first hop.
LeadsTo(table, r, hop) ==
  \A l \in Links : \A q \in DOMAIN hop : Home(l, q) => Between(table[l].link, r, hop[q])
FromTree(r) ==
  \E previous \in ShortestPathTrees(r, Known(r)) :
    LeadsTo(routingTable[r], r, findInitialHop(r, previous))
\* Nothing is in the database before it is initialized; later it has the last tree's table.
TablesMade ==
  \A r \in Routers : IF isTopologyInitialized[r] THEN FromTree(r) ELSE Known(r) = {}
RoutesInv == NeighborsFound /\ (~panicked => HomesKept /\ TablesMade)

LEMMA RoutesStart == Init => RoutesInv
<1> SUFFICES ASSUME Init PROVE RoutesInv
  OBVIOUS
<1>1. NeighborsFound
  BY DEF Init, NeighborsFound
<1>2. HomesKept
  BY DEF Init, HomesKept, Home
<1>3. TablesMade
  BY DEF Init, TablesMade, Known
<1>4. QED BY <1>1, <1>2, <1>3 DEF RoutesInv

\* What a new table says of the networks of one router, in every order of the map.
LEMMA TableFromTree ==
  ASSUME NeighborsFound, NEW r \in Routers, NEW known \in SUBSET Routers,
         NEW previous \in ShortestPathTrees(r, known),
         NEW hop, hop = findInitialHop(r, previous),
         \A q \in DOMAIN hop : neighbors[r][hop[q]] # NoLink,
         NEW order \in Bijection(DOMAIN hop, 1 .. Cardinality(DOMAIN hop)),
         NEW table, table = newRoutingTable(r, hop, order)
  PROVE  /\ LeadsTo(table, r, hop)
         /\ \A l \in Links : Home(l, r) => table[l] = [nexthop |-> Direct, link |-> l]
<1>1. /\ DOMAIN hop \subseteq Routers \ {r} /\ IsFiniteSet(DOMAIN hop)
      /\ \A q \in DOMAIN hop : hop[q] \in DOMAIN hop
  BY HopType
<1> DEFINE last(l) == CHOOSE q \in Ends[l] \cap DOMAIN hop :
                        \A p \in Ends[l] \cap DOMAIN hop : order[p] <= order[q]
<1>2. ASSUME NEW l \in Links
      PROVE  table[l] = IF Ends[l] \cap DOMAIN hop # {}
                        THEN [nexthop |-> IF r \in Ends[l] THEN Direct ELSE hop[last(l)],
                              link |-> neighbors[r][hop[last(l)]]]
                        ELSE IF r \in Ends[l] THEN [nexthop |-> Direct, link |-> l] ELSE NoRoute
  BY DEF newRoutingTable
<1> HIDE DEF last
<1>3. ASSUME NEW l \in Links, NEW q \in DOMAIN hop, Home(l, q)
      PROVE  Between(table[l].link, r, hop[q])
  <2>1. Ends[l] \cap DOMAIN hop = {q}
    BY <1>1, <1>3 DEF Home
  <2>2. last(l) = q
    <3>1. last(l) \in Ends[l] \cap DOMAIN hop
      BY <1>1, <2>1, LastRouter DEF last
    <3>2. QED BY <2>1, <3>1
  <2>3. table[l].link = neighbors[r][hop[q]]
    <3>1. Ends[l] \cap DOMAIN hop # {}
      BY <2>1
    <3>2. table[l] = [nexthop |-> IF r \in Ends[l] THEN Direct ELSE hop[last(l)],
                      link |-> neighbors[r][hop[last(l)]]]
      BY <1>2, <3>1, Zenon
    <3>3. table[l].link = neighbors[r][hop[last(l)]]
      BY <3>2
    <3>4. QED BY <2>2, <3>3
  <2>4. hop[q] \in Routers /\ neighbors[r][hop[q]] # NoLink
    BY <1>1
  <2>5. QED BY <2>3, <2>4 DEF NeighborsFound
<1>4. ASSUME NEW l \in Links, Home(l, r)
      PROVE  table[l] = [nexthop |-> Direct, link |-> l]
  <2>1. Ends[l] \cap DOMAIN hop = {} /\ r \in Ends[l]
    BY <1>1, <1>4 DEF Home
  <2>2. QED BY <1>2, <2>1
<1>5. QED BY <1>3, <1>4 DEF LeadsTo

\* Recomputing r's table makes it one that leads over the new tree.
LEMMA UpdateMakes ==
  ASSUME Tables, NeighborsFound, HomesKept, NEW r \in Routers, NEW known \in SUBSET Routers,
         updateRoutingTableWithDijkstra(r, known), ~panicked'
  PROVE  /\ \A q \in Routers \ {r} : routingTable'[q] = routingTable[q]
         /\ HomesKept'
         /\ \E previous \in ShortestPathTrees(r, known) :
              LeadsTo(routingTable'[r], r, findInitialHop(r, previous))
<1>1. PICK previous \in calculateShortestPaths[r][known] :
        LET hop == findInitialHop(r, previous)
        IN  /\ \A q \in DOMAIN hop : neighbors[r][hop[q]] # NoLink
            /\ \E order \in Bijection(DOMAIN hop, 1 .. Cardinality(DOMAIN hop)) :
                 routingTable' = [routingTable EXCEPT ![r] = newRoutingTable(r, hop, order)]
  BY DEF updateRoutingTableWithDijkstra
<1> DEFINE hop == findInitialHop(r, previous)
<1>2. PICK order \in Bijection(DOMAIN hop, 1 .. Cardinality(DOMAIN hop)) :
        routingTable' = [routingTable EXCEPT ![r] = newRoutingTable(r, hop, order)]
  BY <1>1
<1>3. previous \in ShortestPathTrees(r, known) /\ \A q \in DOMAIN hop : neighbors[r][hop[q]] # NoLink
  BY <1>1 DEF calculateShortestPaths
<1> DEFINE table == newRoutingTable(r, hop, order)
<1>4. /\ LeadsTo(table, r, hop)
      /\ \A l \in Links : Home(l, r) => table[l] = [nexthop |-> Direct, link |-> l]
  <2> HIDE DEF hop, table
  <2>1. hop = findInitialHop(r, previous) /\ table = newRoutingTable(r, hop, order)
    BY DEF hop, table
  <2>2. QED BY <1>3, <2>1, TableFromTree
<1>5. routingTable'[r] = table /\ \A q \in Routers \ {r} : routingTable'[q] = routingTable[q]
  BY <1>2 DEF Tables
<1>6. HomesKept'
  <2> HIDE DEF table
  <2>1. QED BY <1>4, <1>5 DEF HomesKept, Home
<1>7. QED BY <1>3, <1>4, <1>5, <1>6

LEMMA RoutesStep == ASSUME IInv, Tables, RoutesInv, [Next]_vars PROVE RoutesInv'
<1>1. CASE UNCHANGED vars
  BY <1>1 DEF vars, RoutesInv, NeighborsFound, HomesKept, TablesMade, FromTree, Known
<1>2. ASSUME NEW r \in Routers, sendHelloPacket(r) \/ sendLsaPacket(r) PROVE RoutesInv'
  BY <1>2 DEF sendHelloPacket, sendLsaPacket, RoutesInv, NeighborsFound, HomesKept, TablesMade,
              FromTree, Known
<1>3. ASSUME NEW m \in BagToSet(wire), receiveHelloPacket(m) PROVE RoutesInv'
  <2> DEFINE s == Peer(m.link, m.from)
  <2>1. m \in Hello
    BY <1>3 DEF receiveHelloPacket, IInv, FloodTypes, Lsa
  <2>2. m.link \in RouterLinks /\ m.from \in Routers /\ m.from \in Ends[m.link]
    BY <2>1 DEF Hello, IInv, Structure
  <2>3. m.link \in Links /\ s \in Routers /\ Ends[m.link] = {s, m.from}
    BY <2>2, RouterLinkFacts
  <2> HIDE DEF s
  <2>4. neighbors' = [neighbors EXCEPT ![s][m.from] = m.link]
    BY <1>3 DEF receiveHelloPacket, s
  <2>5. NeighborsFound'
    <3> SUFFICES ASSUME NEW r \in Routers, NEW q \in Routers, neighbors'[r][q] # NoLink
                 PROVE  Between(neighbors'[r][q], r, q)
      BY DEF NeighborsFound, Between
    <3>1. CASE r = s /\ q = m.from
      BY <2>2, <2>3, <2>4, <3>1 DEF Tables, Between
    <3>2. CASE ~(r = s /\ q = m.from)
      <4>1. neighbors'[r][q] = neighbors[r][q]
        BY <2>3, <2>4, <3>2 DEF Tables
      <4>2. QED BY <4>1 DEF RoutesInv, NeighborsFound
    <3>3. QED BY <3>1, <3>2
  <2>6. QED BY <1>3, <2>5 DEF receiveHelloPacket, RoutesInv, HomesKept, TablesMade, FromTree, Known
<1>4. ASSUME NEW m \in BagToSet(wire), receiveLsaPacket(m) PROVE RoutesInv'
  <2> DEFINE s == Peer(m.link, m.from)
             accepted == Newer(m.seq, initialized(s)[m.origin])
             database == IF accepted THEN [initialized(s) EXCEPT ![m.origin] = m.seq] ELSE initialized(s)
             known == {q \in Routers : database[q] # Absent}
  <2>1. /\ s \in Routers /\ m.origin \in Routers /\ m.origin # s /\ m.seq \in Nat \ {0}
        /\ isTopologyInitialized' = [isTopologyInitialized EXCEPT ![s] = TRUE]
        /\ \A r \in Routers \ {s} : topologyDatabase'[r] = topologyDatabase[r]
        /\ FloodTypes'
    BY <1>4, ReceiveEffect
  <2>2. /\ topologyDatabase' = [topologyDatabase EXCEPT ![s] = database]
        /\ UNCHANGED neighbors /\ ~panicked
        /\ IF accepted THEN updateRoutingTableWithDijkstra(s, known)
           ELSE UNCHANGED <<routingTable, panicked>>
    BY <1>4 DEF receiveLsaPacket
  <2> HIDE DEF s, accepted
  <2>3. topologyDatabase'[s] = database /\ known = Known(s)'
    <3>1. topologyDatabase'[s] = database
      BY <2>1, <2>2 DEF IInv, FloodTypes
    <3>2. QED BY <3>1 DEF Known
  <2>4. NeighborsFound'
    BY <2>2 DEF RoutesInv, NeighborsFound
  <2>5. ASSUME NEW r \in Routers \ {s}, routingTable'[r] = routingTable[r]
        PROVE  IF isTopologyInitialized'[r] THEN FromTree(r)' ELSE Known(r)' = {}
    <3>1. /\ topologyDatabase'[r] = topologyDatabase[r]
          /\ isTopologyInitialized'[r] = isTopologyInitialized[r]
      BY <2>1 DEF IInv, FloodTypes
    <3>2. Known(r)' = Known(r)
      BY <3>1 DEF Known
    <3>3. QED BY <2>2, <2>5, <3>1, <3>2 DEF RoutesInv, TablesMade, FromTree
  <2>6. isTopologyInitialized'[s] = TRUE
    BY <2>1 DEF IInv, FloodTypes
  <2>7. CASE accepted
    <3> SUFFICES ASSUME ~panicked' PROVE HomesKept' /\ TablesMade'
      BY <2>4 DEF RoutesInv
    <3>1. known \in SUBSET Routers
      OBVIOUS
    <3> HIDE DEF known
    <3>2. /\ \A q \in Routers \ {s} : routingTable'[q] = routingTable[q]
          /\ HomesKept'
          /\ \E previous \in ShortestPathTrees(s, known) :
               LeadsTo(routingTable'[s], s, findInitialHop(s, previous))
      BY <2>1, <2>2, <2>7, <3>1, UpdateMakes DEF RoutesInv
    <3>3. FromTree(s)'
      BY <2>3, <3>2 DEF FromTree
    <3>4. QED BY <2>5, <2>6, <3>2, <3>3 DEF TablesMade
  <2>8. CASE ~accepted
    <3>1. UNCHANGED <<routingTable, panicked>> /\ database = initialized(s)
      BY <2>2, <2>8
    \* The first LSA is always news.
    <3>2. isTopologyInitialized[s]
      <4> SUFFICES ASSUME ~isTopologyInitialized[s] PROVE FALSE
        OBVIOUS
      <4>1. Known(s) = {}
        BY <2>1, <2>2 DEF RoutesInv, TablesMade
      <4>2. topologyDatabase[s][m.origin] = Absent
        BY <2>1, <4>1 DEF Known
      <4>3. initialized(s)[m.origin] = Absent
        BY <2>1, <4>2 DEF initialized, IInv, FloodTypes
      <4>4. accepted
        BY <2>1, <4>3 DEF accepted, Newer
      <4>5. QED BY <2>8, <4>4
    <3>3. topologyDatabase'[s] = topologyDatabase[s]
      BY <2>3, <3>1, <3>2 DEF initialized
    <3>4. Known(s)' = Known(s)
      BY <3>3 DEF Known
    <3>5. FromTree(s)'
      BY <2>1, <2>2, <3>1, <3>2, <3>4 DEF RoutesInv, TablesMade, FromTree
    <3>6. HomesKept' /\ TablesMade'
      BY <2>2, <2>5, <2>6, <3>1, <3>5 DEF RoutesInv, HomesKept, TablesMade
    <3>7. QED BY <2>4, <3>6 DEF RoutesInv
  <2>9. QED BY <2>7, <2>8
<1>5. QED BY <1>1, <1>2, <1>3, <1>4 DEF Next

LEMMA RoutesImplied == ASSUME IInv, RoutesInv PROVE RoutesArriveAtRest
<1> SUFFICES ASSUME NoLsaInFlight, Connects(RouterLinks),
                    \A o \in Routers : lsaSequenceNumber[o] > 0,
                    NEW l \in Links \ RouterLinks, NEW home \in Ends[l] \cap Routers, NEW r0 \in Routers
             PROVE  /\ \A q \in Routers : routingTable[q][l] # NoRoute
                    /\ Trip(r0, Forward(l), Cardinality(Routers))[Cardinality(Routers)] = home
  BY DEF RoutesArriveAtRest, Trip
<1>1. HomesKept /\ TablesMade
  BY DEF RoutesInv, NoLsaInFlight
<1>2. Home(l, home)
  <2>1. Ends[l] = {home, Peer(l, home)} /\ ~(Ends[l] \subseteq Routers)
    BY PeerFacts DEF RouterLinks
  <2>2. QED BY <2>1 DEF Home
<1> DEFINE tree(r) == CHOOSE previous \in ShortestPathTrees(r, Routers) :
                        LeadsTo(routingTable[r], r, findInitialHop(r, previous))
           costs(r) == Costs(Routers, r, tree(r))
           hop(r) == findInitialHop(r, tree(r))[home]
\* Every router knows all routers and has a table of one of its trees.
<1>3. ASSUME NEW r \in Routers, NEW other \in Routers \ {r}
      PROVE  /\ tree(r) \in ShortestPathTrees(r, Routers)
             /\ LeadsTo(routingTable[r], r, findInitialHop(r, tree(r)))
  <2>1. isTopologyInitialized[r]
    <3>1. topologyDatabase[r][other] = lsaSequenceNumber[other] /\ lsaSequenceNumber[other] > 0
      BY SameTopologyImplied DEF SameTopologyAtRest
    <3>2. lsaSequenceNumber[other] \in Nat
      BY DEF IInv, FloodTypes
    <3>3. other \in Known(r)
      BY <3>1, <3>2 DEF Known, Absent
    <3>4. QED BY <1>1, <3>3 DEF TablesMade
  <2>2. Known(r) = Routers
    <3> SUFFICES ASSUME NEW o \in Routers PROVE topologyDatabase[r][o] # Absent
      BY DEF Known
    <3>1. CASE o = r
      BY <2>1, <3>1 DEF IInv, OwnEntryUntouched, Absent
    <3>2. CASE o # r
      <4>1. topologyDatabase[r][o] = lsaSequenceNumber[o] /\ lsaSequenceNumber[o] > 0
        BY <3>2, SameTopologyImplied DEF SameTopologyAtRest
      <4>2. lsaSequenceNumber[o] \in Nat
        BY DEF IInv, FloodTypes
      <4>3. QED BY <4>1, <4>2 DEF Absent
    <3>3. QED BY <3>1, <3>2
  <2>3. FromTree(r)
    BY <1>1, <2>1 DEF TablesMade
  <2>4. QED BY <2>2, <2>3 DEF FromTree
<1> HIDE DEF tree
<1>4. \A r \in Routers : reached(r, Routers) = Routers
  BY AllReached
<1>5. ASSUME NEW r \in Routers, NEW other \in Routers \ {r} PROVE costs(r) \in [Routers -> Nat]
  <2>1. Spans(Routers, r, tree(r))
    BY <1>3, <1>4, TreeFacts
  <2>2. QED BY <2>1, RoutersAssumption, CostsExist
\* A router sends to its first hop, which is closer; the home keeps what it gets.
<1>6. ASSUME NEW r \in Routers \ {home}
      PROVE  /\ Forward(l)[r] = hop(r) /\ hop(r) \in Routers /\ routingTable[r][l] # NoRoute
             /\ costs(hop(r))[home] < costs(r)[home]
  <2>1. /\ tree(r) \in ShortestPathTrees(r, Routers)
        /\ LeadsTo(routingTable[r], r, findInitialHop(r, tree(r)))
    BY <1>3
  <2>2. /\ DOMAIN findInitialHop(r, tree(r)) = Routers \ {r}
        /\ hop(r) \in Routers \ {r}
    <3>1. tree(r) \in [Routers \ {r} -> Routers]
      BY <1>4, <2>1, TreeFacts DEF Spans
    <3>2. DOMAIN tree(r) = Routers \ {r}
          /\ \A q \in DOMAIN tree(r) : tree(r)[q] = r \/ tree(r)[q] \in DOMAIN tree(r)
      BY <3>1
    <3>3. DOMAIN findInitialHop(r, tree(r)) = Routers \ {r}
      BY <3>2, HopExists
    <3>4. \A q \in DOMAIN findInitialHop(r, tree(r)) :
            findInitialHop(r, tree(r))[q] \in DOMAIN findInitialHop(r, tree(r))
      BY <2>1, HopType
    <3>5. QED BY <3>3, <3>4
  <2>3. Between(routingTable[r][l].link, r, hop(r))
    BY <1>2, <2>1, <2>2 DEF LeadsTo
  <2>4. Peer(routingTable[r][l].link, r) = hop(r) /\ routingTable[r][l] # NoRoute
    <3> DEFINE k == routingTable[r][l].link
    <3>1. k \in Links /\ Ends[k] = {r, hop(r)} /\ hop(r) # r
      BY <2>2, <2>3 DEF Between
    <3> HIDE DEF k, hop
    <3>2. Peer(k, r) \in {r, hop(r)} /\ Peer(k, r) # r
      BY <3>1, PeerFacts
    <3>3. routingTable[r][l] # NoRoute
      BY <3>1, NilAssumption DEF NoRoute, k
    <3>4. QED BY <3>2, <3>3 DEF k
  <2>5. Forward(l)[r] = hop(r)
    <3>1. r \notin Ends[l]
      BY <1>2 DEF Home
    <3>2. QED BY <2>4, <3>1 DEF Forward
  <2>6. tree(hop(r)) \in ShortestPathTrees(hop(r), Routers)
    <3>1. hop(r) \in Routers /\ r \in Routers \ {hop(r)}
      BY <2>2
    <3> HIDE DEF hop
    <3>2. QED BY <1>3, <3>1
  <2>7. costs(hop(r))[home] < costs(r)[home]
    <3>1. home \in Routers \ {r}
      OBVIOUS
    <3> HIDE DEF hop
    <3>2. hop(r) = findInitialHop(r, tree(r))[home]
      BY DEF hop
    <3>3. QED BY <2>1, <2>6, <3>1, <3>2, HopIsCloser
  <2>8. QED BY <2>2, <2>4, <2>5, <2>7
<1>7. Forward(l)[home] = home /\ routingTable[home][l] # NoRoute
  <2>1. routingTable[home][l] = [nexthop |-> Direct, link |-> l]
    BY <1>1, <1>2 DEF HomesKept
  <2>2. QED BY <2>1, NilAssumption DEF Forward, NoRoute
<1> HIDE DEF hop, costs
<1> DEFINE far == [r \in Routers |-> IF Routers = {r} THEN 0 ELSE costs(r)[home]]
<1>8. far \in [Routers -> Nat]
  <2>1. ASSUME NEW r \in Routers PROVE far[r] \in Nat
    <3>1. CASE Routers = {r}
      BY <3>1
    <3>2. CASE Routers # {r}
      <4>1. PICK other \in Routers \ {r} : TRUE
        BY <3>2
      <4>2. costs(r) \in [Routers -> Nat]
        BY <1>5, <4>1
      <4>3. QED BY <3>2, <4>2
    <3>3. QED BY <3>1, <3>2
  <2>2. QED BY <2>1
<1>9. Forward(l) \in [Routers -> Routers]
  <2>1. \A r \in Routers : Forward(l)[r] \in Routers
    BY <1>6, <1>7
  <2>2. Forward(l) = [r \in Routers |-> Forward(l)[r]]
    BY DEF Forward
  <2>3. QED BY <2>1, <2>2
<1>10. \A q \in Routers \ {home} : far[Forward(l)[q]] < far[q]
  <2> SUFFICES ASSUME NEW q \in Routers \ {home} PROVE far[Forward(l)[q]] < far[q]
    OBVIOUS
  <2>1. \A r \in Routers : Routers # {r}
    OBVIOUS
  <2>2. Forward(l)[q] = hop(q) /\ hop(q) \in Routers /\ costs(hop(q))[home] < costs(q)[home]
    BY <1>6
  <2>3. far[hop(q)] = costs(hop(q))[home] /\ far[q] = costs(q)[home]
    BY <2>1, <2>2
  <2>4. QED BY <2>2, <2>3
<1> HIDE DEF far
<1>11. home \in Routers
  OBVIOUS
<1>12. Trip(r0, Forward(l), Cardinality(Routers))[Cardinality(Routers)] = home
  <2> DEFINE step == Forward(l)
  <2>1. /\ step \in [Routers -> Routers] /\ step[home] = home
        /\ \A q \in Routers \ {home} : far[step[q]] < far[q]
    BY <1>7, <1>9, <1>10
  <2> HIDE DEF step
  <2>2. Trip(r0, step, Cardinality(Routers))[Cardinality(Routers)] = home
    BY <1>8, <1>11, <2>1, RoutersAssumption, TripEnds
  <2>3. QED BY <2>2, RoutersAssumption DEF step
<1>13. QED BY <1>6, <1>7, <1>12

\* In any connected network of routers, with any costs: when all routers are
\* known and no LSA is in flight, a packet for a network with one router arrives
\* there over the tables, whatever trees and orders they were made with
\* (handleLsaP.go:202-300; arp_with_router_test.go:14).
THEOREM RoutesArrive == Spec => []RoutesArriveAtRest
<1>1. Init => RoutesInv /\ Tables
  BY RoutesStart, TablesStart
<1>2. Tables /\ IInv /\ [Next]_vars => Tables'
  BY TablesStep
<1>3. RoutesInv /\ Tables /\ IInv /\ [Next]_vars => RoutesInv'
  BY RoutesStep
<1>4. IInv /\ RoutesInv => RoutesArriveAtRest
  BY RoutesImplied
<1>5. QED BY <1>1, <1>2, <1>3, <1>4, Invariant, PTL DEF Spec
=============================================================================
