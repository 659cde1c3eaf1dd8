--------------------------- MODULE ForwardingProof ---------------------------
(***************************************************************************)
(* Theorems about Forwarding.  For any network, traffic and losses: the    *)
(* state is well formed, what NAT has written into a header is backed by a *)
(* natTable, and data of which nothing came twice is assembled exactly if  *)
(* it is all there.  For networks of certain shapes (Divided, LoopFree,    *)
(* Uncopied): NAT hides the inside, switches agree, nothing comes twice,   *)
(* and the network implements Internet.  Where addresses fit the segments  *)
(* too (Addressed, OnlyAnswers): ARP tables lead on, and headers are those *)
(* of the segment they cross.                                              *)
(***************************************************************************)
EXTENDS Forwarding, CommonFacts, TLAPS

\* What natTable records is inside, so an outside address is never mapped again.
OnlyInsideIsMapped == \A r \in Routers : \A a \in natTable[r] : isInternalIp(a)
ListsAreFinite == \A r \in Routers : \A a \in Ips : IsFiniteSet(waitingForArpReply[r][a])

IInv == TypeOK /\ OnlyInsideIsMapped /\ ListsAreFinite /\ TranslationsAreRecorded

\* The parts of IInv that a step of a node may disturb, for given values.
Standing(N, outside, inside) ==
  \E r \in Routers : natEnabled(r) /\ outside = externalIP[r] /\ inside \in N[r]
Backed(N, p, g) ==
  /\ g.sourceIp = ip[<<p.data.source>>] \/ Standing(N, g.sourceIp, ip[<<p.data.source>>])
  /\ g.destIp = p.data.destIp \/ Standing(N, p.data.destIp, g.destIp)
GoodHeader(g) == g \in Header /\ g.ttl <= InitialTTL
GoodFrame(f, H) == f.on \in Links /\ f.from \in f.on /\ f.packet \in H \cup ArpPacket

-----------------------------------------------------------------------------
\* Addresses of interfaces, MAC addresses and ARP packets.
LEMMA Interfaces ==
  /\ \A i \in DOMAIN ip : ip[i] \in Ips
  /\ \A i \in DOMAIN ip \cup {<<>>} : MacAddress(i) \in Mac
  /\ \A m \in Mac : Copy(m) \in Mac
  /\ Broadcast \in Mac
  /\ \A h \in Hosts : <<h>> \in DOMAIN ip
  /\ \A x \in Hosts \cup Routers : \A l \in LinksOf(x) : Interface(x, l) \in DOMAIN ip
<1>1. \A i \in DOMAIN ip : ip[i] \in Ips
  BY DEF Ips
<1>2. \A i \in DOMAIN ip \cup {<<>>} : MacAddress(i) \in Mac
  BY DEF MacAddress, Mac
<1>3. \A m \in Mac : Copy(m) \in Mac
  BY DEF Copy, Mac
<1>4. QED BY <1>1, <1>2, <1>3, NetworkAssumption DEF Broadcast, Interface

LEMMA ArpPackets ==
  /\ \A o \in {"request", "reply"} : \A m, n \in Mac : \A a, b \in Ips :
       Arp(o, m, n, a, b) \in ArpPacket
  /\ \A x \in Hosts \cup Routers : \A l \in LinksOf(x) : \A a \in Ips : ArpRequest(x, l, a) \in ArpPacket
<1>1. \A o \in {"request", "reply"} : \A m, n \in Mac : \A a, b \in Ips :
        Arp(o, m, n, a, b) \in ArpPacket
  BY DEF Arp, ArpPacket
<1>2. QED BY <1>1, Interfaces DEF ArpRequest

LEMMA PacketFields ==
  ASSUME NEW p \in Packets
  PROVE  /\ p.data \in Datagrams /\ p.data.source \in Hosts /\ p.data.destIp \in Ips
         /\ p.fragment \in Nat /\ ~IsArp(p)
<1>1. PICK d \in Datagrams : \E k \in 1 .. d.fragments : p = [data |-> d, fragment |-> k]
  BY DEF Packets
<1>2. d.source \in Hosts /\ d.destIp \in Ips /\ d.fragments \in Nat
  BY DatagramAssumption DEF Ips
<1>3. ~IsArp(p)
  BY <1>1 DEF IsArp
<1>4. QED BY <1>1, <1>2, <1>3

LEMMA ArpIsArp ==
  ASSUME NEW p \in ArpPacket
  PROVE  IsArp(p)
  BY DEF ArpPacket, IsArp

LEMMA NewHeaders ==
  ASSUME NEW p \in Packets, NEW m \in Mac \cup {NoMac}, NEW N
  PROVE  GoodHeader(NewHeader(p, m)) /\ Backed(N, p, NewHeader(p, m))
<1>1. MacAddress(<<p.data.source>>) \in Mac /\ ip[<<p.data.source>>] \in Ips /\ p.data.destIp \in Ips
  BY PacketFields, Interfaces
<1>2. QED BY <1>1, NetworkAssumption DEF GoodHeader, Header, NewHeader, Backed

-----------------------------------------------------------------------------
\* Headers that a router makes of a header that is backed are backed.
LEMMA Records ==
  ASSUME NEW N, NEW M, \A r \in Routers : N[r] \subseteq M[r], NEW p, NEW g, Backed(N, p, g)
  PROVE  Backed(M, p, g)
  BY DEF Backed, Standing

LEMMA Unmapped ==
  ASSUME IInv, NEW p, NEW g, NEW r \in Routers, natEnabled(r), Backed(natTable, p, g)
  PROVE  /\ ~isInternalIp(externalIP[r]) /\ externalIP[r] \in Ips
         /\ g.destIp = externalIP[r] => g.destIp = p.data.destIp
         /\ isInternalIp(g.sourceIp) => g.sourceIp = ip[<<p.data.source>>]
<1>1. \A q \in Routers : natEnabled(q) => ~isInternalIp(externalIP[q]) /\ externalIP[q] \in Ips
  BY NatAssumption DEF natEnabled
<1>2. g.destIp = externalIP[r] => g.destIp = p.data.destIp
  BY <1>1 DEF IInv, OnlyInsideIsMapped, Backed, Standing
<1>3. isInternalIp(g.sourceIp) => g.sourceIp = ip[<<p.data.source>>]
  BY <1>1 DEF Backed, Standing
<1>4. QED BY <1>1, <1>2, <1>3

LEMMA Inbounds ==
  ASSUME IInv, NEW p, NEW g, GoodHeader(g), Backed(natTable, p, g),
         NEW r \in Routers, natEnabled(r), g.destIp = externalIP[r], NEW h \in Inbound(r, g)
  PROVE  GoodHeader(h) /\ Backed(natTable, p, h)
<1>1. CASE natTable[r] = {}
  BY <1>1 DEF Inbound
<1>2. CASE natTable[r] # {}
  <2>1. PICK a \in natTable[r] : h = [g EXCEPT !.destIp = a]
    BY <1>2 DEF Inbound
  <2>2. a \in Ips
    BY DEF IInv, TypeOK
  <2>3. GoodHeader(h) /\ h.sourceIp = g.sourceIp /\ h.destIp = a
    BY <2>1, <2>2 DEF GoodHeader, Header
  <2>4. p.data.destIp = externalIP[r]
    BY Unmapped
  <2>5. QED BY <2>3, <2>4 DEF Backed, Standing
<1>3. QED BY <1>1, <1>2

LEMMA Translations ==
  ASSUME IInv, NEW p, NEW g, GoodHeader(g), Backed(natTable, p, g),
         NEW r \in Routers, NEW h \in Translated(r, g),
         NEW M, \A q \in Routers : natTable[q] \subseteq M[q],
         Outward(r, g) => g.sourceIp \in M[r]
  PROVE  GoodHeader(h) /\ Backed(M, p, h)
<1>1. CASE Outward(r, g)
  <2>1. h = [g EXCEPT !.sourceIp = externalIP[r]] /\ natEnabled(r) /\ isInternalIp(g.sourceIp)
    BY <1>1 DEF Translated, Outward
  <2>2. externalIP[r] \in Ips /\ g.sourceIp = ip[<<p.data.source>>]
    BY <2>1, Unmapped
  <2>3. GoodHeader(h) /\ h.sourceIp = externalIP[r] /\ h.destIp = g.destIp
    BY <2>1, <2>2 DEF GoodHeader, Header
  <2>4. Backed(M, p, g)
    BY Records
  <2>5. Standing(M, h.sourceIp, ip[<<p.data.source>>])
    BY <1>1, <2>1, <2>2, <2>3 DEF Standing
  <2>6. QED BY <2>3, <2>4, <2>5 DEF Backed
<1>2. CASE ~Outward(r, g) /\ natEnabled(r) /\ ~isInternalIp(g.sourceIp) /\ g.destIp = externalIP[r]
  <2>1. h \in Inbound(r, g)
    BY <1>2 DEF Translated
  <2>2. QED BY <1>2, <2>1, Inbounds, Records
<1>3. CASE ~Outward(r, g) /\ ~(natEnabled(r) /\ ~isInternalIp(g.sourceIp) /\ g.destIp = externalIP[r])
  BY <1>3, Records DEF Translated
<1>4. QED BY <1>1, <1>2, <1>3

-----------------------------------------------------------------------------
\* What forwarding the packets of g leaves as it should be.
LEMMA Forwarded ==
  ASSUME IInv, NEW r \in Routers, NEW g, NEW table, NEW lists, NEW base,
         proceedAndEnqueuePacket(r, g, table, lists, base),
         IsFiniteSet(DOMAIN g), DOMAIN g \subseteq DOMAIN header,
         \A p \in DOMAIN g : GoodHeader(g[p]) /\ Backed(natTable, p, g[p]),
         table \in [Ips -> Mac \cup {NoMac}],
         \A a \in Ips : lists[a] \subseteq DOMAIN header /\ IsFiniteSet(lists[a]),
         IsABag(base), DOMAIN base \subseteq DOMAIN wire
  PROVE  /\ IsABag(wire') /\ \A f \in DOMAIN wire' : GoodFrame(f, DOMAIN header)
         /\ DOMAIN header' = DOMAIN header
         /\ \A p \in DOMAIN header : GoodHeader(header'[p]) /\ Backed(natTable', p, header'[p])
         /\ waitingForArpReply' \in [Hosts \cup Routers -> [Ips -> SUBSET (started \cup DOMAIN header)]]
         /\ \A a \in Ips :
              /\ \A h \in Hosts : waitingForArpReply'[h][a] \subseteq started
              /\ \A q \in Routers : /\ waitingForArpReply'[q][a] \subseteq DOMAIN header
                                    /\ IsFiniteSet(waitingForArpReply'[q][a])
         /\ natTable' \in [Routers -> SUBSET Ips]
         /\ \A q \in Routers : /\ natTable[q] \subseteq natTable'[q]
                               /\ \A a \in natTable'[q] : isInternalIp(a)
<1> DEFINE Routed == {p \in DOMAIN g : getRoute(r, g[p].destIp) # {}}
<1>1. PICK via \in [Routed -> Links], to \in [Routed -> UNION {Translated(r, g[p]) : p \in Routed}] :
        LET known == {p \in Routed : table[to[p].destIp] # NoMac}
            Out(p) == Frame(r, via[p], IF p \in known THEN p ELSE ArpRequest(r, via[p], to[p].destIp))
            NextHeader(p) == IF p \in known THEN AddMacHeader(r, via[p], to[p], table[to[p].destIp])
                             ELSE to[p]
        IN /\ \A p \in Routed : via[p] \in getRoute(r, g[p].destIp) /\ to[p] \in Translated(r, g[p])
           /\ wire' = base (+) [m \in {Out(p) : p \in Routed} |-> Cardinality({p \in Routed : Out(p) = m})]
           /\ header' = Overridden(Overridden(header, g), [p \in Routed |-> NextHeader(p)])
           /\ waitingForArpReply' = [waitingForArpReply EXCEPT ![r] =
                [a \in Ips |-> lists[a] \cup {p \in Routed \ known : to[p].destIp = a}]]
           /\ natTable' = [natTable EXCEPT ![r] = @ \cup Recorded(r, {g[p] : p \in Routed})]
  BY Zenon DEF proceedAndEnqueuePacket
<1> DEFINE known == {p \in Routed : table[to[p].destIp] # NoMac}
           Out(p) == Frame(r, via[p], IF p \in known THEN p ELSE ArpRequest(r, via[p], to[p].destIp))
           NextHeader(p) == IF p \in known THEN AddMacHeader(r, via[p], to[p], table[to[p].destIp])
                            ELSE to[p]
           sent == [m \in {Out(p) : p \in Routed} |-> Cardinality({p \in Routed : Out(p) = m})]
<1>2. /\ \A p \in Routed : via[p] \in getRoute(r, g[p].destIp) /\ to[p] \in Translated(r, g[p])
      /\ wire' = base (+) sent
      /\ header' = Overridden(Overridden(header, g), [p \in Routed |-> NextHeader(p)])
      /\ waitingForArpReply' = [waitingForArpReply EXCEPT ![r] =
           [a \in Ips |-> lists[a] \cup {p \in Routed \ known : to[p].destIp = a}]]
      /\ natTable' = [natTable EXCEPT ![r] = @ \cup Recorded(r, {g[p] : p \in Routed})]
  BY <1>1
<1>3. IsFiniteSet(Routed) /\ Routed \subseteq DOMAIN header /\ known \subseteq Routed
  BY FiniteParts
<1>4. /\ natTable' \in [Routers -> SUBSET Ips]
      /\ \A q \in Routers : /\ natTable[q] \subseteq natTable'[q]
                            /\ \A a \in natTable'[q] : isInternalIp(a)
      /\ \A p \in Routed : Outward(r, g[p]) => g[p].sourceIp \in natTable'[r]
  <2>1. natTable \in [Routers -> SUBSET Ips]
    BY DEF IInv, TypeOK
  <2>2. \A a \in Recorded(r, {g[p] : p \in Routed}) : a \in Ips /\ isInternalIp(a)
    BY DEF Recorded, Outward, GoodHeader, Header
  <2>3. \A p \in Routed : Outward(r, g[p]) => g[p].sourceIp \in Recorded(r, {g[q] : q \in Routed})
    BY DEF Recorded
  <2> HIDE DEF Routed
  <2>4. /\ natTable'[r] = natTable[r] \cup Recorded(r, {g[p] : p \in Routed})
        /\ \A q \in Routers \ {r} : natTable'[q] = natTable[q]
        /\ DOMAIN natTable' = Routers
        /\ natTable' = [q \in Routers |-> natTable'[q]]
    BY <1>2, <2>1
  <2>5. QED BY <2>1, <2>2, <2>3, <2>4 DEF IInv, OnlyInsideIsMapped
<1>5. \A p \in Routed : GoodHeader(to[p]) /\ Backed(natTable', p, to[p])
  <2> SUFFICES ASSUME NEW p \in Routed
               PROVE  GoodHeader(to[p]) /\ Backed(natTable', p, to[p])
    OBVIOUS
  <2>1. to[p] \in Translated(r, g[p]) /\ GoodHeader(g[p]) /\ Backed(natTable, p, g[p])
    BY <1>2
  <2>2. \A q \in Routers : natTable[q] \subseteq natTable'[q]
    BY <1>4
  <2>3. Outward(r, g[p]) => g[p].sourceIp \in natTable'[r]
    BY <1>4
  <2> HIDE DEF Routed
  <2>4. QED BY <2>1, <2>2, <2>3, Translations
<1>6. \A p \in Routed : via[p] \in LinksOf(r)
  <2>1. \A a : getRoute(r, a) \subseteq LinksOf(r)
    BY NetworkAssumption DEF getRoute
  <2>2. QED BY <1>2, <2>1
<1>7. \A p \in Routed : GoodHeader(NextHeader(p)) /\ Backed(natTable', p, NextHeader(p))
  <2> SUFFICES ASSUME NEW p \in Routed
               PROVE  GoodHeader(NextHeader(p)) /\ Backed(natTable', p, NextHeader(p))
    OBVIOUS
  <2> HIDE DEF Routed
  <2>1. MacAddress(<<r, via[p]>>) \in Mac
    BY <1>6, Interfaces, NetworkAssumption
  <2>2. to[p].destIp \in Ips /\ GoodHeader(to[p]) /\ Backed(natTable', p, to[p])
    BY <1>5 DEF GoodHeader, Header
  <2>3. table[to[p].destIp] \in Mac \cup {NoMac}
    BY <2>2
  <2> HIDE DEF known
  <2>4. CASE p \in known
    BY <2>1, <2>2, <2>3, <2>4 DEF AddMacHeader, GoodHeader, Header, Backed
  <2>5. CASE p \notin known
    BY <2>2, <2>5
  <2>6. QED BY <2>4, <2>5
<1>8. /\ DOMAIN header' = DOMAIN header
      /\ \A p \in DOMAIN header : GoodHeader(header'[p]) /\ Backed(natTable', p, header'[p])
  <2>1. \A p \in DOMAIN header : GoodHeader(header[p]) /\ Backed(natTable', p, header[p])
    BY <1>4, Records DEF IInv, TypeOK, TranslationsAreRecorded, GoodHeader, Backed, Standing, StandsFor
  <2>2. \A p \in DOMAIN g : GoodHeader(g[p]) /\ Backed(natTable', p, g[p])
    BY <1>4, Records
  <2> HIDE DEF Routed, NextHeader
  <2>3. /\ DOMAIN header' = Routed \cup DOMAIN g \cup DOMAIN header
        /\ \A p \in DOMAIN header : header'[p] = IF p \in Routed THEN NextHeader(p)
                                                 ELSE IF p \in DOMAIN g THEN g[p] ELSE header[p]
    BY <1>2, <1>3 DEF Overridden
  <2>4. QED BY <1>3, <1>7, <2>1, <2>2, <2>3
<1>9. /\ waitingForArpReply' \in [Hosts \cup Routers -> [Ips -> SUBSET (started \cup DOMAIN header)]]
      /\ \A a \in Ips :
           /\ \A h \in Hosts : waitingForArpReply'[h][a] \subseteq started
           /\ \A q \in Routers : /\ waitingForArpReply'[q][a] \subseteq DOMAIN header
                                 /\ IsFiniteSet(waitingForArpReply'[q][a])
  <2> DEFINE more(a) == {p \in Routed \ known : to[p].destIp = a}
  <2>1. \A a \in Ips : more(a) \subseteq DOMAIN header /\ IsFiniteSet(more(a))
    BY <1>3, FiniteParts
  <2>2. \A a \in Ips : /\ lists[a] \cup more(a) \subseteq DOMAIN header
                       /\ IsFiniteSet(lists[a] \cup more(a))
    BY <2>1, FiniteParts
  <2>3. waitingForArpReply \in [Hosts \cup Routers -> [Ips -> SUBSET (started \cup DOMAIN header)]]
    BY DEF IInv, TypeOK
  <2>4. waitingForArpReply' = [waitingForArpReply EXCEPT ![r] = [a \in Ips |-> lists[a] \cup more(a)]]
    BY <1>2
  <2> HIDE DEF more
  <2>5. /\ \A a \in Ips : waitingForArpReply'[r][a] = lists[a] \cup more(a)
        /\ \A x \in (Hosts \cup Routers) \ {r} : waitingForArpReply'[x] = waitingForArpReply[x]
    BY <2>3, <2>4
  <2>6. waitingForArpReply' \in [Hosts \cup Routers -> [Ips -> SUBSET (started \cup DOMAIN header)]]
    BY <2>2, <2>3, <2>4
  <2>7. \A a \in Ips : \A h \in Hosts : waitingForArpReply'[h][a] \subseteq started
    BY <2>5, NetworkAssumption DEF IInv, TypeOK
  <2>8. \A a \in Ips : \A q \in Routers : /\ waitingForArpReply'[q][a] \subseteq DOMAIN header
                                          /\ IsFiniteSet(waitingForArpReply'[q][a])
    <3>1. \A a \in Ips : \A q \in Routers : /\ waitingForArpReply[q][a] \subseteq DOMAIN header
                                            /\ IsFiniteSet(waitingForArpReply[q][a])
      BY DEF IInv, TypeOK, ListsAreFinite
    <3> HIDE DEF known, Routed
    <3>2. SUFFICES ASSUME NEW a \in Ips, NEW q \in Routers
                   PROVE  /\ waitingForArpReply'[q][a] \subseteq DOMAIN header
                          /\ IsFiniteSet(waitingForArpReply'[q][a])
      BY Zenon
    <3>3. CASE q = r
      BY <2>2, <2>5, <3>3
    <3>4. CASE q # r
      <4>1. waitingForArpReply'[q] = waitingForArpReply[q]
        BY <2>5, <3>4
      <4>2. QED BY <3>1, <4>1
    <3>5. QED BY <3>3, <3>4
  <2>9. QED BY <2>6, <2>7, <2>8
<1>10. IsABag(sent)
  <2>1. ASSUME NEW m \in DOMAIN sent PROVE sent[m] \in Nat \ {0}
    <3>1. {p \in Routed : Out(p) = m} # {} /\ {p \in Routed : Out(p) = m} \subseteq Routed
      OBVIOUS
    <3> HIDE DEF Routed, Out
    <3>2. QED BY <1>3, <3>1, FiniteParts, Multiplicity
  <2>2. sent = [m \in DOMAIN sent |-> sent[m]]
    OBVIOUS
  <2> HIDE DEF sent
  <2>3. QED BY <2>1, <2>2 DEF IsABag
<1>11. \A m \in DOMAIN sent : GoodFrame(m, DOMAIN header)
  <2> SUFFICES ASSUME NEW p \in Routed PROVE GoodFrame(Out(p), DOMAIN header)
    OBVIOUS
  <2>1. via[p] \in Links /\ r \in via[p]
    BY <1>6 DEF LinksOf
  <2>2. ArpRequest(r, via[p], to[p].destIp) \in ArpPacket
    BY <1>5, <1>6, ArpPackets DEF GoodHeader, Header
  <2>3. QED BY <1>3, <2>1, <2>2 DEF GoodFrame, Frame
<1>12. IsABag(wire') /\ \A f \in DOMAIN wire' : GoodFrame(f, DOMAIN header)
  <2>1. \A f \in DOMAIN base : GoodFrame(f, DOMAIN header)
    BY DEF IInv, TypeOK, GoodFrame
  <2> HIDE DEF sent
  <2>2. IsABag(wire') /\ DOMAIN wire' = DOMAIN base \cup DOMAIN sent
    BY <1>2, <1>10, BagSum
  <2>3. QED BY <1>11, <2>1, <2>2
<1>13. QED BY <1>4, <1>8, <1>9, <1>12

-----------------------------------------------------------------------------
\* The invariant, by the variables that change together.
TrafficOK ==
  /\ IsABag(wire) /\ \A f \in DOMAIN wire : GoodFrame(f, DOMAIN header)
  /\ DOMAIN header \subseteq Packets
  /\ \A p \in DOMAIN header : GoodHeader(header[p]) /\ Backed(natTable, p, header[p])
NatOK == natTable \in [Routers -> SUBSET Ips] /\ OnlyInsideIsMapped
ListsOK ==
  /\ waitingForArpReply \in [Hosts \cup Routers -> [Ips -> SUBSET (started \cup DOMAIN header)]]
  /\ \A a \in Ips : /\ \A h \in Hosts : waitingForArpReply[h][a] \subseteq started
                    /\ \A r \in Routers : /\ waitingForArpReply[r][a] \subseteq DOMAIN header
                                          /\ IsFiniteSet(waitingForArpReply[r][a])
SwitchesOK ==
  /\ DOMAIN forwardingTable = Switches
  /\ \A s \in Switches : \A m \in DOMAIN forwardingTable[s] :
       m \in Mac \cup {NoMac} /\ forwardingTable[s][m] \in LinksOf(s)
ArpTablesOK == arpTable \in [Hosts \cup Routers -> [Ips -> Mac \cup {NoMac}]]
ArrivalsOK ==
  /\ arrived \in [Hosts -> Seq(DOMAIN header)]
  /\ fragmentedPackets \in [Hosts -> SUBSET DOMAIN header]
  /\ reassembled \in [Datagrams -> Nat]
  /\ \A h \in Hosts : \A k \in DOMAIN arrived[h] :
       \/ arrived[h][k].data.destIp = ip[<<h>>]
       \/ Standing(natTable, arrived[h][k].data.destIp, ip[<<h>>])
CountersOK == started \subseteq Datagrams /\ losses \in 0 .. MaxLosses /\ panicked \in BOOLEAN
Parts == TrafficOK /\ NatOK /\ ListsOK /\ SwitchesOK /\ ArpTablesOK /\ ArrivalsOK /\ CountersOK

LEMMA TheParts == IInv <=> Parts
<1>1. TrafficOK /\ ArrivalsOK <=>
        /\ IsABag(wire) /\ \A f \in DOMAIN wire : GoodFrame(f, DOMAIN header)
        /\ DOMAIN header \subseteq Packets
        /\ \A p \in DOMAIN header : GoodHeader(header[p])
        /\ arrived \in [Hosts -> Seq(DOMAIN header)]
        /\ fragmentedPackets \in [Hosts -> SUBSET DOMAIN header]
        /\ reassembled \in [Datagrams -> Nat]
        /\ TranslationsAreRecorded
  BY DEF TrafficOK, ArrivalsOK, TranslationsAreRecorded, Backed, Standing, StandsFor
<1>2. ListsOK <=>
        /\ ListsAreFinite
        /\ waitingForArpReply \in [Hosts \cup Routers -> [Ips -> SUBSET (started \cup DOMAIN header)]]
        /\ \A a \in Ips : /\ \A h \in Hosts : waitingForArpReply[h][a] \subseteq started
                          /\ \A r \in Routers : waitingForArpReply[r][a] \subseteq DOMAIN header
  BY DEF ListsOK, ListsAreFinite
<1>3. QED BY <1>1, <1>2 DEF IInv, Parts, TypeOK, GoodFrame, GoodHeader, NatOK, SwitchesOK,
                             ArpTablesOK, CountersOK

LEMMA Initially == Init => IInv
<1> SUFFICES ASSUME Init PROVE Parts
  BY TheParts
<1>1. /\ IsABag(wire) /\ DOMAIN wire = {} /\ DOMAIN header = {}
  BY DEF Init, EmptyBag, SetToBag, IsABag
<1>2. TrafficOK
  BY <1>1 DEF TrafficOK
<1>3. NatOK
  BY DEF Init, NatOK, OnlyInsideIsMapped
<1>4. ListsOK
  <2>1. waitingForArpReply = [x \in Hosts \cup Routers |-> [a \in Ips |-> {}]]
    BY DEF Init
  <2>2. QED BY <2>1, FiniteParts DEF ListsOK
<1>5. SwitchesOK /\ ArpTablesOK
  BY DEF Init, SwitchesOK, ArpTablesOK
<1>6. ArrivalsOK
  BY DEF Init, ArrivalsOK
<1>7. CountersOK
  <2>1. started = {} /\ losses = 0 /\ panicked = FALSE
    BY DEF Init
  <2>2. MaxLosses \in Nat
    BY NetworkAssumption
  <2>3. 0 \in 0 .. MaxLosses
    BY <2>2
  <2>4. QED BY <2>1, <2>3, Zenon DEF CountersOK
<1>8. QED BY <1>2, <1>3, <1>4, <1>5, <1>6, <1>7 DEF Parts

-----------------------------------------------------------------------------
\* What has arrived stays, however headers and natTables grow.
LEMMA ArrivalsStay ==
  ASSUME Parts, UNCHANGED dataVars, DOMAIN header \subseteq DOMAIN header',
         \A q \in Routers : natTable[q] \subseteq natTable'[q]
  PROVE  ArrivalsOK'
<1>1. arrived' = arrived /\ fragmentedPackets' = fragmentedPackets /\ reassembled' = reassembled
  BY DEF dataVars
<1>2. \A s \in Seq(DOMAIN header) : s \in Seq(DOMAIN header')
  OBVIOUS
<1>3. arrived' \in [Hosts -> Seq(DOMAIN header')]
  BY <1>1, <1>2 DEF Parts, ArrivalsOK
<1>4. \A h \in Hosts : \A k \in DOMAIN arrived[h] :
        \/ arrived[h][k].data.destIp = ip[<<h>>]
        \/ Standing(natTable', arrived[h][k].data.destIp, ip[<<h>>])
  BY DEF Parts, ArrivalsOK, Standing
<1>5. fragmentedPackets' \in [Hosts -> SUBSET DOMAIN header']
  BY <1>1 DEF Parts, ArrivalsOK
<1>6. reassembled' \in [Datagrams -> Nat]
  BY <1>1 DEF Parts, ArrivalsOK
<1>7. QED BY <1>1, <1>3, <1>4, <1>5, <1>6 DEF ArrivalsOK

\* A step that takes a frame off, or none, and puts the frames S on.
LEMMA WireStep ==
  ASSUME Parts, NEW base, IsABag(base), DOMAIN base \subseteq DOMAIN wire, NEW S,
         DOMAIN header \subseteq DOMAIN header',
         \A f \in S : GoodFrame(f, DOMAIN header'), wire' = base (+) SetToBag(S)
  PROVE  IsABag(wire') /\ \A f \in DOMAIN wire' : GoodFrame(f, DOMAIN header')
<1>1. IsABag(wire') /\ DOMAIN wire' = DOMAIN base \cup S
  <2>1. /\ IsABag(base (+) SetToBag(S))
        /\ BagToSet(base (+) SetToBag(S)) = BagToSet(base) \cup S
    BY WireAdd
  <2>2. QED BY <2>1 DEF BagToSet
<1>2. \A f \in DOMAIN wire : GoodFrame(f, DOMAIN header')
  BY DEF Parts, TrafficOK, GoodFrame
<1>3. QED BY <1>1, <1>2

LEMMA Taken ==
  ASSUME Parts, NEW f \in DOMAIN wire
  PROVE  IsABag(BagRemove(wire, f)) /\ DOMAIN BagRemove(wire, f) \subseteq DOMAIN wire
  BY BagTake DEF BagRemove, Ext!BagRemove, Parts, TrafficOK

-----------------------------------------------------------------------------
\* A link loses a packet.
LEMMA LossKeeps ==
  ASSUME Parts, NEW f \in DOMAIN wire, transferPacket(f)
  PROVE  Parts'
<1>1. /\ UNCHANGED <<forwardingTable, arpTable, waitingForArpReply, natTable, started, panicked>>
      /\ UNCHANGED dataVars /\ losses < MaxLosses /\ losses' = losses + 1
  BY DEF transferPacket, arpVars
<1>2. NatOK' /\ SwitchesOK' /\ ArpTablesOK' /\ CountersOK'
  <2>1. losses \in 0 .. MaxLosses /\ MaxLosses \in Nat
    BY NetworkAssumption DEF Parts, CountersOK
  <2>2. losses' \in 0 .. MaxLosses
    BY <1>1, <2>1
  <2>3. QED BY <1>1, <2>2 DEF Parts, NatOK, OnlyInsideIsMapped, SwitchesOK, ArpTablesOK, CountersOK
<1>3. GoodFrame(f, DOMAIN header) /\ DOMAIN header \subseteq Packets
  BY DEF Parts, TrafficOK
<1>4. DOMAIN header' = DOMAIN header /\ TrafficOK'
  <2>1. CASE IsArp(f.packet)
    <3>1. header' = header
      BY <2>1 DEF transferPacket
    <3>2. PICK copies \in SUBSET {g \in DOMAIN wire : g.packet = f.packet} :
            wire' = (wire (-) SetToBag(copies)) (+)
              SetToBag({Frame(g.from, g.on, [f.packet EXCEPT !.lost = TRUE]) : g \in copies})
      BY <2>1 DEF transferPacket
    <3> DEFINE base == wire (-) SetToBag(copies)
               marked == {Frame(g.from, g.on, [f.packet EXCEPT !.lost = TRUE]) : g \in copies}
    <3>3. IsABag(base) /\ DOMAIN base \subseteq DOMAIN wire
      BY BagDifference DEF Parts, TrafficOK
    <3>4. f.packet \in ArpPacket
      BY <1>3, <2>1, PacketFields DEF GoodFrame
    <3>5. [f.packet EXCEPT !.lost = TRUE] \in ArpPacket
      BY <3>4 DEF ArpPacket
    <3>6. \A g \in marked : GoodFrame(g, DOMAIN header')
      <4> SUFFICES ASSUME NEW g \in copies
                   PROVE  GoodFrame(Frame(g.from, g.on, [f.packet EXCEPT !.lost = TRUE]), DOMAIN header')
        OBVIOUS
      <4>1. g.on \in Links /\ g.from \in g.on
        BY DEF Parts, TrafficOK, GoodFrame
      <4>2. QED BY <3>5, <4>1 DEF GoodFrame, Frame
    <3>7. wire' = base (+) SetToBag(marked)
      BY <3>2
    <3> HIDE DEF base, marked
    <3>8. IsABag(wire') /\ \A g \in DOMAIN wire' : GoodFrame(g, DOMAIN header')
      BY <3>1, <3>3, <3>6, <3>7, WireStep
    <3>9. QED BY <1>1, <3>1, <3>8 DEF Parts, TrafficOK
  <2>2. CASE ~IsArp(f.packet)
    <3>1. wire' = wire /\ header' = [header EXCEPT ![f.packet].lost = TRUE]
      BY <2>2 DEF transferPacket
    <3>2. DOMAIN header' = DOMAIN header
      BY <3>1
    <3>3. \A p \in DOMAIN header : GoodHeader(header[p]) /\ Backed(natTable, p, header[p])
      BY DEF Parts, TrafficOK
    <3>4. \A p \in DOMAIN header : GoodHeader(header'[p]) /\ Backed(natTable, p, header'[p])
      <4> SUFFICES ASSUME NEW p \in DOMAIN header
                   PROVE  GoodHeader(header'[p]) /\ Backed(natTable, p, header'[p])
        OBVIOUS
      <4>1. header'[p] = header[p] \/ header'[p] = [header[p] EXCEPT !.lost = TRUE]
        BY <3>1
      <4>2. GoodHeader(header[p]) /\ Backed(natTable, p, header[p])
        BY <3>3
      <4>3. QED BY <4>1, <4>2 DEF GoodHeader, Header, Backed
    <3>5. QED BY <1>1, <3>1, <3>2, <3>4 DEF Parts, TrafficOK
  <2>3. QED BY <2>1, <2>2
<1>5. ListsOK'
  BY <1>1, <1>4 DEF Parts, ListsOK
<1>6. ArrivalsOK'
  BY <1>1, <1>4, ArrivalsStay
<1>7. QED BY <1>2, <1>4, <1>5, <1>6 DEF Parts

-----------------------------------------------------------------------------
\* A switch learns and forwards.
LEMMA SwitchKeeps ==
  ASSUME Parts, NEW f \in DOMAIN wire, NEW s \in Switches, s \in f.on, SwitchReceivesPacket(s, f)
  PROVE  Parts'
<1>1. /\ UNCHANGED <<header, arpTable, waitingForArpReply, natTable, started, losses, panicked>>
      /\ UNCHANGED dataVars
  BY DEF SwitchReceivesPacket, arpVars, rest
<1>2. NatOK' /\ ArpTablesOK' /\ CountersOK' /\ ListsOK'
  BY <1>1 DEF Parts, NatOK, OnlyInsideIsMapped, ArpTablesOK, CountersOK, ListsOK
<1>3. GoodFrame(f, DOMAIN header) /\ f.on \in LinksOf(s)
  BY DEF Parts, TrafficOK, GoodFrame, LinksOf
<1>4. HeaderOf(f.packet).sourceMac \in Mac \cup {NoMac}
  <2>1. CASE f.packet \in ArpPacket
    BY <2>1, ArpIsArp DEF HeaderOf, ArpPacket
  <2>2. CASE f.packet \in DOMAIN header
    <3>1. ~IsArp(f.packet) /\ GoodHeader(header[f.packet])
      BY <2>2, PacketFields DEF Parts, TrafficOK
    <3>2. QED BY <3>1 DEF HeaderOf, GoodHeader, Header
  <2>3. QED BY <1>3, <2>1, <2>2 DEF GoodFrame
<1>5. /\ \A m \in DOMAIN Learned(s, f) : m \in Mac \cup {NoMac} /\ Learned(s, f)[m] \in LinksOf(s)
  BY <1>3, <1>4 DEF Learned, Overridden, Parts, SwitchesOK
<1>6. SwitchesOK' /\ TrafficOK'
  <2>1. CASE wire' = BagRemove(wire, f) /\ UNCHANGED forwardingTable
    <3>1. DOMAIN wire' \subseteq DOMAIN wire /\ IsABag(wire')
      BY <2>1, Taken
    <3>2. QED BY <1>1, <2>1, <3>1 DEF Parts, SwitchesOK, TrafficOK
  <2>2. CASE /\ forwardingTable' = [forwardingTable EXCEPT ![s] = Learned(s, f)]
             /\ wire' = BagRemove(wire, f) (+) forwardPacket(s, f, Learned(s, f))
    <3>1. SwitchesOK'
      BY <1>5, <2>2 DEF Parts, SwitchesOK
    <3>2. PICK ls \in SUBSET LinksOf(s) :
            forwardPacket(s, f, Learned(s, f)) = SetToBag({Frame(s, l, f.packet) : l \in ls})
      BY <1>5 DEF forwardPacket, Enqueued
    <3>3. \A g \in {Frame(s, l, f.packet) : l \in ls} : GoodFrame(g, DOMAIN header')
      BY <1>1, <1>3 DEF GoodFrame, Frame, LinksOf
    <3>4. IsABag(wire') /\ \A g \in DOMAIN wire' : GoodFrame(g, DOMAIN header')
      BY <1>1, <2>2, <3>2, <3>3, Taken, WireStep
    <3>5. QED BY <1>1, <3>1, <3>4 DEF Parts, TrafficOK
  <2>3. QED BY <2>1, <2>2 DEF SwitchReceivesPacket
<1>7. ArrivalsOK'
  BY <1>1, ArrivalsStay
<1>8. QED BY <1>2, <1>6, <1>7 DEF Parts

-----------------------------------------------------------------------------
\* Hosts.
LEMMA HostSends ==
  ASSUME Parts, NEW h \in Hosts, NEW D \in SUBSET Datagrams, NEW m \in Mac \cup {NoMac},
         NEW base, IsABag(base), DOMAIN base \subseteq DOMAIN wire, UNCHANGED natTable,
         sendUDPPacket(h, D, m, base)
  PROVE  TrafficOK' /\ DOMAIN header \subseteq DOMAIN header'
<1> DEFINE new == [p \in Fragments(D) |-> NewHeader(p, m)]
           frames == {Frame(h, l, p) : l \in LinksOf(h), p \in Fragments(D)}
<1>1. header' = Overridden(header, new) /\ wire' = base (+) SetToBag(frames)
  BY DEF sendUDPPacket
<1>2. Fragments(D) \subseteq Packets
  BY DEF Fragments
<1>3. \A p \in Fragments(D) : GoodHeader(NewHeader(p, m)) /\ Backed(natTable, p, NewHeader(p, m))
  BY <1>2, NewHeaders
<1>4. /\ DOMAIN header' = DOMAIN header \cup Fragments(D)
      /\ \A p \in Fragments(D) : header'[p] = NewHeader(p, m)
      /\ \A p \in DOMAIN header \ Fragments(D) : header'[p] = header[p]
  BY <1>1 DEF Overridden
<1>5. \A p \in DOMAIN header' : GoodHeader(header'[p]) /\ Backed(natTable', p, header'[p])
  <2>1. \A p \in DOMAIN header : GoodHeader(header[p]) /\ Backed(natTable, p, header[p])
    BY DEF Parts, TrafficOK
  <2>2. QED BY <1>3, <1>4, <2>1
<1>6. \A f \in frames : GoodFrame(f, DOMAIN header')
  BY <1>4 DEF GoodFrame, Frame, LinksOf
<1> HIDE DEF frames
<1>7. IsABag(wire') /\ \A f \in DOMAIN wire' : GoodFrame(f, DOMAIN header')
  BY <1>1, <1>4, <1>6, WireStep
<1>8. DOMAIN header \subseteq Packets
  BY DEF Parts, TrafficOK
<1>9. QED BY <1>2, <1>4, <1>5, <1>7, <1>8 DEF TrafficOK

\* Lists grow with what has been started and sent.
LEMMA ListsStay ==
  ASSUME Parts, UNCHANGED waitingForArpReply, started \subseteq started',
         DOMAIN header \subseteq DOMAIN header'
  PROVE  ListsOK'
<1>1. SUBSET (started \cup DOMAIN header) \subseteq SUBSET (started' \cup DOMAIN header')
  OBVIOUS
<1>2. waitingForArpReply' \in [Hosts \cup Routers -> [Ips -> SUBSET (started' \cup DOMAIN header')]]
  BY <1>1 DEF Parts, ListsOK
<1>3. \A a \in Ips : /\ \A h \in Hosts : waitingForArpReply[h][a] \subseteq started'
                     /\ \A r \in Routers : /\ waitingForArpReply[r][a] \subseteq DOMAIN header'
                                           /\ IsFiniteSet(waitingForArpReply[r][a])
  BY DEF Parts, ListsOK
<1>4. QED BY <1>2, <1>3 DEF ListsOK

\* A host's list for one address changes to one of started datagrams.
LEMMA HostListChanges ==
  ASSUME Parts, NEW h \in Hosts, NEW b \in Ips, NEW list, list \subseteq started',
         waitingForArpReply' = [waitingForArpReply EXCEPT ![h][b] = list],
         started \subseteq started', DOMAIN header \subseteq DOMAIN header'
  PROVE  ListsOK'
<1>1. /\ waitingForArpReply \in [Hosts \cup Routers -> [Ips -> SUBSET (started \cup DOMAIN header)]]
      /\ \A a \in Ips : /\ \A x \in Hosts : waitingForArpReply[x][a] \subseteq started
                        /\ \A r \in Routers : /\ waitingForArpReply[r][a] \subseteq DOMAIN header
                                              /\ IsFiniteSet(waitingForArpReply[r][a])
  BY DEF Parts, ListsOK
<1>2. \A x \in (Hosts \cup Routers) : \A a \in Ips :
        waitingForArpReply'[x][a] = IF x = h /\ a = b THEN list ELSE waitingForArpReply[x][a]
  BY <1>1
<1>3. DOMAIN waitingForArpReply' = Hosts \cup Routers
  BY <1>1
<1>4. waitingForArpReply' \in [Hosts \cup Routers -> [Ips -> SUBSET (started' \cup DOMAIN header')]]
  <2>1. waitingForArpReply \in [Hosts \cup Routers -> [Ips -> SUBSET (started' \cup DOMAIN header')]]
    BY <1>1
  <2>2. QED BY <2>1
<1>5. \A r \in Routers : r # h
  BY NetworkAssumption
<1>6. \A a \in Ips : /\ \A x \in Hosts : waitingForArpReply'[x][a] \subseteq started'
                     /\ \A r \in Routers : waitingForArpReply'[r][a] = waitingForArpReply[r][a]
  BY <1>1, <1>2, <1>5
<1>7. QED BY <1>1, <1>4, <1>6 DEF ListsOK

LEMMA StartKeeps ==
  ASSUME Parts, NEW d \in Datagrams, StartTraffic(d)
  PROVE  Parts'
<1> DEFINE h == d.source
<1>1. h \in Hosts /\ d.destIp \in Ips
  BY DatagramAssumption DEF Ips
<1>2. /\ started' = started \cup {d}
      /\ UNCHANGED <<forwardingTable, arpTable, natTable, losses, panicked>> /\ UNCHANGED dataVars
  BY DEF StartTraffic
<1>3. NatOK' /\ SwitchesOK' /\ ArpTablesOK' /\ CountersOK'
  BY <1>2 DEF Parts, NatOK, OnlyInsideIsMapped, SwitchesOK, ArpTablesOK, CountersOK
<1>4. TrafficOK' /\ ListsOK' /\ DOMAIN header \subseteq DOMAIN header'
  <2>1. CASE /\ sendUDPPacket(h, {d}, arpTable[h][d.destIp], wire)
             /\ UNCHANGED waitingForArpReply
    <3>1. arpTable[h][d.destIp] \in Mac \cup {NoMac}
      BY <1>1 DEF Parts, ArpTablesOK
    <3>2. IsABag(wire)
      BY DEF Parts, TrafficOK
    <3>3. TrafficOK' /\ DOMAIN header \subseteq DOMAIN header'
      BY <1>1, <1>2, <2>1, <3>1, <3>2, HostSends
    <3>4. QED BY <1>2, <2>1, <3>3, ListsStay
  <2>2. CASE /\ wire' = wire (+) SetToBag({Frame(h, l, ArpRequest(h, l, d.destIp)) : l \in LinksOf(h)})
             /\ waitingForArpReply' = [waitingForArpReply EXCEPT ![h][d.destIp] = @ \cup {d}]
             /\ UNCHANGED header
    <3> DEFINE frames == {Frame(h, l, ArpRequest(h, l, d.destIp)) : l \in LinksOf(h)}
    <3>1. \A f \in frames : GoodFrame(f, DOMAIN header')
      BY <1>1, ArpPackets DEF GoodFrame, Frame, LinksOf
    <3>2. IsABag(wire)
      BY DEF Parts, TrafficOK
    <3> HIDE DEF frames
    <3>3. IsABag(wire') /\ \A f \in DOMAIN wire' : GoodFrame(f, DOMAIN header')
      <4>1. wire' = wire (+) SetToBag(frames) /\ DOMAIN header \subseteq DOMAIN header'
        BY <2>2 DEF frames
      <4>2. QED BY <3>1, <3>2, <4>1, WireStep
    <3>4. TrafficOK'
      BY <1>2, <2>2, <3>3 DEF Parts, TrafficOK
    <3>5. waitingForArpReply[h][d.destIp] \cup {d} \subseteq started'
      BY <1>1, <1>2 DEF Parts, ListsOK
    <3>6. waitingForArpReply' =
            [waitingForArpReply EXCEPT ![h][d.destIp] = waitingForArpReply[h][d.destIp] \cup {d}]
      BY <2>2
    <3>7. ListsOK'
      BY <1>1, <1>2, <2>2, <3>5, <3>6, HostListChanges
    <3>8. QED BY <2>2, <3>4, <3>7
  <2>3. QED BY <2>1, <2>2 DEF StartTraffic
<1>5. ArrivalsOK'
  BY <1>2, <1>4, ArrivalsStay
<1>6. QED BY <1>3, <1>4, <1>5 DEF Parts


\* What arrives at a host is for the host.
LEMMA HostTakesData ==
  ASSUME Parts, NEW h \in Hosts, NEW p \in DOMAIN header, UNCHANGED <<header, natTable>>,
         header[p].destIp = ip[<<h>>], processDataPacket(h, p)
  PROVE  ArrivalsOK'
<1>1. p \in Packets /\ p.data \in Datagrams
  BY PacketFields DEF Parts, TrafficOK
<1>2. p.data.destIp = ip[<<h>>] \/ Standing(natTable, p.data.destIp, ip[<<h>>])
  <2>1. Backed(natTable, p, header[p])
    BY DEF Parts, TrafficOK
  <2>2. QED BY <2>1 DEF Backed
<1>3. arrived' = [arrived EXCEPT ![h] = Append(arrived[h], p)] /\ arrived \in [Hosts -> Seq(DOMAIN header)]
  BY DEF processDataPacket, Parts, ArrivalsOK
<1>4. arrived' \in [Hosts -> Seq(DOMAIN header)]
  BY <1>3
<1>5. \A g \in Hosts : \A k \in DOMAIN arrived'[g] :
        (k \in DOMAIN arrived[g] /\ arrived'[g][k] = arrived[g][k]) \/ (g = h /\ arrived'[g][k] = p)
  <2> SUFFICES ASSUME NEW g \in Hosts, NEW k \in DOMAIN arrived'[g]
               PROVE  (k \in DOMAIN arrived[g] /\ arrived'[g][k] = arrived[g][k])
                      \/ (g = h /\ arrived'[g][k] = p)
    OBVIOUS
  <2>1. CASE g = h
    <3>1. arrived[h] \in Seq(DOMAIN header) /\ arrived'[h] = Append(arrived[h], p)
      BY <1>3
    <3>2. QED BY <2>1, <3>1
  <2>2. CASE g # h
    <3>1. arrived'[g] = arrived[g]
      BY <1>3, <2>2
    <3>2. QED BY <3>1
  <2>3. QED BY <2>1, <2>2
<1>6. \A g \in Hosts : \A k \in DOMAIN arrived'[g] :
        \/ arrived'[g][k].data.destIp = ip[<<g>>]
        \/ Standing(natTable, arrived'[g][k].data.destIp, ip[<<g>>])
  BY <1>2, <1>5 DEF Parts, ArrivalsOK
<1>7. fragmentedPackets' \in [Hosts -> SUBSET DOMAIN header]
  <2>1. \/ fragmentedPackets' = fragmentedPackets
        \/ fragmentedPackets' = [fragmentedPackets EXCEPT ![h] = fragmentedPackets[h] \cup {p}]
    BY DEF processDataPacket
  <2>2. QED BY <2>1 DEF Parts, ArrivalsOK
<1>8. reassembled' \in [Datagrams -> Nat]
  <2>1. \/ reassembled' = reassembled
        \/ reassembled' = [reassembled EXCEPT ![p.data] = reassembled[p.data] + 1]
    BY DEF processDataPacket
  <2>2. reassembled \in [Datagrams -> Nat]
    BY DEF Parts, ArrivalsOK
  <2>3. reassembled[p.data] + 1 \in Nat
    BY <1>1, <2>2
  <2>4. QED BY <2>1, <2>2, <2>3
<1>9. QED BY <1>4, <1>6, <1>7, <1>8 DEF ArrivalsOK

LEMMA HostArpKeeps ==
  ASSUME Parts, NEW f \in DOMAIN wire, NEW h \in Hosts, h \in f.on, IsArp(f.packet),
         processARPPacket(h, f), UNCHANGED <<forwardingTable, natTable, started, losses>>
  PROVE  Parts'
<1>1. UNCHANGED dataVars /\ UNCHANGED panicked
  BY DEF processARPPacket
<1>2. NatOK' /\ SwitchesOK' /\ CountersOK'
  BY <1>1 DEF Parts, NatOK, OnlyInsideIsMapped, SwitchesOK, CountersOK
<1> DEFINE p == f.packet
           taken == BagRemove(wire, f)
<1>3. p \in ArpPacket
  BY PacketFields DEF Parts, TrafficOK, GoodFrame
<1>4. /\ p.sourceMac \in Mac /\ Copy(p.sourceMac) \in Mac /\ p.sourceIp \in Ips
      /\ MacAddress(<<h>>) \in Mac /\ ip[<<h>>] \in Ips
  BY <1>3, Interfaces DEF ArpPacket
<1>5. IsABag(taken) /\ DOMAIN taken \subseteq DOMAIN wire
  BY Taken
<1> HIDE DEF taken
<1>6. ArpTablesOK' /\ TrafficOK' /\ ListsOK' /\ DOMAIN header \subseteq DOMAIN header'
  <2>1. CASE /\ wire' = taken (+) Enqueued(h, LinksOf(h),
                  Arp("reply", MacAddress(<<h>>), p.sourceMac, ip[<<h>>], p.sourceIp))
             /\ UNCHANGED <<header, arpVars>>
    <3> DEFINE reply == Arp("reply", MacAddress(<<h>>), p.sourceMac, ip[<<h>>], p.sourceIp)
               frames == {Frame(h, l, reply) : l \in LinksOf(h)}
    <3>1. reply \in ArpPacket
      BY <1>4, ArpPackets
    <3>2. \A g \in frames : GoodFrame(g, DOMAIN header')
      BY <3>1 DEF GoodFrame, Frame, LinksOf
    <3>3. wire' = taken (+) SetToBag(frames) /\ header' = header
      BY <2>1 DEF Enqueued
    <3> HIDE DEF frames
    <3>4. IsABag(wire') /\ \A g \in DOMAIN wire' : GoodFrame(g, DOMAIN header')
      BY <1>5, <3>2, <3>3, WireStep
    <3>5. QED BY <1>1, <2>1, <3>3, <3>4 DEF Parts, TrafficOK, ArpTablesOK, ListsOK, arpVars
  <2>2. CASE /\ arpTable' = [arpTable EXCEPT ![h][p.sourceIp] = Copy(p.sourceMac)]
             /\ sendUDPPacket(h, waitingForArpReply[h][p.sourceIp], Copy(p.sourceMac), taken)
             /\ waitingForArpReply' = [waitingForArpReply EXCEPT ![h][p.sourceIp] = {}]
    <3>1. waitingForArpReply[h][p.sourceIp] \in SUBSET Datagrams
      BY <1>4 DEF Parts, ListsOK, CountersOK
    <3>2. TrafficOK' /\ DOMAIN header \subseteq DOMAIN header'
      BY <1>4, <1>5, <2>2, <3>1, HostSends
    <3>3. ArpTablesOK'
      BY <1>4, <2>2 DEF Parts, ArpTablesOK
    <3>4. ListsOK'
      <4> HIDE DEF p
      <4>1. PICK b \in Ips, list \in SUBSET Datagrams :
              /\ list \subseteq started'
              /\ waitingForArpReply' = [waitingForArpReply EXCEPT ![h][b] = list]
        BY <1>4, <2>2
      <4>2. started \subseteq started'
        OBVIOUS
      <4>3. QED BY <3>2, <4>1, <4>2, HostListChanges
    <3>5. QED BY <3>2, <3>3, <3>4
  <2>3. CASE wire' = taken /\ UNCHANGED <<header, arpVars>>
    <3>1. TrafficOK'
      BY <1>5, <2>3 DEF Parts, TrafficOK
    <3>2. QED BY <2>3, <3>1 DEF Parts, ArpTablesOK, ListsOK, arpVars
  <2>4. QED BY <2>1, <2>2, <2>3 DEF processARPPacket, taken
<1>7. ArrivalsOK'
  BY <1>1, <1>6, ArrivalsStay
<1>8. QED BY <1>2, <1>6, <1>7 DEF Parts

LEMMA HostKeeps ==
  ASSUME Parts, NEW f \in DOMAIN wire, NEW h \in Hosts, h \in f.on, HostReceivesPacket(h, f)
  PROVE  Parts'
<1>1. UNCHANGED <<forwardingTable, natTable, started, losses>>
  BY DEF HostReceivesPacket, rest
<1>2. IsABag(BagRemove(wire, f)) /\ DOMAIN BagRemove(wire, f) \subseteq DOMAIN wire
  BY Taken
<1>3. ASSUME wire' = BagRemove(wire, f), UNCHANGED <<header, arpVars>>, panicked' \in BOOLEAN, ArrivalsOK'
      PROVE  Parts'
  <2>1. TrafficOK' /\ NatOK' /\ ListsOK' /\ SwitchesOK' /\ ArpTablesOK'
    BY <1>1, <1>2, <1>3 DEF Parts, TrafficOK, NatOK, OnlyInsideIsMapped, ListsOK, SwitchesOK,
                            ArpTablesOK, arpVars
  <2>2. CountersOK'
    BY <1>1, <1>3 DEF Parts, CountersOK
  <2>3. QED BY <1>3, <2>1, <2>2 DEF Parts
<1>4. panicked \in BOOLEAN
  BY DEF Parts, CountersOK
<1>5. CASE /\ wire' = BagRemove(wire, f)
           /\ UNCHANGED <<header, arpVars, dataVars, panicked>>
  BY <1>1, <1>3, <1>4, <1>5, ArrivalsStay
<1>6. CASE IsArp(f.packet) /\ processARPPacket(h, f)
  BY <1>1, <1>6, HostArpKeeps
<1>7. CASE ~IsArp(f.packet) /\ processUDPPacket(h, f)
  <2>1. f.packet \in DOMAIN header
    BY <1>7, ArpIsArp DEF Parts, TrafficOK, GoodFrame
  <2>2. /\ wire' = BagRemove(wire, f) /\ UNCHANGED <<header, arpVars>>
        /\ panicked' = (header[f.packet].destinationMac = NoMac)
    BY <1>7 DEF processUDPPacket
  <2>3. panicked' \in BOOLEAN
    BY <2>2, Zenon
  <2>4. CASE processDataPacket(h, f.packet) /\ header[f.packet].destIp = ip[<<h>>]
    BY <1>1, <1>3, <2>1, <2>2, <2>3, <2>4, HostTakesData
  <2>5. CASE UNCHANGED dataVars
    BY <1>1, <1>3, <2>2, <2>3, <2>5, ArrivalsStay
  <2>6. QED BY <1>7, <2>4, <2>5 DEF processUDPPacket
<1>8. QED BY <1>5, <1>6, <1>7 DEF HostReceivesPacket


-----------------------------------------------------------------------------
\* Routers.
LEMMA ForwardingKeeps ==
  ASSUME Parts, NEW f \in DOMAIN wire, NEW r \in Routers, NEW g, NEW table, NEW lists,
         proceedAndEnqueuePacket(r, g, table, lists, BagRemove(wire, f)),
         IsFiniteSet(DOMAIN g), DOMAIN g \subseteq DOMAIN header,
         \A p \in DOMAIN g : GoodHeader(g[p]) /\ Backed(natTable, p, g[p]),
         table \in [Ips -> Mac \cup {NoMac}],
         \A a \in Ips : lists[a] \subseteq DOMAIN header /\ IsFiniteSet(lists[a]),
         UNCHANGED <<forwardingTable, started, losses>>, UNCHANGED dataVars,
         ArpTablesOK', panicked' \in BOOLEAN
  PROVE  Parts'
<1>1. IsABag(BagRemove(wire, f)) /\ DOMAIN BagRemove(wire, f) \subseteq DOMAIN wire
  BY Taken
<1>2. IInv
  BY TheParts
<1>3. /\ IsABag(wire') /\ \A m \in DOMAIN wire' : GoodFrame(m, DOMAIN header)
      /\ DOMAIN header' = DOMAIN header
      /\ \A p \in DOMAIN header : GoodHeader(header'[p]) /\ Backed(natTable', p, header'[p])
      /\ waitingForArpReply' \in [Hosts \cup Routers -> [Ips -> SUBSET (started \cup DOMAIN header)]]
      /\ \A a \in Ips :
           /\ \A h \in Hosts : waitingForArpReply'[h][a] \subseteq started
           /\ \A q \in Routers : /\ waitingForArpReply'[q][a] \subseteq DOMAIN header
                                 /\ IsFiniteSet(waitingForArpReply'[q][a])
      /\ natTable' \in [Routers -> SUBSET Ips]
      /\ \A q \in Routers : /\ natTable[q] \subseteq natTable'[q]
                            /\ \A a \in natTable'[q] : isInternalIp(a)
  BY <1>1, <1>2, Forwarded
<1>4. TrafficOK'
  BY <1>3 DEF Parts, TrafficOK
<1>5. NatOK' /\ ListsOK'
  BY <1>3 DEF NatOK, OnlyInsideIsMapped, ListsOK
<1>6. SwitchesOK' /\ CountersOK'
  <2>1. SwitchesOK'
    BY DEF Parts, SwitchesOK
  <2>2. CountersOK'
    BY DEF Parts, CountersOK
  <2>3. QED BY <2>1, <2>2
<1>7. ArrivalsOK'
  BY <1>3, ArrivalsStay
<1>8. QED BY <1>4, <1>5, <1>6, <1>7 DEF Parts

LEMMA RouterAnswers ==
  ASSUME Parts, NEW f \in DOMAIN wire, NEW r \in Routers, r \in f.on, f.packet \in ArpPacket,
         onArpRequestPacketReceived(r, f), UNCHANGED <<forwardingTable, started, losses, panicked>>,
         UNCHANGED dataVars
  PROVE  Parts'
<1> DEFINE p == f.packet
           reply == Arp("reply", MacAddress(<<r, f.on>>), p.sourceMac, p.destIp, p.sourceIp)
           frames == {Frame(r, l, reply) : l \in {f.on}}
<1>1. /\ UNCHANGED <<header, arpTable, waitingForArpReply, natTable>>
      /\ wire' = BagRemove(wire, f) (+) SetToBag(frames)
  BY DEF onArpRequestPacketReceived, Enqueued, arpVars
<1>2. f.on \in Links /\ f.on \in LinksOf(r)
  BY DEF Parts, TrafficOK, GoodFrame, LinksOf
<1>3. reply \in ArpPacket
  <2>1. p.sourceMac \in Mac /\ p.destIp \in Ips /\ p.sourceIp \in Ips
    BY DEF ArpPacket
  <2>2. MacAddress(<<r, f.on>>) \in Mac
    BY <1>2, Interfaces, NetworkAssumption
  <2>3. QED BY <2>1, <2>2, ArpPackets
<1>4. \A m \in frames : GoodFrame(m, DOMAIN header')
  BY <1>2, <1>3 DEF GoodFrame, Frame
<1> HIDE DEF frames
<1>5. IsABag(BagRemove(wire, f)) /\ DOMAIN BagRemove(wire, f) \subseteq DOMAIN wire
  BY Taken
<1>6. IsABag(wire') /\ \A m \in DOMAIN wire' : GoodFrame(m, DOMAIN header')
  BY <1>1, <1>4, <1>5, WireStep
<1>7. TrafficOK' /\ ListsOK' /\ ArpTablesOK' /\ NatOK' /\ SwitchesOK'
  BY <1>1, <1>6 DEF Parts, TrafficOK, ListsOK, ArpTablesOK, NatOK, OnlyInsideIsMapped, SwitchesOK
<1>8. CountersOK'
  BY DEF Parts, CountersOK
<1>9. ArrivalsOK'
  BY <1>1, ArrivalsStay
<1>10. QED BY <1>7, <1>8, <1>9 DEF Parts

LEMMA RouterLearns ==
  ASSUME Parts, NEW f \in DOMAIN wire, NEW r \in Routers, f.packet \in ArpPacket,
         onArpReplyPacketReceived(r, f), UNCHANGED <<forwardingTable, started, losses, panicked>>,
         UNCHANGED dataVars
  PROVE  Parts'
<1> DEFINE a == f.packet.sourceIp
           waiting == waitingForArpReply[r]
           table == [arpTable[r] EXCEPT ![a] = f.packet.sourceMac]
           g == [p \in waiting[a] |-> header[p]]
           lists == [waiting EXCEPT ![a] = {}]
<1>1. /\ arpTable' = [arpTable EXCEPT ![r] = table]
      /\ proceedAndEnqueuePacket(r, g, table, lists, BagRemove(wire, f))
  BY DEF onArpReplyPacketReceived
<1>2. a \in Ips /\ f.packet.sourceMac \in Mac
  BY DEF ArpPacket
<1>3. table \in [Ips -> Mac \cup {NoMac}] /\ ArpTablesOK'
  <2>1. arpTable \in [Hosts \cup Routers -> [Ips -> Mac \cup {NoMac}]]
    BY DEF Parts, ArpTablesOK
  <2>2. table \in [Ips -> Mac \cup {NoMac}]
    BY <1>2, <2>1
  <2> HIDE DEF table
  <2>3. QED BY <1>1, <2>1, <2>2 DEF ArpTablesOK
<1>4. \A b \in Ips : waiting[b] \subseteq DOMAIN header /\ IsFiniteSet(waiting[b])
  BY DEF Parts, ListsOK
<1>5. IsFiniteSet(DOMAIN g) /\ DOMAIN g \subseteq DOMAIN header
  BY <1>2, <1>4
<1>6. \A p \in DOMAIN g : GoodHeader(g[p]) /\ Backed(natTable, p, g[p])
  BY <1>5 DEF Parts, TrafficOK
<1>7. \A b \in Ips : lists[b] \subseteq DOMAIN header /\ IsFiniteSet(lists[b])
  <2>1. waiting \in [Ips -> SUBSET (started \cup DOMAIN header)]
    BY DEF Parts, ListsOK
  <2>2. \A b \in Ips : lists[b] = IF b = a THEN {} ELSE waiting[b]
    BY <1>2, <2>1
  <2>3. QED BY <1>4, <2>2, FiniteParts
<1>8. panicked' \in BOOLEAN
  BY DEF Parts, CountersOK
<1> HIDE DEF g, table, lists, waiting, a
<1>9. QED BY <1>1, <1>3, <1>5, <1>6, <1>7, <1>8, ForwardingKeeps

LEMMA RouterForwards ==
  ASSUME Parts, NEW f \in DOMAIN wire, NEW r \in Routers, f.packet \in DOMAIN header,
         forwardData(r, f), UNCHANGED <<forwardingTable, started, losses>>, UNCHANGED dataVars
  PROVE  Parts'
<1> DEFINE p == f.packet
           taken == BagRemove(wire, f)
           g == DecrementTTL(header[p])
           bare == [g EXCEPT !.sourceMac = NoMac, !.destinationMac = NoMac]
           matches == /\ g.ttl > 0 /\ g.destinationMac # NoMac
                      /\ g.destinationMac.interface = <<r, f.on>>
           own == g.destIp \in OwnIps(r)
           Forward(h) ==
             proceedAndEnqueuePacket(r, [q \in {p} |-> h], arpTable[r], waitingForArpReply[r], taken)
<1>1. /\ \/ matches /\ ~own /\ Forward(bare)
         \/ /\ matches /\ own /\ g.destIp = externalIP[r]
            /\ \E h \in Inbound(r, bare) : Forward(h)
         \/ /\ ~matches \/ (own /\ g.destIp # externalIP[r])
            /\ header' = [header EXCEPT ![p] = IF matches THEN bare ELSE g]
            /\ wire' = taken
            /\ UNCHANGED <<waitingForArpReply, natTable>>
      /\ panicked' = (g.ttl > 0 /\ g.destinationMac = NoMac) /\ UNCHANGED arpTable
  BY Zenon DEF forwardData
<1>2. panicked' \in BOOLEAN
  BY <1>1, Zenon
<1>3. GoodHeader(header[p]) /\ Backed(natTable, p, header[p])
  BY DEF Parts, TrafficOK
<1>4. GoodHeader(g) /\ Backed(natTable, p, g)
  <2>1. InitialTTL \in Nat
    BY NetworkAssumption
  <2>2. QED BY <1>3, <2>1 DEF DecrementTTL, GoodHeader, Header, Backed
<1> HIDE DEF g
<1>5. GoodHeader(bare) /\ Backed(natTable, p, bare) /\ bare.destIp = g.destIp
  BY <1>4 DEF GoodHeader, Header, Backed
<1>6. ArpTablesOK'
  BY <1>1 DEF Parts, ArpTablesOK
<1>7. /\ arpTable[r] \in [Ips -> Mac \cup {NoMac}]
      /\ \A b \in Ips : /\ waitingForArpReply[r][b] \subseteq DOMAIN header
                        /\ IsFiniteSet(waitingForArpReply[r][b])
  BY DEF Parts, ArpTablesOK, ListsOK
<1>8. ASSUME NEW h, GoodHeader(h), Backed(natTable, p, h), Forward(h)
      PROVE  Parts'
  <2> DEFINE G == [q \in {p} |-> h]
  <2>1. DOMAIN G = {p} /\ IsFiniteSet(DOMAIN G) /\ DOMAIN G \subseteq DOMAIN header
    BY FiniteParts
  <2>2. \A q \in DOMAIN G : GoodHeader(G[q]) /\ Backed(natTable, q, G[q])
    BY <1>8
  <2>3. proceedAndEnqueuePacket(r, G, arpTable[r], waitingForArpReply[r], BagRemove(wire, f))
    BY <1>8
  <2> HIDE DEF G
  <2>4. QED BY <1>2, <1>6, <1>7, <2>1, <2>2, <2>3, ForwardingKeeps
<1> HIDE DEF Forward, bare
<1>9. CASE matches /\ ~own /\ Forward(bare)
  BY <1>5, <1>8, <1>9
<1>10. CASE /\ matches /\ own /\ g.destIp = externalIP[r]
            /\ \E h \in Inbound(r, bare) : Forward(h)
  <2>1. PICK h \in Inbound(r, bare) : Forward(h)
    BY <1>10
  <2>2. natEnabled(r)
    <3>1. g.destIp \in Ips
      BY <1>4 DEF GoodHeader, Header
    <3>2. QED BY <1>10, <3>1, NetworkAssumption DEF natEnabled
  <2>3. IInv
    BY TheParts
  <2>4. GoodHeader(h) /\ Backed(natTable, p, h)
    BY <1>5, <1>10, <2>2, <2>3, Inbounds
  <2>5. QED BY <1>8, <2>1, <2>4
<1>11. CASE /\ header' = [header EXCEPT ![p] = IF matches THEN bare ELSE g]
            /\ wire' = taken
            /\ UNCHANGED <<waitingForArpReply, natTable>>
  <2>1. /\ DOMAIN header' = DOMAIN header
        /\ \A q \in DOMAIN header : header'[q] = header[q] \/ (q = p /\ header'[q] \in {bare, g})
    <3> HIDE DEF matches
    <3>1. QED BY <1>11
  <2>2. \A q \in DOMAIN header : GoodHeader(header'[q]) /\ Backed(natTable, q, header'[q])
    BY <1>4, <1>5, <2>1 DEF Parts, TrafficOK
  <2>3. IsABag(wire') /\ DOMAIN wire' \subseteq DOMAIN wire
    BY <1>11, Taken
  <2>4. TrafficOK'
    BY <1>11, <2>1, <2>2, <2>3 DEF Parts, TrafficOK
  <2>5. NatOK' /\ SwitchesOK' /\ ListsOK'
    BY <1>11, <2>1 DEF Parts, NatOK, OnlyInsideIsMapped, SwitchesOK, ListsOK
  <2>6. CountersOK'
    BY <1>2 DEF Parts, CountersOK
  <2>7. ArrivalsOK'
    BY <1>11, <2>1, ArrivalsStay
  <2>8. QED BY <1>6, <2>4, <2>5, <2>6, <2>7 DEF Parts
<1>12. QED BY <1>1, <1>9, <1>10, <1>11

LEMMA RouterKeeps ==
  ASSUME Parts, NEW f \in DOMAIN wire, NEW r \in Routers, r \in f.on, RouterReceivesPacket(r, f)
  PROVE  Parts'
<1>1. UNCHANGED <<forwardingTable, started, losses>> /\ UNCHANGED dataVars
  BY DEF RouterReceivesPacket, rest
<1>2. CASE f.packet \in DOMAIN header
  <2>1. ~IsArp(f.packet)
    BY <1>2, PacketFields DEF Parts, TrafficOK
  <2>2. forwardData(r, f)
    BY <2>1 DEF RouterReceivesPacket
  <2>3. QED BY <1>1, <1>2, <2>2, RouterForwards
<1>3. CASE f.packet \in ArpPacket
  <2>1. /\ onArpRequestPacketReceived(r, f) \/ onArpReplyPacketReceived(r, f)
        /\ UNCHANGED panicked
    BY <1>3, ArpIsArp DEF RouterReceivesPacket
  <2>2. QED BY <1>1, <1>3, <2>1, RouterAnswers, RouterLearns
<1>4. QED BY <1>2, <1>3 DEF Parts, TrafficOK, GoodFrame

-----------------------------------------------------------------------------
LEMMA StepKeeps == IInv /\ [Next]_vars => IInv'
<1> SUFFICES ASSUME IInv, [Next]_vars PROVE IInv'
  OBVIOUS
<1>1. Parts
  BY TheParts
<1>2. Parts'
  <2>1. ASSUME NEW d \in Datagrams, StartTraffic(d) PROVE Parts'
    BY <1>1, <2>1, StartKeeps
  <2>2. ASSUME NEW f \in DOMAIN wire, transferPacket(f) PROVE Parts'
    BY <1>1, <2>2, LossKeeps
  <2>3. ASSUME NEW f \in DOMAIN wire, NEW x \in f.on, Receives(x, f) PROVE Parts'
    BY <1>1, <2>3, SwitchKeeps, HostKeeps, RouterKeeps DEF Receives
  <2>4. CASE UNCHANGED vars
    BY <1>1, <2>4 DEF vars, Parts, TrafficOK, NatOK, OnlyInsideIsMapped, ListsOK, SwitchesOK,
                      ArpTablesOK, ArrivalsOK, CountersOK
  <2>5. QED BY <2>1, <2>2, <2>3, <2>4 DEF Next
<1>3. (IInv <=> Parts)'
  BY TheParts, PTL
<1>4. QED BY <1>2, <1>3

\* Whatever the network, the traffic and the losses, the invariant is kept.
THEOREM Invariance == Spec => []IInv
<1>1. QED BY Initially, StepKeeps, PTL DEF Spec

\* Tables, lists and headers stay well formed: lists of routers hold packets
\* whose headers exist, switches have learned links of their own, what has been
\* put on a link is on a link of the node, and no TTL grows.
THEOREM TypeCorrect == Spec => []TypeOK
<1>1. IInv => TypeOK
  BY DEF IInv
<1>2. QED BY <1>1, Invariance, PTL

\* applyNAT and its reversal are consistent: an address in a header, or of the
\* host that counts the packet, is the one the packet was sent with, or a
\* router's outside address stands for it in that router's natTable.
THEOREM TranslationsRecorded == Spec => []TranslationsAreRecorded
<1>1. IInv => TranslationsAreRecorded
  BY DEF IInv
<1>2. QED BY <1>1, Invariance, PTL
-----------------------------------------------------------------------------
\* What forwardPacket makes of the packets with the headers g, by packet: a choice
\* of route and translation for each that has a route.
Routable(r, g) == {p \in DOMAIN g : getRoute(r, g[p].destIp) # {}}
Known(table, to, p) == table[to[p].destIp] # NoMac
SendsOn(r, via, p) == Frame(r, via[p], p)
AsksFor(r, via, to, p) == Frame(r, via[p], ArpRequest(r, via[p], to[p].destIp))
Choices(r, g, via, to) ==
  \A p \in Routable(r, g) : via[p] \in getRoute(r, g[p].destIp) /\ to[p] \in Translated(r, g[p])
NewHeadersAre(r, g, table, via, to) ==
  /\ DOMAIN header' = DOMAIN header
  /\ \A p \in DOMAIN header \ DOMAIN g : header'[p] = header[p]
  /\ \A p \in DOMAIN g \ Routable(r, g) : header'[p] = g[p]
  /\ \A p \in Routable(r, g) :
       /\ Known(table, to, p) => header'[p] = AddMacHeader(r, via[p], to[p], table[to[p].destIp])
       /\ ~Known(table, to, p) => header'[p] = to[p]
NewFramesAre(r, g, table, base, via, to) ==
  /\ DOMAIN base \subseteq DOMAIN wire'
  /\ \A m \in DOMAIN wire' \ DOMAIN base : \E p \in Routable(r, g) :
       \/ Known(table, to, p) /\ m = SendsOn(r, via, p) /\ wire'[m] = 1
       \/ ~Known(table, to, p) /\ m = AsksFor(r, via, to, p)
  /\ \A m \in DOMAIN base : IsArp(m.packet) \/ wire'[m] = base[m]
                            \/ m.packet \in Routable(r, g)
  /\ \A p \in Routable(r, g) : Known(table, to, p) => SendsOn(r, via, p) \in DOMAIN wire'
NewListsAre(r, g, table, lists, via, to) ==
  /\ \A a \in Ips : waitingForArpReply'[r][a] =
       lists[a] \cup {p \in Routable(r, g) : ~Known(table, to, p) /\ to[p].destIp = a}
  /\ \A x \in (Hosts \cup Routers) \ {r} : waitingForArpReply'[x] = waitingForArpReply[x]
Outcome(r, g, table, lists, base, via, to) ==
  /\ Choices(r, g, via, to)
  /\ NewHeadersAre(r, g, table, via, to)
  /\ NewFramesAre(r, g, table, base, via, to)
  /\ NewListsAre(r, g, table, lists, via, to)

\* What is put on the links is there afterwards, and so is what was there before.
AddsUp(W, B, C) ==
  /\ DOMAIN W = DOMAIN B \cup DOMAIN C /\ IsABag(W)
  /\ \A m \in DOMAIN B \ DOMAIN C : W[m] = B[m]
  /\ \A m \in DOMAIN C \ DOMAIN B : W[m] = C[m]
LEMMA Added ==
  ASSUME NEW B, IsABag(B), NEW C, IsABag(C)
  PROVE  AddsUp(B (+) C, B, C)
  BY BagSum DEF AddsUp

LEMMA Outcomes ==
  ASSUME Parts, NEW r \in Routers, NEW g, NEW table, NEW lists, NEW base,
         proceedAndEnqueuePacket(r, g, table, lists, base),
         IsFiniteSet(DOMAIN g), DOMAIN g \subseteq DOMAIN header,
         IsABag(base), DOMAIN base \subseteq DOMAIN wire
  PROVE  \E via, to : Outcome(r, g, table, lists, base, via, to)
<1> DEFINE Routed == {p \in DOMAIN g : getRoute(r, g[p].destIp) # {}}
<1>1. PICK via \in [Routed -> Links], to \in [Routed -> UNION {Translated(r, g[p]) : p \in Routed}] :
        LET known == {p \in Routed : table[to[p].destIp] # NoMac}
            Out(p) == Frame(r, via[p], IF p \in known THEN p ELSE ArpRequest(r, via[p], to[p].destIp))
            NextHeader(p) == IF p \in known THEN AddMacHeader(r, via[p], to[p], table[to[p].destIp])
                             ELSE to[p]
        IN /\ \A p \in Routed : via[p] \in getRoute(r, g[p].destIp) /\ to[p] \in Translated(r, g[p])
           /\ wire' = base (+) [m \in {Out(p) : p \in Routed} |-> Cardinality({p \in Routed : Out(p) = m})]
           /\ header' = Overridden(Overridden(header, g), [p \in Routed |-> NextHeader(p)])
           /\ waitingForArpReply' = [waitingForArpReply EXCEPT ![r] =
                [a \in Ips |-> lists[a] \cup {p \in Routed \ known : to[p].destIp = a}]]
           /\ natTable' = [natTable EXCEPT ![r] = @ \cup Recorded(r, {g[p] : p \in Routed})]
  BY Zenon DEF proceedAndEnqueuePacket
<1> DEFINE known == {p \in Routed : table[to[p].destIp] # NoMac}
           Out(p) == Frame(r, via[p], IF p \in known THEN p ELSE ArpRequest(r, via[p], to[p].destIp))
           NextHeader(p) == IF p \in known THEN AddMacHeader(r, via[p], to[p], table[to[p].destIp])
                            ELSE to[p]
           sent == [m \in {Out(p) : p \in Routed} |-> Cardinality({p \in Routed : Out(p) = m})]
<1>2. /\ \A p \in Routed : via[p] \in getRoute(r, g[p].destIp) /\ to[p] \in Translated(r, g[p])
      /\ wire' = base (+) sent
      /\ header' = Overridden(Overridden(header, g), [p \in Routed |-> NextHeader(p)])
      /\ waitingForArpReply' = [waitingForArpReply EXCEPT ![r] =
           [a \in Ips |-> lists[a] \cup {p \in Routed \ known : to[p].destIp = a}]]
  BY <1>1
<1>3. Routable(r, g) = Routed /\ IsFiniteSet(Routed) /\ Routed \subseteq DOMAIN header
  BY FiniteParts DEF Routable
<1>4. \A p \in Routed : p \in known <=> Known(table, to, p)
  BY DEF Known
<1>5. Choices(r, g, via, to)
  BY <1>2, <1>3 DEF Choices
<1>6. NewHeadersAre(r, g, table, via, to)
  <2> HIDE DEF Routed, NextHeader, known
  <2>1. /\ DOMAIN header' = Routed \cup DOMAIN g \cup DOMAIN header
        /\ \A p \in DOMAIN header \ DOMAIN g : p \notin Routed => header'[p] = header[p]
        /\ \A p \in DOMAIN g \ Routed : header'[p] = g[p]
        /\ \A p \in Routed : header'[p] = NextHeader(p)
    BY <1>2, <1>3 DEF Overridden
  <2>2. \A p \in Routed :
          /\ p \in known => NextHeader(p) = AddMacHeader(r, via[p], to[p], table[to[p].destIp])
          /\ p \notin known => NextHeader(p) = to[p]
    BY DEF NextHeader
  <2>3. Routed \subseteq DOMAIN g
    BY DEF Routed
  <2>4. QED BY <1>3, <1>4, <2>1, <2>2, <2>3 DEF NewHeadersAre
<1>7. \A p \in Routed :
        /\ p \in known => Out(p) = SendsOn(r, via, p) /\ Out(p).packet = p /\ ~IsArp(p)
        /\ p \notin known => Out(p) = AsksFor(r, via, to, p) /\ IsArp(Out(p).packet)
  <2> SUFFICES ASSUME NEW p \in Routed
               PROVE /\ p \in known => Out(p) = SendsOn(r, via, p) /\ Out(p).packet = p /\ ~IsArp(p)
                     /\ p \notin known => Out(p) = AsksFor(r, via, to, p) /\ IsArp(Out(p).packet)
    OBVIOUS
  <2>1. ~IsArp(p)
    BY <1>3, PacketFields DEF Parts, TrafficOK
  <2>2. IsArp(ArpRequest(r, via[p], to[p].destIp))
    BY DEF ArpRequest, Arp, IsArp
  <2> HIDE DEF known, Routed
  <2>3. QED BY <2>1, <2>2 DEF Frame, SendsOn, AsksFor
<1>8. /\ DOMAIN sent = {Out(p) : p \in Routed}
      /\ \A p \in Routed : sent[Out(p)] \in Nat \ {0} /\ (p \in known => sent[Out(p)] = 1)
  <2>1. DOMAIN sent = {Out(p) : p \in Routed}
    OBVIOUS
  <2> HIDE DEF known, Routed, Out
  <2>2. ASSUME NEW p \in Routed PROVE sent[Out(p)] \in Nat \ {0} /\ (p \in known => sent[Out(p)] = 1)
    <3> DEFINE same == {q \in Routed : Out(q) = Out(p)}
    <3>1. sent[Out(p)] = Cardinality(same)
      OBVIOUS
    <3>2. p \in same /\ same \subseteq Routed
      OBVIOUS
    <3>3. p \in known => same = {p}
      <4> SUFFICES ASSUME p \in known, NEW q \in Routed, Out(q) = Out(p) PROVE q = p
        OBVIOUS
      <4>1. QED BY <1>7
    <3> HIDE DEF same, sent
    <3>4. Cardinality({p}) = 1
      BY OneElement
    <3>5. IsFiniteSet(same) /\ same # {}
      BY <1>3, <3>2, FiniteParts
    <3>6. Cardinality(same) \in Nat \ {0}
      BY <3>5, Multiplicity
    <3>7. QED BY <3>1, <3>3, <3>4, <3>6
  <2>3. QED BY <2>1, <2>2
<1>9. IsABag(sent)
  <2>1. sent = [m \in DOMAIN sent |-> sent[m]]
    OBVIOUS
  <2> HIDE DEF sent, Out, known, Routed
  <2>2. QED BY <1>8, <2>1 DEF IsABag
<1>10. NewFramesAre(r, g, table, base, via, to)
  <2>0. AddsUp(wire', base, sent)
    <3>1. wire' = base (+) sent
      BY <1>2
    <3> HIDE DEF sent
    <3>2. QED BY <1>9, <3>1, Added
  <2> HIDE DEF sent, Out, known, Routed
  <2>1. /\ DOMAIN wire' = DOMAIN base \cup DOMAIN sent
        /\ \A m \in DOMAIN base \ DOMAIN sent : wire'[m] = base[m]
        /\ \A m \in DOMAIN sent \ DOMAIN base : wire'[m] = sent[m]
    BY <2>0 DEF AddsUp
  <2>2. \A m \in DOMAIN wire' \ DOMAIN base : \E p \in Routed :
          \/ Known(table, to, p) /\ m = SendsOn(r, via, p) /\ wire'[m] = 1
          \/ ~Known(table, to, p) /\ m = AsksFor(r, via, to, p)
    BY <1>4, <1>7, <1>8, <2>1
  <2>3. \A m \in DOMAIN base : IsArp(m.packet) \/ wire'[m] = base[m] \/ m.packet \in Routed
    BY <1>7, <1>8, <2>1
  <2>4. \A p \in Routed : Known(table, to, p) => SendsOn(r, via, p) \in DOMAIN wire'
    BY <1>4, <1>7, <1>8, <2>1
  <2>5. QED BY <1>3, <2>1, <2>2, <2>3, <2>4 DEF NewFramesAre
<1>11. NewListsAre(r, g, table, lists, via, to)
  <2> DEFINE more(a) == {p \in Routed \ known : to[p].destIp = a}
  <2>1. waitingForArpReply' = [waitingForArpReply EXCEPT ![r] = [a \in Ips |-> lists[a] \cup more(a)]]
    BY <1>2
  <2>2. DOMAIN waitingForArpReply = Hosts \cup Routers
    BY DEF Parts, ListsOK
  <2>3. \A a \in Ips : more(a) = {p \in Routable(r, g) : ~Known(table, to, p) /\ to[p].destIp = a}
    BY <1>3, <1>4
  <2> HIDE DEF more
  <2>4. /\ \A a \in Ips : waitingForArpReply'[r][a] = lists[a] \cup more(a)
        /\ \A x \in (Hosts \cup Routers) \ {r} : waitingForArpReply'[x] = waitingForArpReply[x]
    BY <2>1, <2>2
  <2>5. QED BY <2>3, <2>4 DEF NewListsAre
<1>12. Outcome(r, g, table, lists, base, via, to)
  BY <1>5, <1>6, <1>10, <1>11, Zenon DEF Outcome
<1>13. QED BY <1>12, Zenon
-----------------------------------------------------------------------------
\* What a router does with a packet, in terms of Outcome.  The headers that it
\* forwards with have the addresses that the packets had, but what is for its
\* outside address may be for an inside one.
SameAddresses(r, p, h) ==
  /\ GoodHeader(h) /\ h.sourceIp = header[p].sourceIp
  /\ natEnabled(r) \/ h.destIp = header[p].destIp
\* A router does not forward what is for its outside address without translating it.
NotToItself(r, p, h) ==
  /\ natEnabled(r) /\ externalIP[r] \in OwnIps(r)
  /\ header[p].destIp = externalIP[r] => natTable[r] # {}
  => h.destIp # externalIP[r]
Answers(r, f) ==
  /\ f.packet \in ArpPacket /\ f.packet.operation = "request"
  /\ wire' = BagRemove(wire, f) (+) Enqueued(r, {f.on},
               Arp("reply", MacAddress(<<r, f.on>>), f.packet.sourceMac,
                   f.packet.destIp, f.packet.sourceIp))
  /\ UNCHANGED <<header, arpVars, natTable>>
Updated(r, f) == [arpTable[r] EXCEPT ![f.packet.sourceIp] = f.packet.sourceMac]
Waiting(r, f) == waitingForArpReply[r][f.packet.sourceIp]
Learns(r, f, via, to) ==
  /\ f.packet \in ArpPacket /\ f.packet.operation = "reply"
  /\ arpTable' = [arpTable EXCEPT ![r] = Updated(r, f)]
  /\ Outcome(r, [p \in Waiting(r, f) |-> header[p]], Updated(r, f),
             [waitingForArpReply[r] EXCEPT ![f.packet.sourceIp] = {}], BagRemove(wire, f), via, to)
Passes(r, f, h, via, to) ==
  /\ f.packet \in DOMAIN header /\ SameAddresses(r, f.packet, h) /\ UNCHANGED arpTable
  /\ NotToItself(r, f.packet, h)
  /\ Outcome(r, [q \in {f.packet} |-> h], arpTable[r], waitingForArpReply[r],
             BagRemove(wire, f), via, to)
Discards(r, f, h) ==
  /\ f.packet \in DOMAIN header /\ SameAddresses(r, f.packet, h)
  /\ header' = [header EXCEPT ![f.packet] = h] /\ wire' = BagRemove(wire, f)
  /\ UNCHANGED <<arpVars, natTable>>
Handles(r, f) ==
  \/ Answers(r, f)
  \/ \E via, to : Learns(r, f, via, to)
  \/ \E h, via, to : Passes(r, f, h, via, to)
  \/ \E h : Discards(r, f, h)

LEMMA RouterLearnsSo ==
  ASSUME Parts, NEW f \in DOMAIN wire, NEW r \in Routers, f.packet \in ArpPacket,
         f.packet.operation = "reply", onArpReplyPacketReceived(r, f)
  PROVE  \E via, to : Learns(r, f, via, to)
<1> DEFINE a == f.packet.sourceIp
           waiting == waitingForArpReply[r]
           table == [arpTable[r] EXCEPT ![a] = f.packet.sourceMac]
           g == [p \in waiting[a] |-> header[p]]
           lists == [waiting EXCEPT ![a] = {}]
<1>1. /\ arpTable' = [arpTable EXCEPT ![r] = table]
      /\ proceedAndEnqueuePacket(r, g, table, lists, BagRemove(wire, f))
  BY DEF onArpReplyPacketReceived
<1>2. a \in Ips
  BY DEF ArpPacket
<1>3. IsFiniteSet(DOMAIN g) /\ DOMAIN g \subseteq DOMAIN header
  BY <1>2 DEF Parts, ListsOK
<1>4. IsABag(BagRemove(wire, f)) /\ DOMAIN BagRemove(wire, f) \subseteq DOMAIN wire
  BY Taken
<1>5. table = Updated(r, f) /\ g = [p \in Waiting(r, f) |-> header[p]]
  BY DEF Updated, Waiting
<1>6. lists = [waitingForArpReply[r] EXCEPT ![f.packet.sourceIp] = {}]
  OBVIOUS
<1> HIDE DEF g, table, lists
<1>7. PICK via, to : Outcome(r, g, table, lists, BagRemove(wire, f), via, to)
  BY <1>1, <1>3, <1>4, Outcomes
<1>8. Learns(r, f, via, to)
  BY <1>1, <1>5, <1>6, <1>7, Zenon DEF Learns
<1>9. QED BY <1>8, Zenon

LEMMA RouterPassesSo ==
  ASSUME Parts, NEW f \in DOMAIN wire, NEW r \in Routers, f.packet \in DOMAIN header,
         forwardData(r, f)
  PROVE  \/ \E h, via, to : Passes(r, f, h, via, to)
         \/ \E h : Discards(r, f, h)
<1> DEFINE p == f.packet
           taken == BagRemove(wire, f)
           g == DecrementTTL(header[p])
           bare == [g EXCEPT !.sourceMac = NoMac, !.destinationMac = NoMac]
           matches == /\ g.ttl > 0 /\ g.destinationMac # NoMac
                      /\ g.destinationMac.interface = <<r, f.on>>
           own == g.destIp \in OwnIps(r)
           Forward(h) ==
             proceedAndEnqueuePacket(r, [q \in {p} |-> h], arpTable[r], waitingForArpReply[r], taken)
<1>1. /\ \/ matches /\ ~own /\ Forward(bare)
         \/ /\ matches /\ own /\ g.destIp = externalIP[r]
            /\ \E h \in Inbound(r, bare) : Forward(h)
         \/ /\ ~matches \/ (own /\ g.destIp # externalIP[r])
            /\ header' = [header EXCEPT ![p] = IF matches THEN bare ELSE g]
            /\ wire' = taken
            /\ UNCHANGED <<waitingForArpReply, natTable>>
      /\ UNCHANGED arpTable
  BY Zenon DEF forwardData
<1>2. GoodHeader(header[p])
  BY DEF Parts, TrafficOK
<1>3. GoodHeader(g) /\ g.sourceIp = header[p].sourceIp /\ g.destIp = header[p].destIp
  <2>1. InitialTTL \in Nat
    BY NetworkAssumption
  <2>2. QED BY <1>2, <2>1 DEF DecrementTTL, GoodHeader, Header
<1> HIDE DEF g
<1>4. GoodHeader(bare) /\ bare.sourceIp = g.sourceIp /\ bare.destIp = g.destIp
  BY <1>3 DEF GoodHeader, Header
<1>5. SameAddresses(r, p, g) /\ SameAddresses(r, p, bare)
  BY <1>3, <1>4 DEF SameAddresses
<1>6. ASSUME NEW h, SameAddresses(r, p, h), NotToItself(r, p, h), Forward(h)
      PROVE  \E via, to : Passes(r, f, h, via, to)
  <2> DEFINE G == [q \in {p} |-> h]
  <2>1. IsFiniteSet(DOMAIN G) /\ DOMAIN G \subseteq DOMAIN header
    BY FiniteParts
  <2>2. IsABag(taken) /\ DOMAIN taken \subseteq DOMAIN wire
    BY Taken
  <2>3. proceedAndEnqueuePacket(r, G, arpTable[r], waitingForArpReply[r], taken)
    BY <1>6
  <2> HIDE DEF G, taken
  <2>4. PICK via, to : Outcome(r, G, arpTable[r], waitingForArpReply[r], taken, via, to)
    BY <2>1, <2>2, <2>3, Outcomes
  <2>5. Passes(r, f, h, via, to)
    BY <1>1, <1>6, <2>4, Zenon DEF Passes, G, taken
  <2>6. QED BY <2>5, Zenon
<1> HIDE DEF Forward, bare
<1>7. CASE matches /\ ~own /\ Forward(bare)
  <2>1. NotToItself(r, p, bare)
    BY <1>3, <1>4, <1>7 DEF NotToItself
  <2>2. QED BY <1>5, <1>6, <1>7, <2>1
<1>8. CASE /\ matches /\ own /\ g.destIp = externalIP[r]
           /\ \E h \in Inbound(r, bare) : Forward(h)
  <2>1. PICK h \in Inbound(r, bare) : Forward(h)
    BY <1>8
  <2>2. natEnabled(r)
    <3>1. g.destIp \in Ips
      BY <1>3 DEF GoodHeader, Header
    <3>2. QED BY <1>8, <3>1, NetworkAssumption DEF natEnabled
  <2>3. h = bare \/ \E a \in Ips : h = [bare EXCEPT !.destIp = a]
    <3>1. natTable[r] \subseteq Ips
      BY DEF Parts, NatOK
    <3>2. QED BY <2>1, <3>1 DEF Inbound
  <2>4. SameAddresses(r, p, h)
    BY <1>4, <1>5, <2>2, <2>3 DEF SameAddresses, GoodHeader, Header
  <2>5. NotToItself(r, p, h)
    <3>1. header[p].destIp = externalIP[r] /\ ~isInternalIp(externalIP[r])
      BY <1>3, <1>8, <2>2, NatAssumption DEF natEnabled
    <3>2. \A a \in natTable[r] : isInternalIp(a)
      BY DEF Parts, NatOK, OnlyInsideIsMapped
    <3>3. natTable[r] # {} => \E a \in natTable[r] : h = [bare EXCEPT !.destIp = a]
      BY <2>1 DEF Inbound
    <3>4. \A a : [bare EXCEPT !.destIp = a].destIp = a
      BY <1>4 DEF GoodHeader, Header
    <3>5. natTable[r] # {} => isInternalIp(h.destIp)
      BY <3>2, <3>3, <3>4
    <3>6. QED BY <3>1, <3>5 DEF NotToItself
  <2>6. QED BY <1>6, <2>1, <2>4, <2>5
<1>9. CASE /\ header' = [header EXCEPT ![p] = IF matches THEN bare ELSE g]
           /\ wire' = taken
           /\ UNCHANGED <<waitingForArpReply, natTable>>
  <2> HIDE DEF matches
  <2>1. PICK h : h \in {bare, g} /\ header' = [header EXCEPT ![p] = h]
    BY <1>9
  <2>2. Discards(r, f, h)
    BY <1>1, <1>5, <1>9, <2>1 DEF Discards, arpVars
  <2>3. QED BY <2>2
<1>10. QED BY <1>1, <1>7, <1>8, <1>9

LEMMA RouterDoes ==
  ASSUME Parts, NEW f \in DOMAIN wire, NEW r \in Routers, RouterReceivesPacket(r, f)
  PROVE  Handles(r, f)
<1>1. CASE f.packet \in DOMAIN header
  <2>1. forwardData(r, f)
    BY <1>1, PacketFields DEF RouterReceivesPacket, Parts, TrafficOK
  <2>2. QED BY <1>1, <2>1, RouterPassesSo DEF Handles
<1>2. CASE f.packet \in ArpPacket
  <2>1. /\ IF f.packet.operation = "request" THEN onArpRequestPacketReceived(r, f)
           ELSE onArpReplyPacketReceived(r, f)
    BY <1>2, ArpIsArp DEF RouterReceivesPacket
  <2>2. f.packet.operation \in {"request", "reply"}
    BY <1>2 DEF ArpPacket
  <2>3. CASE f.packet.operation = "request"
    BY <1>2, <2>1, <2>3 DEF onArpRequestPacketReceived, Handles, Answers
  <2>4. CASE f.packet.operation = "reply"
    BY <1>2, <2>1, <2>4, RouterLearnsSo DEF Handles
  <2>5. QED BY <2>2, <2>3, <2>4
<1>3. QED BY <1>1, <1>2 DEF Parts, TrafficOK, GoodFrame
-----------------------------------------------------------------------------
\* Datagrams are sent once: before it is started, and while it waits at its source
\* for the address that it is for, a datagram has no headers.
Unsent(d) == Fragments({d}) \cap DOMAIN header = {}
SentOnce ==
  /\ \A d \in Datagrams \ started : Unsent(d)
  /\ \A h \in Hosts : \A a \in Ips : \A d \in waitingForArpReply[h][a] :
       d.source = h /\ d.destIp = a /\ Unsent(d)

LEMMA FragmentsApart ==
  /\ \A d, e : Fragments({d}) \cap Fragments({e}) # {} => d = e
  /\ \A D : \A d : d \notin D => Fragments({d}) \cap Fragments(D) = {}
  /\ \A D : \A p \in Fragments(D) : p \in Packets /\ p.data \in D /\ p \in Fragments({p.data})
  BY DEF Fragments

LEMMA SentOnceStays ==
  ASSUME SentOnce, DOMAIN header' = DOMAIN header, started' = started,
         \A h \in Hosts : waitingForArpReply'[h] = waitingForArpReply[h]
  PROVE  SentOnce'
  BY DEF SentOnce, Unsent

\* The headers that sending D at host h changes, and the frames it adds.
Sends(h, D, m, base) ==
  /\ DOMAIN header' = DOMAIN header \cup Fragments(D)
  /\ \A p \in Fragments(D) : header'[p] = NewHeader(p, m)
  /\ \A p \in DOMAIN header \ Fragments(D) : header'[p] = header[p]
  /\ AddsUp(wire', base, SetToBag({Frame(h, l, p) : l \in LinksOf(h), p \in Fragments(D)}))
LEMMA SendingAdds ==
  ASSUME Parts, NEW h \in Hosts, NEW D \in SUBSET Datagrams, NEW m, NEW base, IsABag(base),
         sendUDPPacket(h, D, m, base)
  PROVE  Sends(h, D, m, base)
<1> DEFINE new == [p \in Fragments(D) |-> NewHeader(p, m)]
           frames == {Frame(h, l, p) : l \in LinksOf(h), p \in Fragments(D)}
<1>1. header' = Overridden(header, new) /\ wire' = base (+) SetToBag(frames)
  BY DEF sendUDPPacket
<1>2. /\ DOMAIN header' = DOMAIN header \cup Fragments(D)
      /\ \A p \in Fragments(D) : header'[p] = NewHeader(p, m)
      /\ \A p \in DOMAIN header \ Fragments(D) : header'[p] = header[p]
  BY <1>1 DEF Overridden
<1> HIDE DEF frames
<1>3. AddsUp(wire', base, SetToBag(frames))
  BY <1>1, Added, SetIsBag
<1>4. QED BY <1>2, <1>3 DEF Sends, frames

LEMMA StartSentOnce ==
  ASSUME Parts, SentOnce, NEW d \in Datagrams, StartTraffic(d)
  PROVE  SentOnce' /\ Unsent(d)
<1> DEFINE h == d.source
<1>1. h \in Hosts /\ d.destIp \in Ips
  BY DatagramAssumption DEF Ips
<1>2. d \notin started /\ started' = started \cup {d} /\ Unsent(d)
  BY DEF StartTraffic, SentOnce
<1>3. /\ DOMAIN waitingForArpReply = Hosts \cup Routers
      /\ \A g \in Hosts : DOMAIN waitingForArpReply[g] = Ips
      /\ \A g \in Hosts : \A a \in Ips : waitingForArpReply[g][a] \subseteq started
  BY DEF Parts, ListsOK
<1>4. CASE sendUDPPacket(h, {d}, arpTable[h][d.destIp], wire) /\ UNCHANGED waitingForArpReply
  <2>1. DOMAIN header' = DOMAIN header \cup Fragments({d})
    <3>1. IsABag(wire)
      BY DEF Parts, TrafficOK
    <3>2. Sends(h, {d}, arpTable[h][d.destIp], wire)
      BY <1>1, <1>4, <3>1, SendingAdds
    <3>3. QED BY <3>2 DEF Sends
  <2>2. \A e : e # d /\ Unsent(e) => Unsent(e)'
    BY <2>1, FragmentsApart DEF Unsent
  <2>3. QED BY <1>2, <1>3, <1>4, <2>2 DEF SentOnce
<1>5. CASE /\ waitingForArpReply' = [waitingForArpReply EXCEPT ![h][d.destIp] = @ \cup {d}]
           /\ UNCHANGED header
  <2>1. \A g \in Hosts : \A a \in Ips :
          waitingForArpReply'[g][a] = IF g = h /\ a = d.destIp
                                      THEN waitingForArpReply[g][a] \cup {d}
                                      ELSE waitingForArpReply[g][a]
    BY <1>1, <1>3, <1>5
  <2>2. \A e : Unsent(e) => Unsent(e)'
    BY <1>5 DEF Unsent
  <2>3. \A e \in Datagrams \ started' : Unsent(e)'
    BY <1>2, <2>2 DEF SentOnce
  <2>4. ASSUME NEW g \in Hosts, NEW a \in Ips, NEW e \in waitingForArpReply'[g][a]
        PROVE  e.source = g /\ e.destIp = a /\ Unsent(e)'
    <3>1. CASE e \in waitingForArpReply[g][a]
      BY <2>2, <3>1 DEF SentOnce
    <3>2. CASE e = d /\ g = h /\ a = d.destIp
      BY <1>2, <2>2, <3>2
    <3>3. QED BY <2>1, <3>1, <3>2
  <2>5. QED BY <1>2, <2>3, <2>4, Zenon DEF SentOnce
<1>6. QED BY <1>2, <1>4, <1>5 DEF StartTraffic

LEMMA HostSentOnce ==
  ASSUME Parts, SentOnce, NEW f \in DOMAIN wire, NEW h \in Hosts, HostReceivesPacket(h, f)
  PROVE  SentOnce'
<1>1. UNCHANGED <<natTable, started>>
  BY DEF HostReceivesPacket, rest
<1>2. CASE UNCHANGED <<header, arpVars>>
  BY <1>1, <1>2, SentOnceStays DEF arpVars
<1> DEFINE p == f.packet
           a == p.sourceIp
           D == waitingForArpReply[h][a]
<1>3. CASE /\ p \in ArpPacket
           /\ sendUDPPacket(h, D, Copy(p.sourceMac), BagRemove(wire, f))
           /\ waitingForArpReply' = [waitingForArpReply EXCEPT ![h][a] = {}]
  <2>1. a \in Ips
    BY <1>3 DEF ArpPacket
  <2>2. D \in SUBSET Datagrams
    BY <2>1 DEF Parts, ListsOK, CountersOK
  <2>3. IsABag(BagRemove(wire, f))
    BY Taken
  <2> HIDE DEF D
  <2>4. DOMAIN header' = DOMAIN header \cup Fragments(D)
    <3>1. Sends(h, D, Copy(p.sourceMac), BagRemove(wire, f))
      BY <1>3, <2>2, <2>3, SendingAdds
    <3>2. QED BY <3>1 DEF Sends
  <2>5. \A e : e \notin D /\ Unsent(e) => Unsent(e)'
    BY <2>4, FragmentsApart DEF Unsent
  <2>6. \A g \in Hosts : \A b \in Ips :
          waitingForArpReply'[g][b] = IF g = h /\ b = a THEN {} ELSE waitingForArpReply[g][b]
    BY <1>3, <2>1 DEF Parts, ListsOK
  <2>7. \A e \in Datagrams \ started' : Unsent(e)'
    <3>1. D \subseteq started
      BY <2>1 DEF D, Parts, ListsOK
    <3>2. QED BY <1>1, <2>5, <3>1 DEF SentOnce
  <2>8. ASSUME NEW g \in Hosts, NEW b \in Ips, NEW e \in waitingForArpReply'[g][b]
        PROVE  e.source = g /\ e.destIp = b /\ Unsent(e)'
    <3>1. e \in waitingForArpReply[g][b] /\ ~(g = h /\ b = a)
      BY <2>6
    <3>2. e.source = g /\ e.destIp = b /\ Unsent(e)
      BY <3>1 DEF SentOnce
    <3>3. e \notin D
      BY <2>1, <3>1, <3>2 DEF SentOnce, D
    <3>4. QED BY <2>5, <3>2, <3>3
  <2>9. QED BY <2>7, <2>8 DEF SentOnce
<1>4. IsArp(p) => p \in ArpPacket
  BY PacketFields DEF Parts, TrafficOK, GoodFrame
<1>5. QED BY <1>2, <1>3, <1>4 DEF HostReceivesPacket, processARPPacket, processUDPPacket

LEMMA RouterSentOnce ==
  ASSUME Parts, SentOnce, NEW f \in DOMAIN wire, NEW r \in Routers, RouterReceivesPacket(r, f)
  PROVE  SentOnce' /\ DOMAIN header' = DOMAIN header
<1>1. started' = started
  BY DEF RouterReceivesPacket, rest
<1>2. \A h \in Hosts : h \in (Hosts \cup Routers) \ {r}
  BY NetworkAssumption
<1>3. ASSUME NEW g, NEW table, NEW lists, NEW base, NEW via, NEW to,
             Outcome(r, g, table, lists, base, via, to)
      PROVE  DOMAIN header' = DOMAIN header /\ \A h \in Hosts : waitingForArpReply'[h] = waitingForArpReply[h]
  BY <1>2, <1>3 DEF Outcome, NewHeadersAre, NewListsAre
<1>4. Handles(r, f)
  BY RouterDoes
<1>5. CASE Answers(r, f)
  BY <1>1, <1>5, SentOnceStays DEF Answers, arpVars
<1>6. ASSUME NEW via, NEW to, Learns(r, f, via, to)
      PROVE  SentOnce' /\ DOMAIN header' = DOMAIN header
  BY <1>1, <1>3, <1>6, SentOnceStays DEF Learns
<1>7. ASSUME NEW h, NEW via, NEW to, Passes(r, f, h, via, to)
      PROVE  SentOnce' /\ DOMAIN header' = DOMAIN header
  BY <1>1, <1>3, <1>7, SentOnceStays DEF Passes
<1>8. ASSUME NEW h, Discards(r, f, h)
      PROVE  SentOnce' /\ DOMAIN header' = DOMAIN header
  <2>1. DOMAIN header' = DOMAIN header
    BY <1>8 DEF Discards
  <2>2. QED BY <1>1, <1>8, <2>1, SentOnceStays DEF Discards, arpVars
<1>9. QED BY <1>4, <1>5, <1>6, <1>7, <1>8 DEF Handles

LEMMA StepSentOnce ==
  ASSUME Parts, SentOnce, [Next]_vars
  PROVE  SentOnce'
<1>1. ASSUME NEW f \in DOMAIN wire, transferPacket(f) PROVE SentOnce'
  <2>1. DOMAIN header' = DOMAIN header /\ started' = started /\ waitingForArpReply' = waitingForArpReply
    BY <1>1 DEF transferPacket, arpVars
  <2>2. QED BY <2>1, SentOnceStays
<1>2. ASSUME NEW f \in DOMAIN wire, NEW s \in Switches, SwitchReceivesPacket(s, f) PROVE SentOnce'
  BY <1>2, SentOnceStays DEF SwitchReceivesPacket, arpVars, rest
<1>3. CASE UNCHANGED vars
  BY <1>3, SentOnceStays DEF vars
<1>4. QED BY <1>1, <1>2, <1>3, StartSentOnce, HostSentOnce, RouterSentOnce DEF Next, Receives
-----------------------------------------------------------------------------
\* NAT hides the inside, in networks that are divided into inside and outside.
Hidden(g) == ~isInternalIp(g.sourceIp)
WireHidden(inner) ==
  \A f \in DOMAIN wire : f.packet \in DOMAIN header /\ f.on \notin inner => Hidden(header[f.packet])
ListsHidden(inner) ==
  \A r \in Routers : ~natEnabled(r) /\ LinksOf(r) \cap inner = {} =>
    \A a \in Ips : \A p \in waitingForArpReply[r][a] : Hidden(header[p])
ArrivedHidden ==
  \A h \in Hosts \ InsideHosts : \A k \in DOMAIN arrived[h] : Hidden(header[arrived[h][k]])
OutsideIsHidden(inner) == WireHidden(inner) /\ ListsHidden(inner) /\ ArrivedHidden

\* Nobody makes a source address internal again.
StaysHidden == \A p \in DOMAIN header : p \in DOMAIN header' /\ (Hidden(header[p]) => Hidden(header'[p]))

LEMMA TranslatedIs ==
  ASSUME NEW r \in Routers, NEW g, GoodHeader(g), NEW t \in Translated(r, g)
  PROVE  /\ Outward(r, g) => t.sourceIp = externalIP[r]
         /\ ~Outward(r, g) => t.sourceIp = g.sourceIp
         /\ ~natEnabled(r) => t = g
         /\ \A l, m : AddMacHeader(r, l, t, m).sourceIp = t.sourceIp
<1>1. CASE Outward(r, g)
  <2>1. t = [g EXCEPT !.sourceIp = externalIP[r]] /\ natEnabled(r)
    BY <1>1 DEF Translated, Outward
  <2>2. QED BY <1>1, <2>1 DEF GoodHeader, Header, AddMacHeader
<1>2. CASE ~Outward(r, g) /\ natEnabled(r) /\ t \in Inbound(r, g)
  <2>1. t = g \/ \E a : t = [g EXCEPT !.destIp = a]
    BY <1>2 DEF Inbound
  <2>2. QED BY <1>2, <2>1 DEF GoodHeader, Header, AddMacHeader
<1>3. CASE ~Outward(r, g) /\ t = g
  BY <1>3 DEF GoodHeader, Header, AddMacHeader
<1>4. QED BY <1>1, <1>2, <1>3 DEF Translated

\* What a host sends.
LEMMA SendingHides ==
  ASSUME Parts, NEW inner, Divided(inner), OutsideIsHidden(inner), NEW h \in Hosts, NEW D, NEW m, NEW base,
         DOMAIN base \subseteq DOMAIN wire, Sends(h, D, m, base),
         \A d \in D : d.source = h /\ Unsent(d)
  PROVE  StaysHidden /\ WireHidden(inner)'
<1>1. \A p \in Fragments(D) : p \notin DOMAIN header /\ p.data.source = h
  <2> TAKE p \in Fragments(D)
  <2>1. p.data \in D /\ p \in Fragments({p.data})
    BY FragmentsApart
  <2>2. p.data.source = h /\ Unsent(p.data)
    BY <2>1
  <2>3. QED BY <2>1, <2>2 DEF Unsent
<1>2. \A p \in DOMAIN header : p \in DOMAIN header' /\ header'[p] = header[p]
  BY <1>1 DEF Sends
<1>3. ASSUME NEW f \in DOMAIN wire', f.packet \in DOMAIN header', f.on \notin inner
      PROVE  Hidden(header'[f.packet])
  <2>1. CASE f \in DOMAIN base
    <3>1. f.packet \in DOMAIN header
      BY <1>3, <2>1, ArpIsArp, PacketFields DEF Parts, TrafficOK, GoodFrame, Sends, Fragments
    <3>2. QED BY <1>2, <1>3, <2>1, <3>1 DEF OutsideIsHidden, WireHidden
  <2>2. CASE f \in DOMAIN SetToBag({Frame(h, l, p) : l \in LinksOf(h), p \in Fragments(D)})
    <3>1. PICK l \in LinksOf(h), p \in Fragments(D) : f = Frame(h, l, p)
      BY <2>2, SetIsBag
    <3>2. f.on = l /\ f.packet = p /\ header'[p] = NewHeader(p, m) /\ p.data.source = h
      BY <1>1, <3>1 DEF Frame, Sends
    <3>3. ~isInternalIp(ip[<<h>>])
      BY <1>3, <3>2 DEF Divided
    <3>4. QED BY <3>2, <3>3 DEF Hidden, NewHeader
  <2>3. QED BY <2>1, <2>2 DEF Sends, AddsUp
<1>4. QED BY <1>2, <1>3 DEF StaysHidden, WireHidden

\* What has been counted stays hidden, and so does what waits.
LEMMA RestHides ==
  ASSUME Parts, NEW inner, OutsideIsHidden(inner), StaysHidden, UNCHANGED arrived
  PROVE  /\ ArrivedHidden'
         /\ UNCHANGED waitingForArpReply => ListsHidden(inner)'
<1>1. \A h \in Hosts : \A k \in DOMAIN arrived[h] : arrived[h][k] \in DOMAIN header
  BY DEF Parts, ArrivalsOK
<1>2. \A r \in Routers : \A a \in Ips : waitingForArpReply[r][a] \subseteq DOMAIN header
  BY DEF Parts, ListsOK
<1>3. QED BY <1>1, <1>2 DEF OutsideIsHidden, ArrivedHidden, ListsHidden, StaysHidden

LEMMA StartHides ==
  ASSUME Parts, SentOnce, NEW inner, Divided(inner), OutsideIsHidden(inner),
         NEW d \in Datagrams, StartTraffic(d)
  PROVE  OutsideIsHidden(inner)'
<1> DEFINE h == d.source
<1>1. h \in Hosts /\ d.destIp \in Ips /\ Unsent(d) /\ UNCHANGED arrived
  BY DatagramAssumption, StartSentOnce DEF Ips, StartTraffic, dataVars
<1>2. IsABag(wire)
  BY DEF Parts, TrafficOK
<1>3. CASE sendUDPPacket(h, {d}, arpTable[h][d.destIp], wire) /\ UNCHANGED waitingForArpReply
  <2>1. Sends(h, {d}, arpTable[h][d.destIp], wire)
    BY <1>1, <1>2, <1>3, SendingAdds
  <2>2. StaysHidden /\ WireHidden(inner)'
    BY <1>1, <2>1, SendingHides
  <2>3. QED BY <1>1, <1>3, <2>2, RestHides DEF OutsideIsHidden
<1>4. CASE /\ wire' = wire (+) SetToBag({Frame(h, l, ArpRequest(h, l, d.destIp)) : l \in LinksOf(h)})
           /\ waitingForArpReply' = [waitingForArpReply EXCEPT ![h][d.destIp] = @ \cup {d}]
           /\ UNCHANGED header
  <2> DEFINE asks == {Frame(h, l, ArpRequest(h, l, d.destIp)) : l \in LinksOf(h)}
  <2>1. StaysHidden
    BY <1>4 DEF StaysHidden
  <2>2. \A f \in asks : f.packet \notin DOMAIN header
    <3>1. \A p \in DOMAIN header : ~IsArp(p)
      BY PacketFields DEF Parts, TrafficOK
    <3>2. QED BY <3>1 DEF Frame, ArpRequest, Arp, IsArp
  <2> HIDE DEF asks
  <2>3. DOMAIN wire' = DOMAIN wire \cup asks
    <3>1. wire' = wire (+) SetToBag(asks)
      BY <1>4 DEF asks
    <3>2. AddsUp(wire', wire, SetToBag(asks))
      BY <1>2, <3>1, Added, SetIsBag
    <3>3. QED BY <3>2, SetIsBag DEF AddsUp
  <2>4. WireHidden(inner)'
    BY <1>4, <2>2, <2>3 DEF OutsideIsHidden, WireHidden
  <2>5. \A r \in Routers : waitingForArpReply'[r] = waitingForArpReply[r]
    BY <1>1, <1>4, NetworkAssumption DEF Parts, ListsOK
  <2>6. ListsHidden(inner)'
    BY <1>4, <2>5 DEF OutsideIsHidden, ListsHidden
  <2>7. QED BY <1>1, <2>1, <2>4, <2>6, RestHides DEF OutsideIsHidden
<1>5. QED BY <1>3, <1>4 DEF StartTraffic

LEMMA LossHides ==
  ASSUME Parts, NEW inner, OutsideIsHidden(inner), NEW f \in DOMAIN wire, transferPacket(f)
  PROVE  OutsideIsHidden(inner)'
<1>1. UNCHANGED arrived /\ UNCHANGED waitingForArpReply
  BY DEF transferPacket, dataVars, arpVars
<1>2. StaysHidden /\ WireHidden(inner)'
  <2>1. CASE IsArp(f.packet)
    <3>1. PICK copies \in SUBSET {g \in DOMAIN wire : g.packet = f.packet} :
            wire' = (wire (-) SetToBag(copies)) (+)
              SetToBag({Frame(g.from, g.on, [f.packet EXCEPT !.lost = TRUE]) : g \in copies})
      BY <2>1 DEF transferPacket
    <3> DEFINE base == wire (-) SetToBag(copies)
               marked == {Frame(g.from, g.on, [f.packet EXCEPT !.lost = TRUE]) : g \in copies}
    <3>2. IsABag(base) /\ DOMAIN base \subseteq DOMAIN wire
      BY BagDifference DEF Parts, TrafficOK
    <3>3. \A m \in marked : m.packet \notin DOMAIN header
      <4>1. f.packet \in ArpPacket
        BY <2>1, PacketFields DEF Parts, TrafficOK, GoodFrame
      <4>2. [f.packet EXCEPT !.lost = TRUE] \in ArpPacket
        BY <4>1 DEF ArpPacket
      <4>3. [f.packet EXCEPT !.lost = TRUE] \notin DOMAIN header
        BY <4>2, ArpIsArp, PacketFields DEF Parts, TrafficOK
      <4>4. \A x, l : Frame(x, l, [f.packet EXCEPT !.lost = TRUE]).packet = [f.packet EXCEPT !.lost = TRUE]
        BY DEF Frame
      <4>5. QED BY <4>3, <4>4, Zenon
    <3>4. wire' = base (+) SetToBag(marked)
      BY <3>1
    <3> HIDE DEF base, marked
    <3>5. AddsUp(wire', base, SetToBag(marked))
      BY <3>2, <3>4, Added, SetIsBag
    <3>6. DOMAIN wire' \subseteq DOMAIN wire \cup marked
      BY <3>2, <3>5, SetIsBag DEF AddsUp
    <3>7. header' = header
      BY <2>1 DEF transferPacket
    <3>8. QED BY <3>3, <3>6, <3>7 DEF OutsideIsHidden, WireHidden, StaysHidden
  <2>2. CASE ~IsArp(f.packet)
    <3>1. wire' = wire /\ header' = [header EXCEPT ![f.packet].lost = TRUE]
      BY <2>2 DEF transferPacket
    <3>2. DOMAIN header' = DOMAIN header
      BY <3>1
    <3>3. \A p \in DOMAIN header : header'[p] = header[p] \/ header'[p] = [header[p] EXCEPT !.lost = TRUE]
      BY <3>1
    <3>4. \A p \in DOMAIN header : header'[p].sourceIp = header[p].sourceIp
      BY <3>3 DEF Parts, TrafficOK, GoodHeader, Header
    <3>5. QED BY <3>1, <3>2, <3>4 DEF OutsideIsHidden, WireHidden, StaysHidden, Hidden
  <2>3. QED BY <2>1, <2>2
<1>3. QED BY <1>1, <1>2, RestHides DEF OutsideIsHidden

LEMMA SwitchHides ==
  ASSUME Parts, NEW inner, Divided(inner), OutsideIsHidden(inner), NEW f \in DOMAIN wire,
         NEW s \in Switches, s \in f.on, SwitchReceivesPacket(s, f)
  PROVE  OutsideIsHidden(inner)'
<1>1. UNCHANGED <<header, arrived, waitingForArpReply>>
  BY DEF SwitchReceivesPacket, arpVars, dataVars
<1>2. f.on \in LinksOf(s)
  BY DEF Parts, TrafficOK, GoodFrame, LinksOf
<1>3. IsABag(BagRemove(wire, f)) /\ DOMAIN BagRemove(wire, f) \subseteq DOMAIN wire
  BY Taken
<1>4. \A m \in DOMAIN wire' : m \in DOMAIN wire \/ (m.on \in LinksOf(s) /\ m.packet = f.packet)
  <2>1. CASE wire' = BagRemove(wire, f)
    BY <1>3, <2>1
  <2>2. CASE wire' = BagRemove(wire, f) (+) forwardPacket(s, f, Learned(s, f))
    <3>1. PICK ls : forwardPacket(s, f, Learned(s, f)) = SetToBag({Frame(s, l, f.packet) : l \in ls})
                    /\ ls \subseteq LinksOf(s)
      <4>1. HeaderOf(f.packet).destinationMac \in DOMAIN Learned(s, f) =>
              Learned(s, f)[HeaderOf(f.packet).destinationMac] \in LinksOf(s)
        BY <1>2 DEF Learned, Overridden, Parts, SwitchesOK
      <4>2. QED BY <4>1 DEF forwardPacket, Enqueued
    <3> DEFINE out == {Frame(s, l, f.packet) : l \in ls}
    <3>2. wire' = BagRemove(wire, f) (+) SetToBag(out)
      BY <2>2, <3>1
    <3>3. \A m \in out : m.on \in LinksOf(s) /\ m.packet = f.packet
      BY <3>1 DEF Frame
    <3> HIDE DEF out
    <3>4. AddsUp(wire', BagRemove(wire, f), SetToBag(out))
      BY <1>3, <3>2, Added, SetIsBag
    <3>5. QED BY <1>3, <3>3, <3>4, SetIsBag DEF AddsUp
  <2>3. QED BY <2>1, <2>2 DEF SwitchReceivesPacket
<1>5. LinksOf(s) \subseteq inner \/ LinksOf(s) \cap inner = {}
  BY DEF Divided
<1>6. WireHidden(inner)'
  BY <1>1, <1>2, <1>4, <1>5 DEF OutsideIsHidden, WireHidden
<1>7. StaysHidden
  BY <1>1 DEF StaysHidden
<1>8. QED BY <1>1, <1>6, <1>7, RestHides DEF OutsideIsHidden

LEMMA HostHides ==
  ASSUME Parts, SentOnce, NEW inner, Divided(inner), OutsideIsHidden(inner), NEW f \in DOMAIN wire,
         NEW h \in Hosts, h \in f.on, HostReceivesPacket(h, f)
  PROVE  OutsideIsHidden(inner)'
<1> DEFINE p == f.packet
           taken == BagRemove(wire, f)
           D == waitingForArpReply[h][p.sourceIp]
<1>1. IsABag(taken) /\ DOMAIN taken \subseteq DOMAIN wire
  BY Taken
<1>2. GoodFrame(f, DOMAIN header) /\ DOMAIN header \subseteq Packets
  BY DEF Parts, TrafficOK
<1>3. f.on \in LinksOf(h)
  BY <1>2 DEF GoodFrame, LinksOf
<1>4. CASE DOMAIN wire' \subseteq DOMAIN wire /\ UNCHANGED <<header, arpVars>> /\ UNCHANGED arrived
  <2>1. StaysHidden /\ WireHidden(inner)'
    BY <1>4 DEF StaysHidden, WireHidden, OutsideIsHidden
  <2>2. QED BY <1>4, <2>1, RestHides DEF OutsideIsHidden, arpVars
<1>5. CASE /\ wire' = taken (+) Enqueued(h, LinksOf(h), Arp("reply", MacAddress(<<h>>), p.sourceMac, ip[<<h>>], p.sourceIp))
           /\ UNCHANGED <<header, arpVars, arrived>>
  <2> DEFINE a == Arp("reply", MacAddress(<<h>>), p.sourceMac, ip[<<h>>], p.sourceIp)
             out == {Frame(h, l, a) : l \in LinksOf(h)}
  <2>1. a \notin DOMAIN header
    <3>1. IsArp(a)
      BY DEF Arp, IsArp
    <3>2. QED BY <1>2, <3>1, PacketFields
  <2>2. \A m \in out : m.packet = a
    BY DEF Frame
  <2>3. wire' = taken (+) SetToBag(out)
    BY <1>5 DEF Enqueued
  <2> HIDE DEF out, a, taken
  <2>4. AddsUp(wire', taken, SetToBag(out))
    BY <1>1, <2>3, Added, SetIsBag
  <2>5. DOMAIN wire' \subseteq DOMAIN wire \cup out
    BY <1>1, <2>4, SetIsBag DEF AddsUp
  <2>6. StaysHidden /\ WireHidden(inner)'
    BY <1>5, <2>1, <2>2, <2>5 DEF StaysHidden, WireHidden, OutsideIsHidden
  <2>7. QED BY <1>5, <2>6, RestHides DEF OutsideIsHidden, arpVars
<1>6. CASE /\ p \in ArpPacket /\ UNCHANGED arrived
           /\ sendUDPPacket(h, D, Copy(p.sourceMac), taken)
           /\ waitingForArpReply' = [waitingForArpReply EXCEPT ![h][p.sourceIp] = {}]
  <2>1. p.sourceIp \in Ips
    BY <1>6 DEF ArpPacket
  <2>2. D \in SUBSET Datagrams
    BY <2>1 DEF Parts, ListsOK, CountersOK
  <2>3. \A d \in D : d.source = h /\ Unsent(d)
    BY <2>1 DEF SentOnce
  <2> HIDE DEF D, taken
  <2>4. Sends(h, D, Copy(p.sourceMac), taken)
    BY <1>1, <1>6, <2>2, SendingAdds
  <2>5. StaysHidden /\ WireHidden(inner)'
    BY <1>1, <2>3, <2>4, SendingHides
  <2>6. \A r \in Routers : waitingForArpReply'[r] = waitingForArpReply[r]
    BY <1>6, NetworkAssumption DEF Parts, ListsOK
  <2>7. ListsHidden(inner)'
    <3>1. \A r \in Routers : \A a \in Ips : waitingForArpReply[r][a] \subseteq DOMAIN header
      BY DEF Parts, ListsOK
    <3>2. QED BY <2>5, <2>6, <3>1 DEF OutsideIsHidden, ListsHidden, StaysHidden
  <2>8. QED BY <1>6, <2>5, <2>7, RestHides DEF OutsideIsHidden
<1>7. CASE /\ p \in DOMAIN header /\ wire' = taken /\ UNCHANGED <<header, arpVars>>
           /\ arrived' = [arrived EXCEPT ![h] = Append(@, p)]
  <2>1. WireHidden(inner)' /\ ListsHidden(inner)'
    BY <1>1, <1>7 DEF OutsideIsHidden, WireHidden, ListsHidden, arpVars
  <2>2. h \notin InsideHosts => Hidden(header[p])
    BY <1>3, <1>7 DEF Divided, OutsideIsHidden, WireHidden
  <2>3. ASSUME NEW g \in Hosts \ InsideHosts, NEW k \in DOMAIN arrived'[g]
        PROVE  Hidden(header[arrived'[g][k]])
    <3>1. arrived \in [Hosts -> Seq(DOMAIN header)]
      BY DEF Parts, ArrivalsOK
    <3>2. CASE g # h
      BY <1>7, <2>3, <3>1, <3>2 DEF OutsideIsHidden, ArrivedHidden
    <3>3. CASE g = h
      <4>1. arrived'[h] = Append(arrived[h], p) /\ arrived[h] \in Seq(DOMAIN header)
        BY <1>7, <3>1
      <4>2. arrived'[h][k] = p \/ (k \in DOMAIN arrived[h] /\ arrived'[h][k] = arrived[h][k])
        BY <1>7, <2>3, <3>3, <4>1
      <4>3. QED BY <2>2, <2>3, <3>3, <4>2 DEF OutsideIsHidden, ArrivedHidden
    <3>4. QED BY <3>2, <3>3
  <2>4. QED BY <1>7, <2>1, <2>3 DEF OutsideIsHidden, ArrivedHidden
<1>8. CASE HeaderOf(p).lost /\ wire' = taken /\ UNCHANGED <<header, arpVars, dataVars, panicked>>
  BY <1>1, <1>4, <1>8 DEF dataVars
<1>9. CASE IsArp(p) /\ processARPPacket(h, f)
  <2>1. p \in ArpPacket
    BY <1>2, <1>9, PacketFields DEF GoodFrame
  <2>2. UNCHANGED arrived
    BY <1>9 DEF processARPPacket, dataVars
  <2>3. QED BY <1>1, <1>4, <1>5, <1>6, <1>9, <2>1, <2>2 DEF processARPPacket
<1>10. CASE ~IsArp(p) /\ processUDPPacket(h, f)
  <2>1. p \in DOMAIN header
    BY <1>2, <1>10, ArpIsArp DEF GoodFrame
  <2>2. wire' = taken /\ UNCHANGED <<header, arpVars>>
    BY <1>10 DEF processUDPPacket
  <2>3. arrived' = arrived \/ arrived' = [arrived EXCEPT ![h] = Append(@, p)]
    BY <1>10 DEF processUDPPacket, processDataPacket, dataVars
  <2>4. QED BY <1>1, <1>4, <1>7, <2>1, <2>2, <2>3
<1>11. QED BY <1>8, <1>9, <1>10 DEF HostReceivesPacket

-----------------------------------------------------------------------------
\* What a router does.
LEMMA OutcomeHides ==
  ASSUME Parts, NEW inner, Divided(inner), OutsideIsHidden(inner), NEW r \in Routers,
         NEW g, NEW table, NEW lists, NEW base, NEW via, NEW to,
         Outcome(r, g, table, lists, base, via, to), UNCHANGED arrived,
         DOMAIN base \subseteq DOMAIN wire, DOMAIN g \subseteq DOMAIN header,
         \A p \in DOMAIN g : GoodHeader(g[p]) /\ (Hidden(header[p]) => Hidden(g[p])),
         \A p \in DOMAIN g : ~natEnabled(r) /\ LinksOf(r) \cap inner = {} => Hidden(g[p]),
         \A a \in Ips : lists[a] \subseteq waitingForArpReply[r][a]
  PROVE  OutsideIsHidden(inner)'
<1> DEFINE Routed == Routable(r, g)
<1>1. /\ \A p \in Routed : p \in DOMAIN g /\ p \in DOMAIN header /\ p \in Packets
      /\ \A p \in Routed : via[p] \in getRoute(r, g[p].destIp) /\ to[p] \in Translated(r, g[p])
  BY DEF Outcome, Choices, Routable, Parts, TrafficOK
<1>2. \A p \in Routed : header'[p].sourceIp = to[p].sourceIp
  <2> TAKE p \in Routed
  <2>1. \A l, m : AddMacHeader(r, l, to[p], m).sourceIp = to[p].sourceIp
    BY <1>1, TranslatedIs
  <2>2. header'[p] = to[p] \/ header'[p] = AddMacHeader(r, via[p], to[p], table[to[p].destIp])
    BY DEF Outcome, NewHeadersAre
  <2>3. QED BY <2>1, <2>2
<1>3. \A p \in Routed : /\ Outward(r, g[p]) => Hidden(header'[p])
                        /\ Hidden(g[p]) => Hidden(header'[p])
                        /\ ~natEnabled(r) => header'[p].sourceIp = g[p].sourceIp
  <2> TAKE p \in Routed
  <2>1. /\ Outward(r, g[p]) => to[p].sourceIp = externalIP[r]
        /\ ~Outward(r, g[p]) => to[p].sourceIp = g[p].sourceIp
        /\ ~natEnabled(r) => to[p] = g[p]
    BY <1>1, TranslatedIs
  <2>2. Outward(r, g[p]) => natEnabled(r) /\ ~isInternalIp(externalIP[r])
    BY NatAssumption DEF Outward, natEnabled
  <2>3. QED BY <1>2, <2>1, <2>2 DEF Hidden
<1>4. StaysHidden
  <2>1. DOMAIN header' = DOMAIN header
    BY DEF Outcome, NewHeadersAre
  <2>2. ASSUME NEW p \in DOMAIN header, Hidden(header[p]) PROVE Hidden(header'[p])
    <3>1. CASE p \in Routed
      BY <1>1, <1>3, <2>2, <3>1
    <3>2. CASE p \in DOMAIN g \ Routed
      BY <2>2, <3>2 DEF Outcome, NewHeadersAre
    <3>3. CASE p \notin DOMAIN g
      BY <2>2, <3>3 DEF Outcome, NewHeadersAre
    <3>4. QED BY <1>1, <3>1, <3>2, <3>3
  <2>3. QED BY <2>1, <2>2 DEF StaysHidden
<1>5. WireHidden(inner)'
  <2> SUFFICES ASSUME NEW f \in DOMAIN wire', f.packet \in DOMAIN header', f.on \notin inner
               PROVE  Hidden(header'[f.packet])
    BY DEF WireHidden
  <2>0. f.packet \in DOMAIN header /\ f.packet \in Packets
    BY DEF Outcome, NewHeadersAre, Parts, TrafficOK
  <2>1. CASE f \in DOMAIN base
    BY <1>4, <2>0, <2>1 DEF OutsideIsHidden, WireHidden, StaysHidden
  <2>2. CASE f \notin DOMAIN base
    <3>1. PICK p \in Routed : f = SendsOn(r, via, p) \/ f = AsksFor(r, via, to, p)
      BY <2>2 DEF Outcome, NewFramesAre
    <3>2. f = SendsOn(r, via, p)
      <4>1. IsArp(AsksFor(r, via, to, p).packet)
        BY DEF AsksFor, Frame, ArpRequest, Arp, IsArp
      <4>2. QED BY <2>0, <3>1, <4>1, PacketFields
    <3>3. f.packet = p /\ f.on = via[p]
      BY <3>2 DEF SendsOn, Frame
    <3>4. via[p] \in LinksOf(r)
      <4>1. \A a : getRoute(r, a) \subseteq LinksOf(r)
        BY NetworkAssumption DEF getRoute
      <4>2. QED BY <1>1, <4>1
    <3>5. CASE natEnabled(r)
      <4>1. g[p].destIp \in Ips
        BY <1>1 DEF GoodHeader, Header
      <4>2. ~isInternalIp(g[p].destIp)
        BY <1>1, <3>3, <3>5, <4>1 DEF Divided
      <4>3. Outward(r, g[p]) \/ Hidden(g[p])
        BY <3>5, <4>2 DEF Outward, Hidden
      <4>4. QED BY <1>3, <3>3, <4>3
    <3>6. CASE ~natEnabled(r)
      <4>1. LinksOf(r) \cap inner = {}
        BY <3>3, <3>4, <3>6 DEF Divided
      <4>2. QED BY <1>1, <1>3, <3>3, <3>6, <4>1
    <3>7. QED BY <3>5, <3>6
  <2>3. QED BY <2>1, <2>2
<1>6. ListsHidden(inner)'
  <2> SUFFICES ASSUME NEW q \in Routers, ~natEnabled(q), LinksOf(q) \cap inner = {}, NEW a \in Ips,
                      NEW p \in waitingForArpReply'[q][a]
               PROVE  Hidden(header'[p])
    BY DEF ListsHidden, natEnabled
  <2>1. \A p1 \in waitingForArpReply[q][a] : p1 \in DOMAIN header /\ Hidden(header[p1])
    BY DEF OutsideIsHidden, ListsHidden, Parts, ListsOK
  <2>2. p \in waitingForArpReply[q][a] \/ (q = r /\ p \in Routed)
    BY DEF Outcome, NewListsAre
  <2>3. CASE p \in waitingForArpReply[q][a]
    BY <1>4, <2>1, <2>3 DEF StaysHidden
  <2>4. CASE q = r /\ p \in Routed
    BY <1>1, <1>3, <2>4
  <2>5. QED BY <2>2, <2>3, <2>4
<1>7. QED BY <1>4, <1>5, <1>6, RestHides DEF OutsideIsHidden

LEMMA RouterHides ==
  ASSUME Parts, NEW inner, Divided(inner), OutsideIsHidden(inner), NEW f \in DOMAIN wire,
         NEW r \in Routers, r \in f.on, RouterReceivesPacket(r, f)
  PROVE  OutsideIsHidden(inner)'
<1> DEFINE p == f.packet
           taken == BagRemove(wire, f)
<1>1. IsABag(taken) /\ DOMAIN taken \subseteq DOMAIN wire
  BY Taken
<1>2. UNCHANGED arrived
  BY DEF RouterReceivesPacket, dataVars
<1>3. f.on \in LinksOf(r)
  BY DEF Parts, TrafficOK, GoodFrame, LinksOf
<1>4. p \in DOMAIN header /\ LinksOf(r) \cap inner = {} => Hidden(header[p])
  BY <1>3 DEF OutsideIsHidden, WireHidden
<1> HIDE DEF taken
<1>5. CASE Answers(r, f)
  <2> DEFINE a == Arp("reply", MacAddress(<<r, f.on>>), p.sourceMac, p.destIp, p.sourceIp)
             out == {Frame(r, l, a) : l \in {f.on}}
  <2>1. a \notin DOMAIN header
    <3>1. IsArp(a)
      BY DEF Arp, IsArp
    <3>2. QED BY <3>1, PacketFields DEF Parts, TrafficOK
  <2>2. \A m \in out : m.packet = a
    BY DEF Frame
  <2>3. wire' = taken (+) SetToBag(out)
    BY <1>5 DEF Enqueued, Answers, taken
  <2> HIDE DEF out, a
  <2>4. AddsUp(wire', taken, SetToBag(out))
    BY <1>1, <2>3, Added, SetIsBag
  <2>5. DOMAIN wire' \subseteq DOMAIN wire \cup out
    BY <1>1, <2>4, SetIsBag DEF AddsUp
  <2>6. UNCHANGED <<header, waitingForArpReply>>
    BY <1>5 DEF Answers, arpVars
  <2>7. StaysHidden /\ WireHidden(inner)'
    BY <2>1, <2>2, <2>5, <2>6 DEF StaysHidden, WireHidden, OutsideIsHidden
  <2>8. QED BY <1>2, <2>6, <2>7, RestHides DEF OutsideIsHidden
<1>6. ASSUME NEW via, NEW to, Learns(r, f, via, to) PROVE OutsideIsHidden(inner)'
  <2> DEFINE g == [q \in Waiting(r, f) |-> header[q]]
             table == Updated(r, f)
             lists == [waitingForArpReply[r] EXCEPT ![p.sourceIp] = {}]
  <2>1. p.sourceIp \in Ips
    BY <1>6 DEF Learns, ArpPacket
  <2>2. Outcome(r, g, table, lists, taken, via, to)
    BY <1>6 DEF Learns, taken
  <2>3. DOMAIN g = Waiting(r, f) /\ Waiting(r, f) \subseteq DOMAIN header
    BY <2>1 DEF Parts, ListsOK, Waiting
  <2>4. \A q \in DOMAIN g : g[q] = header[q] /\ GoodHeader(header[q])
    BY <2>3 DEF Parts, TrafficOK
  <2>5. \A q \in DOMAIN g : ~natEnabled(r) /\ LinksOf(r) \cap inner = {} => Hidden(g[q])
    BY <2>1, <2>3, <2>4 DEF OutsideIsHidden, ListsHidden, Waiting
  <2>6. \A a \in Ips : lists[a] \subseteq waitingForArpReply[r][a]
    BY DEF Parts, ListsOK
  <2> HIDE DEF g, table, lists
  <2>7. QED BY <1>1, <1>2, <2>2, <2>3, <2>4, <2>5, <2>6, OutcomeHides
<1>7. ASSUME NEW h, NEW via, NEW to, Passes(r, f, h, via, to) PROVE OutsideIsHidden(inner)'
  <2> DEFINE g == [q \in {p} |-> h]
  <2>1. p \in DOMAIN header /\ GoodHeader(h) /\ h.sourceIp = header[p].sourceIp
    BY <1>7 DEF Passes, SameAddresses
  <2>2. Outcome(r, g, arpTable[r], waitingForArpReply[r], taken, via, to)
    BY <1>7 DEF Passes, taken
  <2>3. DOMAIN g \subseteq DOMAIN header
    BY <2>1
  <2>4. \A q \in DOMAIN g : GoodHeader(g[q]) /\ (Hidden(header[q]) => Hidden(g[q]))
    BY <2>1 DEF Hidden
  <2>5. \A q \in DOMAIN g : ~natEnabled(r) /\ LinksOf(r) \cap inner = {} => Hidden(g[q])
    BY <1>4, <2>1 DEF Hidden
  <2>6. \A a \in Ips : waitingForArpReply[r][a] \subseteq waitingForArpReply[r][a]
    OBVIOUS
  <2> HIDE DEF g
  <2>7. QED BY <1>1, <1>2, <2>2, <2>3, <2>4, <2>5, <2>6, OutcomeHides
<1>8. ASSUME NEW h, Discards(r, f, h) PROVE OutsideIsHidden(inner)'
  <2>1. /\ p \in DOMAIN header /\ h.sourceIp = header[p].sourceIp
        /\ header' = [header EXCEPT ![p] = h] /\ wire' = taken /\ UNCHANGED waitingForArpReply
    BY <1>8 DEF Discards, SameAddresses, arpVars, taken
  <2>2. \A q \in DOMAIN header : q \in DOMAIN header' /\ header'[q].sourceIp = header[q].sourceIp
    BY <2>1
  <2>3. StaysHidden
    BY <2>2 DEF StaysHidden, Hidden
  <2>4. WireHidden(inner)'
    BY <1>1, <2>1, <2>2 DEF WireHidden, OutsideIsHidden, Hidden
  <2>5. QED BY <1>2, <2>1, <2>3, <2>4, RestHides DEF OutsideIsHidden
<1>9. Handles(r, f)
  BY RouterDoes
<1>10. QED BY <1>5, <1>6, <1>7, <1>8, <1>9 DEF Handles

-----------------------------------------------------------------------------
LEMMA StepHides ==
  ASSUME Parts, SentOnce, NEW inner, Divided(inner), OutsideIsHidden(inner), [Next]_vars
  PROVE  OutsideIsHidden(inner)'
<1>1. CASE UNCHANGED vars
  BY <1>1 DEF vars, OutsideIsHidden, WireHidden, ListsHidden, ArrivedHidden
<1>2. CASE \E d \in Datagrams : StartTraffic(d)
  BY <1>2, StartHides
<1>3. CASE \E f \in DOMAIN wire : transferPacket(f)
  BY <1>3, LossHides
<1>4. ASSUME NEW f \in DOMAIN wire, NEW x \in f.on, Receives(x, f) PROVE OutsideIsHidden(inner)'
  BY <1>4, SwitchHides, HostHides, RouterHides DEF Receives
<1>5. QED BY <1>1, <1>2, <1>3, <1>4 DEF Next

LEMMA StartsHidden ==
  ASSUME Init, NEW inner
  PROVE  SentOnce /\ OutsideIsHidden(inner)
<1>1. DOMAIN wire = {} /\ DOMAIN header = {} /\ arrived = [h \in Hosts |-> <<>>]
  BY DEF Init, EmptyBag, SetToBag
<1>2. waitingForArpReply = [x \in Hosts \cup Routers |-> [a \in Ips |-> {}]]
  BY DEF Init
<1>3. SentOnce
  BY <1>1, <1>2 DEF SentOnce, Unsent
<1>4. WireHidden(inner) /\ ListsHidden(inner) /\ ArrivedHidden
  BY <1>1, <1>2 DEF WireHidden, ListsHidden, ArrivedHidden
<1>5. QED BY <1>3, <1>4 DEF OutsideIsHidden

\* What is hidden, and backed by a router's natTable, is what that router stands for.
LEMMA HiddenStandsFor ==
  ASSUME Parts, TranslationsAreRecorded, NEW inner, Divided(inner), OutsideIsHidden(inner)
  PROVE  NatHidesInside
<1> SUFFICES ASSUME NEW h \in Hosts \ InsideHosts, NEW k \in DOMAIN arrived[h],
                    arrived[h][k].data.source \in InsideHosts
             PROVE  StandsFor(header[arrived[h][k]].sourceIp, ip[<<arrived[h][k].data.source>>])
  BY DEF NatHidesInside, StandsFor
<1> DEFINE p == arrived[h][k]
<1>1. p \in DOMAIN header
  BY DEF Parts, ArrivalsOK
<1>2. Hidden(header[p]) /\ isInternalIp(ip[<<p.data.source>>])
  BY DEF OutsideIsHidden, ArrivedHidden, Divided
<1>3. QED BY <1>1, <1>2 DEF TranslationsAreRecorded, Hidden

\* Where a network is divided into inside and outside, nothing shows an inside
\* address outside: what arrives there from inside has the outside address of a
\* router that has recorded the inside one (router.go: applyNAT).
THEOREM InsideIsHidden ==
  ASSUME NEW inner \in SUBSET Links, Divided(inner)
  PROVE  Spec => []NatHidesInside
<1>1. Init => SentOnce /\ OutsideIsHidden(inner)
  BY StartsHidden
<1>2. IInv /\ SentOnce /\ OutsideIsHidden(inner) /\ [Next]_vars => (SentOnce /\ OutsideIsHidden(inner))'
  BY TheParts, StepSentOnce, StepHides
<1>3. IInv /\ OutsideIsHidden(inner) => NatHidesInside
  BY TheParts, HiddenStandsFor DEF IInv
<1>4. QED BY <1>1, <1>2, <1>3, Invariance, PTL DEF Spec
-----------------------------------------------------------------------------
\* Assembling, where no packet arrives twice.
NoDuplicates ==
  \A h \in Hosts : \A j, k \in DOMAIN arrived[h] : arrived[h][j] = arrived[h][k] => j = k
IsLast(p) == p.fragment = p.data.fragments
Complete(d) == {h \in Hosts : Cardinality(Places(d, h)) = d.fragments /\ LastCameLast(d, h)}

\* All fragments but last ones are stored, and reassembled counts the complete.
StoredAndCounted ==
  /\ \A h \in Hosts : fragmentedPackets[h] = {p \in {arrived[h][k] : k \in DOMAIN arrived[h]} : ~IsLast(p)}
  /\ \A d \in Datagrams : IsFiniteSet(Complete(d)) /\ reassembled[d] = Cardinality(Complete(d))

LEMMA SamePacket ==
  ASSUME NEW p \in Packets, NEW q \in Packets, p.data = q.data, p.fragment = q.fragment
  PROVE  p = q
  BY DEF Packets

LEMMA FragmentNumbers ==
  ASSUME NEW p \in Packets
  PROVE  p.data.fragments \in Nat /\ p.fragment \in 1 .. p.data.fragments
<1>1. PICK d \in Datagrams : \E k \in 1 .. d.fragments : p = [data |-> d, fragment |-> k]
  BY DEF Packets
<1>2. d.fragments \in Nat
  BY DatagramAssumption
<1>3. p.data = d /\ p.fragment \in 1 .. d.fragments
  BY <1>1
<1>4. QED BY <1>2, <1>3

LEMMA Numbers ==
  ASSUME NEW n \in Nat
  PROVE  IsFiniteSet(1 .. n) /\ Cardinality(1 .. n) = n
<1>1. 1 \in Int /\ n \in Int /\ 1 <= n + 1 /\ n - 1 + 1 = n
  OBVIOUS
<1>2. IsFiniteSet(1 .. n) /\ (1 <= n + 1 => Cardinality(1 .. n) = n - 1 + 1)
  BY <1>1, IntervalCount
<1>3. QED BY <1>1, <1>2

\* What has come of a datagram is finite, and no more than it has fragments.
LEMMA PlacesCount ==
  ASSUME NEW h \in Hosts, arrived[h] \in Seq(Packets), NEW d \in Datagrams,
         \A j, k \in DOMAIN arrived[h] : arrived[h][j] = arrived[h][k] => j = k
  PROVE  /\ IsFiniteSet(Places(d, h)) /\ Cardinality(Places(d, h)) \in Nat
         /\ Cardinality(Places(d, h)) <= d.fragments
<1> DEFINE f == [k \in DOMAIN arrived[h] |-> arrived[h][k].fragment]
<1>1. \A k \in Places(d, h) : f[k] \in 1 .. d.fragments /\ d.fragments \in Nat
  BY FragmentNumbers DEF Places
<1>2. \A j, k \in Places(d, h) : f[j] = f[k] => j = k
  BY SamePacket DEF Places
<1>3. d.fragments \in Nat
  BY DatagramAssumption
<1>4. IsFiniteSet(1 .. d.fragments) /\ Cardinality(1 .. d.fragments) = d.fragments
  BY <1>3, Numbers
<1> HIDE DEF f
<1>5. IsFiniteSet(Places(d, h)) /\ Cardinality(Places(d, h)) <= Cardinality(1 .. d.fragments)
  BY <1>1, <1>2, <1>4, InjectionCount
<1>6. QED BY <1>4, <1>5, Counting

\* Host h takes packet p, as the last of those that have come.
LEMMA Takes ==
  ASSUME Parts, StoredAndCounted, NEW h \in Hosts, NEW p \in DOMAIN header,
         processDataPacket(h, p), NoDuplicates, NoDuplicates'
  PROVE  StoredAndCounted'
<1> DEFINE d == p.data
           n == Len(arrived[h]) + 1
           stored == {q \in fragmentedPackets[h] : q.data = d}
           P(e, g) == Places(e, g)
<1>1. /\ p \in Packets /\ d \in Datagrams /\ d.fragments \in Nat
      /\ arrived[h] \in Seq(Packets) /\ n \in Nat
  <2>1. arrived[h] \in Seq(DOMAIN header) /\ DOMAIN header \subseteq Packets
    BY DEF Parts, TrafficOK, ArrivalsOK
  <2>2. \A s \in Seq(DOMAIN header) : s \in Seq(Packets)
    BY <2>1
  <2>3. p \in Packets /\ d \in Datagrams
    BY <2>1, PacketFields
  <2>4. d.fragments \in Nat
    BY <2>3, DatagramAssumption
  <2>5. n \in Nat /\ arrived[h] \in Seq(Packets)
    BY <2>1, <2>2
  <2>6. QED BY <2>3, <2>4, <2>5
<1>2. /\ DOMAIN arrived[h] = 1 .. n - 1 /\ DOMAIN arrived'[h] = 1 .. n /\ arrived'[h][n] = p
      /\ \A k \in 1 .. n - 1 : arrived'[h][k] = arrived[h][k]
      /\ \A g \in Hosts \ {h} : arrived'[g] = arrived[g]
  <2>1. arrived' = [arrived EXCEPT ![h] = Append(arrived[h], p)] /\ DOMAIN arrived = Hosts
    BY DEF processDataPacket, Parts, ArrivalsOK
  <2>2. arrived'[h] = Append(arrived[h], p) /\ \A g \in Hosts \ {h} : arrived'[g] = arrived[g]
    BY <2>1
  <2>3. QED BY <1>1, <2>2
<1>3. \A k \in 1 .. n - 1 : arrived[h][k] # p
  <2> SUFFICES ASSUME NEW k \in 1 .. n - 1, arrived[h][k] = p PROVE FALSE
    OBVIOUS
  <2>1. arrived'[h][k] = arrived'[h][n] /\ k \in DOMAIN arrived'[h] /\ n \in DOMAIN arrived'[h] /\ k # n
    BY <1>1, <1>2
  <2>2. QED BY <2>1 DEF NoDuplicates
<1>4. /\ Places(d, h)' = Places(d, h) \cup {n} /\ n \notin Places(d, h)
      /\ \A e, g : g \in Hosts /\ (e # d \/ g # h) => Places(e, g)' = Places(e, g)
  <2>1. Places(d, h)' = Places(d, h) \cup {n} /\ n \notin Places(d, h)
    BY <1>1, <1>2 DEF Places
  <2>2. \A e : e # d => Places(e, h)' = Places(e, h)
    BY <1>1, <1>2 DEF Places
  <2>3. \A e : \A g \in Hosts \ {h} : Places(e, g)' = Places(e, g)
    BY <1>2 DEF Places
  <2>4. QED BY <2>1, <2>2, <2>3
<1>5. \A e \in Datagrams : \A g \in Hosts : (e # d \/ g # h) =>
        /\ (Cardinality(Places(e, g)) = e.fragments)' <=> (Cardinality(Places(e, g)) = e.fragments)
        /\ LastCameLast(e, g)' <=> LastCameLast(e, g)
  <2> SUFFICES ASSUME NEW e \in Datagrams, NEW g \in Hosts, e # d \/ g # h
               PROVE  /\ (Cardinality(Places(e, g)) = e.fragments)' <=> (Cardinality(Places(e, g)) = e.fragments)
                      /\ LastCameLast(e, g)' <=> LastCameLast(e, g)
    OBVIOUS
  <2>1. Places(e, g)' = Places(e, g)
    BY <1>4
  <2>2. \A k \in Places(e, g) : arrived'[g][k] = arrived[g][k]
    BY <1>2 DEF Places
  <2>3. QED BY <2>1, <2>2 DEF LastCameLast
<1>6. LastCameLast(d, h)' <=> IsLast(p)
  <2>1. \A k \in Places(d, h)' : k <= n /\ (k # n => k < n)
    BY <1>1, <1>2 DEF Places
  <2>2. n \in Places(d, h)' /\ arrived'[h][n] = p
    BY <1>2, <1>4
  <2>3. \A k \in Places(d, h)' : k # n => ~(n <= k)
    BY <1>1, <1>2 DEF Places
  <2>4. QED BY <2>1, <2>2, <2>3 DEF LastCameLast, IsLast
<1>7. /\ IsFiniteSet(Places(d, h)) /\ Cardinality(Places(d, h)) \in Nat
      /\ Cardinality(Places(d, h)') = Cardinality(Places(d, h)) + 1
      /\ Cardinality(Places(d, h)') <= d.fragments
  <2>1. IsFiniteSet(Places(d, h)) /\ Cardinality(Places(d, h)) \in Nat
    BY <1>1, PlacesCount DEF NoDuplicates
  <2>2. Cardinality(Places(d, h)') = Cardinality(Places(d, h)) + 1
    BY <1>4, <2>1, OneMoreElement
  <2>3. (arrived[h] \in Seq(Packets))'
    <3>1. arrived' = [arrived EXCEPT ![h] = Append(arrived[h], p)] /\ DOMAIN arrived = Hosts
      BY DEF processDataPacket, Parts, ArrivalsOK
    <3>2. QED BY <1>1, <3>1
  <2>4. (\A j, k \in DOMAIN arrived[h] : arrived[h][j] = arrived[h][k] => j = k)'
    BY DEF NoDuplicates
  <2>5. Cardinality(Places(d, h)') <= d.fragments
    <3> DEFINE f == [k \in DOMAIN arrived'[h] |-> arrived'[h][k].fragment]
    <3>1. \A k \in Places(d, h)' : f[k] \in 1 .. d.fragments
      BY <2>3, FragmentNumbers DEF Places
    <3>2. \A j, k \in Places(d, h)' : f[j] = f[k] => j = k
      BY <2>3, <2>4, SamePacket DEF Places
    <3>3. IsFiniteSet(1 .. d.fragments) /\ Cardinality(1 .. d.fragments) = d.fragments
      BY <1>1, Numbers
    <3> HIDE DEF f
    <3> DEFINE S == Places(d, h)'
               T == 1 .. d.fragments
    <3>4. (\A k \in S : f[k] \in T) /\ IsFiniteSet(T) /\ Cardinality(T) = d.fragments
      BY <3>1, <3>3
    <3>5. \A j, k \in S : f[j] = f[k] => j = k
      BY <3>2
    <3> HIDE DEF S, T
    <3>6. Cardinality(S) <= Cardinality(T)
      BY <3>4, <3>5, InjectionCount
    <3>7. QED BY <3>4, <3>6 DEF S
  <2>6. QED BY <2>1, <2>2, <2>5
<1>8. h \notin Complete(d)
  BY <1>1, <1>7 DEF Complete
<1>9. fragmentedPackets'[h] = {q \in {arrived'[h][k] : k \in DOMAIN arrived'[h]} : ~IsLast(q)}
  <2>1. fragmentedPackets' = IF IsLast(p) THEN fragmentedPackets
                             ELSE [fragmentedPackets EXCEPT ![h] = @ \cup {p}]
    BY DEF processDataPacket, IsLast
  <2>2. fragmentedPackets'[h] = fragmentedPackets[h] \cup {q \in {p} : ~IsLast(q)}
    BY <2>1 DEF Parts, ArrivalsOK
  <2>3. {arrived'[h][k] : k \in DOMAIN arrived'[h]} = {arrived[h][k] : k \in DOMAIN arrived[h]} \cup {p}
    BY <1>1, <1>2
  <2>4. fragmentedPackets[h] = {q \in {arrived[h][k] : k \in DOMAIN arrived[h]} : ~IsLast(q)}
    BY DEF StoredAndCounted
  <2>5. QED BY <2>2, <2>3, <2>4
<1>10. \A g \in Hosts \ {h} : fragmentedPackets'[g] = {q \in {arrived'[g][k] : k \in DOMAIN arrived'[g]} : ~IsLast(q)}
  <2>1. \A g \in Hosts \ {h} : fragmentedPackets'[g] = fragmentedPackets[g]
    BY DEF processDataPacket, Parts, ArrivalsOK
  <2>2. QED BY <1>2, <2>1 DEF StoredAndCounted
<1>11. \A e \in Datagrams \ {d} : Complete(e)' = Complete(e)
  BY <1>5 DEF Complete
<1>12. /\ \A g \in Hosts \ {h} : g \in Complete(d)' <=> g \in Complete(d)
       /\ h \in Complete(d)' <=> IsLast(p) /\ Cardinality(Places(d, h)) = d.fragments - 1
  <2>1. \A g \in Hosts \ {h} : g \in Complete(d)' <=> g \in Complete(d)
    BY <1>1, <1>5 DEF Complete
  <2>2. h \in Complete(d)' <=> IsLast(p) /\ Cardinality(Places(d, h)') = d.fragments
    BY <1>6 DEF Complete
  <2>3. QED BY <1>1, <1>7, <2>1, <2>2
<1>13. Complete(d)' = IF IsLast(p) /\ Cardinality(Places(d, h)) = d.fragments - 1
                      THEN Complete(d) \cup {h} ELSE Complete(d)
  <2>1. Complete(d) \subseteq Hosts /\ Complete(d)' \subseteq Hosts
    BY DEF Complete
  <2>2. QED BY <1>8, <1>12, <2>1
<1>14. IsLast(p) => Cardinality(stored) = Cardinality(Places(d, h))
  <2> SUFFICES ASSUME IsLast(p) PROVE Cardinality(stored) = Cardinality(Places(d, h))
    OBVIOUS
  <2> DEFINE s == arrived[h]
  <2>1. \A k \in Places(d, h) : ~IsLast(s[k])
    <3> TAKE k \in Places(d, h)
    <3>1. k \in 1 .. n - 1 /\ s[k] \in Packets /\ s[k].data = d
      BY <1>1, <1>2 DEF Places
    <3>2. QED BY <1>1, <1>3, <3>1, SamePacket DEF IsLast
  <2>2. fragmentedPackets[h] = {q \in {s[k] : k \in DOMAIN s} : ~IsLast(q)}
    BY DEF StoredAndCounted
  <2>3. stored = {s[k] : k \in Places(d, h)}
    BY <2>1, <2>2 DEF Places
  <2>4. \A j, k \in Places(d, h) : s[j] = s[k] => j = k
    BY DEF Places, NoDuplicates
  <2> HIDE DEF stored, s
  <2>5. Cardinality({s[k] : k \in Places(d, h)}) = Cardinality(Places(d, h))
    BY <1>7, <2>4, ImageCount
  <2>6. QED BY <2>3, <2>5
<1>15. /\ IsFiniteSet(Complete(d)) /\ reassembled[d] = Cardinality(Complete(d)) /\ reassembled[d] \in Nat
  BY <1>1 DEF StoredAndCounted, Parts, ArrivalsOK
<1>16. reassembled' = IF IsLast(p) /\ Cardinality(stored) = d.fragments - 1
                      THEN [reassembled EXCEPT ![d] = @ + 1] ELSE reassembled
  BY DEF processDataPacket, IsLast
<1> HIDE DEF stored
<1>17. IsFiniteSet(Complete(d)') /\ reassembled'[d] = Cardinality(Complete(d)')
  <2>1. CASE IsLast(p) /\ Cardinality(Places(d, h)) = d.fragments - 1
    <3>1. Complete(d)' = Complete(d) \cup {h}
      BY <1>13, <2>1
    <3>2. reassembled'[d] = reassembled[d] + 1
      BY <1>1, <1>14, <1>16, <2>1 DEF Parts, ArrivalsOK
    <3>3. QED BY <1>8, <1>15, <3>1, <3>2, OneMoreElement
  <2>2. CASE ~(IsLast(p) /\ Cardinality(Places(d, h)) = d.fragments - 1)
    BY <1>13, <1>14, <1>15, <1>16, <2>2
  <2>3. QED BY <2>1, <2>2
<1>18. \A e \in Datagrams \ {d} : reassembled'[e] = reassembled[e]
  BY <1>16 DEF Parts, ArrivalsOK
<1>19. QED BY <1>9, <1>10, <1>11, <1>17, <1>18 DEF StoredAndCounted

LEMMA ArrivedBy ==
  ASSUME Parts, [Next]_vars
  PROVE  UNCHANGED dataVars \/ \E h \in Hosts : \E p \in DOMAIN header : processDataPacket(h, p)
<1>1. ASSUME NEW f \in DOMAIN wire, NEW h \in Hosts, HostReceivesPacket(h, f)
      PROVE  UNCHANGED dataVars \/ \E p \in DOMAIN header : processDataPacket(h, p)
  <2>1. ~IsArp(f.packet) => f.packet \in DOMAIN header
    BY ArpIsArp DEF Parts, TrafficOK, GoodFrame
  <2>2. QED BY <1>1, <2>1 DEF HostReceivesPacket, processARPPacket, processUDPPacket
<1>2. QED BY <1>1 DEF Next, Receives, StartTraffic, transferPacket, SwitchReceivesPacket,
                      RouterReceivesPacket, vars, dataVars

LEMMA StepCounts ==
  ASSUME Parts, NoDuplicates => StoredAndCounted, [Next]_vars
  PROVE  (NoDuplicates => StoredAndCounted)'
<1>1. CASE UNCHANGED dataVars
  <2>1. arrived' = arrived /\ fragmentedPackets' = fragmentedPackets /\ reassembled' = reassembled
    BY <1>1 DEF dataVars
  <2>2. \A e, g : Places(e, g)' = Places(e, g) /\ (LastCameLast(e, g)' <=> LastCameLast(e, g))
    BY <2>1 DEF Places, LastCameLast
  <2>3. \A e : Complete(e)' = Complete(e)
    BY <2>2 DEF Complete
  <2>4. QED BY <2>1, <2>3 DEF NoDuplicates, StoredAndCounted
<1>2. ASSUME NEW h \in Hosts, NEW p \in DOMAIN header, processDataPacket(h, p), NoDuplicates'
      PROVE  StoredAndCounted'
  <2>1. NoDuplicates
    <3>1. arrived \in [Hosts -> Seq(DOMAIN header)] /\ arrived' = [arrived EXCEPT ![h] = Append(@, p)]
      BY <1>2 DEF Parts, ArrivalsOK, processDataPacket
    <3>2. \A g \in Hosts : \A k \in DOMAIN arrived[g] : k \in DOMAIN arrived'[g] /\ arrived'[g][k] = arrived[g][k]
      <4> TAKE g \in Hosts
      <4>1. arrived[g] \in Seq(DOMAIN header) /\ (arrived'[g] = arrived[g] \/ arrived'[g] = Append(arrived[g], p))
        BY <3>1
      <4>2. QED BY <4>1
    <3>3. QED BY <1>2, <3>2 DEF NoDuplicates
  <2>2. QED BY <1>2, <2>1, Takes
<1>3. QED BY <1>1, <1>2, ArrivedBy

LEMMA StartsCounted ==
  ASSUME Init
  PROVE  StoredAndCounted
<1>1. /\ arrived = [h \in Hosts |-> <<>>] /\ fragmentedPackets = [h \in Hosts |-> {}]
      /\ reassembled = [d \in Datagrams |-> 0]
  BY DEF Init
<1>2. \A d \in Datagrams : Complete(d) = {}
  <2>1. \A d \in Datagrams : \A h \in Hosts : Places(d, h) = {}
    BY <1>1 DEF Places
  <2>2. QED BY <2>1 DEF Complete, LastCameLast
<1>3. IsFiniteSet({}) /\ Cardinality({}) = 0
  BY FiniteParts, Counting
<1>4. \A h \in Hosts : fragmentedPackets[h] = {p \in {arrived[h][k] : k \in DOMAIN arrived[h]} : ~IsLast(p)}
  <2> SUFFICES ASSUME NEW h \in Hosts
               PROVE  fragmentedPackets[h] = {p \in {arrived[h][k] : k \in DOMAIN arrived[h]} : ~IsLast(p)}
    OBVIOUS
  <2>1. arrived[h] = <<>> /\ fragmentedPackets[h] = {}
    BY <1>1
  <2>2. {arrived[h][k] : k \in DOMAIN arrived[h]} = {}
    BY <2>1
  <2>3. QED BY <2>1, <2>2
<1>5. \A d \in Datagrams : reassembled[d] = 0
  BY <1>1
<1>6. \A d \in Datagrams : IsFiniteSet(Complete(d)) /\ reassembled[d] = Cardinality(Complete(d))
  BY <1>2, <1>3, <1>5
<1>7. QED BY <1>4, <1>6 DEF StoredAndCounted

\* As long as no packet has arrived twice, hosts put data together exactly if all
\* fragments have come and the last fragment came last, whatever the network does to
\* their order (handleUDP.go: fragments are stored, and counted when the last one
\* arrives).
THEOREM AssembledWhereNothingCameTwice == Spec => [](NoDuplicates => AssembledIfLastCameLast)
<1>1. Init => (NoDuplicates => StoredAndCounted)
  BY StartsCounted
<1>2. IInv /\ (NoDuplicates => StoredAndCounted) /\ [Next]_vars => (NoDuplicates => StoredAndCounted)'
  BY TheParts, StepCounts
<1>3. StoredAndCounted => AssembledIfLastCameLast
  BY DEF StoredAndCounted, AssembledIfLastCameLast, Complete
<1>4. (NoDuplicates => StoredAndCounted) => (NoDuplicates => AssembledIfLastCameLast)
  BY <1>3
<1>5. QED BY <1>1, <1>2, <1>4, Invariance, PTL DEF Spec
-----------------------------------------------------------------------------
\* Networks without loops of switches, where nothing is copied.  The theorems at the
\* end are about those that these two constants describe.
CONSTANTS Side, Calm

OnSide(x, l, m) == \E i \in Side[x][l] : m = MacAddress(i)

\* A packet comes from where its source is.  A request and its reply are about an
\* address that is over that link, as far as a router without NAT is concerned; a
\* reply goes where the requester is, and data does not go back.  A switch in Calm
\* has learned where replies and data go.
FromThere(f) ==
  LET m == HeaderOf(f.packet).sourceMac
  IN /\ Forwards(f.from, f.on) /\ OnSide(f.from, f.on, m)
     /\ f.from \in Switches => m \in DOMAIN forwardingTable[f.from]
AsksOverRoute(mac, a) ==
  \A r \in Routers : \A l \in LinksOf(r) : ~natEnabled(r) /\ mac = MacAddress(<<r, l>>) => l \in getRoute(r, a)
RequestOK(p) == p.destinationMac = Broadcast /\ AsksOverRoute(p.sourceMac, p.destIp)
Expected(f, m) == \A x \in f.on \ {f.from} : x \in Calm => m \in DOMAIN forwardingTable[x]
ReplyOK(f) ==
  /\ \A x \in f.on \ {f.from} : OnSide(x, f.on, f.packet.destinationMac)
  /\ Expected(f, f.packet.destinationMac)
  /\ AsksOverRoute(f.packet.destinationMac, f.packet.sourceIp)
DataOK(f) ==
  /\ ~OnSide(f.from, f.on, header[f.packet].destinationMac)
  /\ Expected(f, header[f.packet].destinationMac)
FrameOK(f) ==
  /\ FromThere(f)
  /\ IsArp(f.packet) /\ f.packet.operation = "request" => RequestOK(f.packet)
  /\ IsArp(f.packet) /\ f.packet.operation = "reply" => ReplyOK(f)
  /\ ~IsArp(f.packet) => DataOK(f)
FramesOK == \A f \in DOMAIN wire : FrameOK(f)

\* A table leads to where the station is, and further tables lead on.
TablesOK ==
  \A s \in Switches : \A m \in DOMAIN forwardingTable[s] : \A y \in forwardingTable[s][m] \ {s} :
    /\ Forwards(y, forwardingTable[s][m]) /\ OnSide(y, forwardingTable[s][m], m)
    /\ y \in Switches => m \in DOMAIN forwardingTable[y]

\* A router knows MAC addresses of others, and the switches in Calm next to it have
\* learned them; what a host knows are copies.
LeadsOn(r, a, m) ==
  m # NoMac =>
    /\ \A l \in LinksOf(r) : m # MacAddress(<<r, l>>)
    /\ ~natEnabled(r) =>
         \A l \in getRoute(r, a) : \A s \in l \ {r} : s \in Calm => m \in DOMAIN forwardingTable[s]
EntryOK(r, a) == LeadsOn(r, a, arpTable[r][a])
EntriesOK ==
  /\ \A r \in Routers : \A a \in Ips : EntryOK(r, a)
  /\ \A h \in Hosts : \A a \in Ips : arpTable[h][a] # NoMac => arpTable[h][a].copy

-----------------------------------------------------------------------------
LEMMA MacAddresses ==
  /\ \A i, j : MacAddress(i) = MacAddress(j) => i = j
  /\ \A i : ~MacAddress(i).copy
  /\ \A m \in Mac : Copy(m).copy
<1>1. \A i : MacAddress(i).interface = i /\ ~MacAddress(i).copy
  BY DEF MacAddress
<1>2. \A m \in Mac : Copy(m).copy
  BY DEF Mac, Copy
<1>3. QED BY <1>1, <1>2

\* A station is on one side of a link only, and nobody is Broadcast.
LEMMA Apart ==
  ASSUME LoopFree(Side), NEW l \in Links, NEW x \in l, NEW y \in l, x # y, Forwards(x, l),
         NEW m, OnSide(x, l, m)
  PROVE  ~OnSide(y, l, m)
<1>1. Side[x][l] \cap Side[y][l] = {}
  BY DEF LoopFree
<1>2. QED BY <1>1, MacAddresses DEF OnSide

LEMMA Somebody ==
  ASSUME LoopFree(Side), NEW l \in Links, NEW x \in l, NEW m, OnSide(x, l, m)
  PROVE  m # Broadcast
<1>1. \A y \in Hosts \cup Routers : \A k : Interface(y, k) # <<>>
  BY DEF Interface
<1>2. <<>> \notin Side[x][l]
  BY <1>1 DEF LoopFree
<1>3. QED BY <1>2, MacAddresses DEF OnSide, Broadcast

LEMMA TheOther ==
  ASSUME LoopFree(Side), NEW l \in Links, NEW x \in l
  PROVE  \E y \in l \ {x} : l = {x, y} /\ l \ {x} = {y}
  BY DEF LoopFree

\* No packet is addressed to where it comes from.
LEMMA GoesAway ==
  ASSUME Parts, LoopFree(Side), NEW f \in DOMAIN wire, FrameOK(f)
  PROVE  ~OnSide(f.from, f.on, HeaderOf(f.packet).destinationMac)
<1>1. f.on \in Links /\ f.from \in f.on /\ f.packet \in DOMAIN header \cup ArpPacket
  BY DEF Parts, TrafficOK, GoodFrame
<1>2. CASE IsArp(f.packet) /\ f.packet.operation = "request"
  BY <1>1, <1>2, Somebody DEF FrameOK, RequestOK, HeaderOf
<1>3. CASE IsArp(f.packet) /\ f.packet.operation = "reply"
  <2>1. PICK x \in f.on \ {f.from} : TRUE
    BY <1>1, TheOther
  <2>2. OnSide(x, f.on, f.packet.destinationMac) /\ Forwards(f.from, f.on)
    BY <1>3, <2>1 DEF FrameOK, ReplyOK, FromThere
  <2>3. QED BY <1>1, <1>3, <2>1, <2>2, Apart DEF HeaderOf
<1>4. CASE ~IsArp(f.packet)
  BY <1>4 DEF FrameOK, DataOK, HeaderOf
<1>5. IsArp(f.packet) => f.packet \in ArpPacket
  BY <1>1, PacketFields DEF Parts, TrafficOK
<1>6. QED BY <1>2, <1>3, <1>4, <1>5 DEF ArpPacket

-----------------------------------------------------------------------------
\* Tables that grow leave frames as they should be, if headers do not change.
Grown == \A s \in Switches : DOMAIN forwardingTable[s] \subseteq DOMAIN forwardingTable'[s]
SameMacs(p) ==
  header'[p].sourceMac = header[p].sourceMac /\ header'[p].destinationMac = header[p].destinationMac

LEMMA FrameStays ==
  ASSUME Grown, Uncopied(Side, Calm), NEW f, FrameOK(f), ~IsArp(f.packet) => SameMacs(f.packet)
  PROVE  FrameOK(f)'
<1>1. HeaderOf(f.packet)'.sourceMac = HeaderOf(f.packet).sourceMac
  BY DEF HeaderOf, SameMacs
<1>2. FromThere(f)'
  BY <1>1 DEF Grown, FrameOK, FromThere
<1>3. \A m : Expected(f, m) => Expected(f, m)'
  BY DEF Expected, Grown, Uncopied
<1>4. IsArp(f.packet) /\ f.packet.operation = "reply" => ReplyOK(f)'
  BY <1>3 DEF FrameOK, ReplyOK
<1>5. ~IsArp(f.packet) => DataOK(f)'
  BY <1>3 DEF FrameOK, DataOK, SameMacs, Expected
<1>6. QED BY <1>2, <1>4, <1>5 DEF FrameOK

LEMMA EntriesStay ==
  ASSUME Grown, Uncopied(Side, Calm), EntriesOK, UNCHANGED arpTable
  PROVE  EntriesOK'
  BY DEF EntriesOK, EntryOK, LeadsOn, Grown, Uncopied

LEMMA TablesStay ==
  ASSUME TablesOK, UNCHANGED forwardingTable
  PROVE  TablesOK' /\ Grown
  BY DEF TablesOK, Grown

\* A switch learns.
LEMMA SwitchLearns ==
  ASSUME Parts, LoopFree(Side), TablesOK, NEW f \in DOMAIN wire, FrameOK(f), NEW s \in Switches,
         s \in f.on, s # f.from, forwardingTable' = [forwardingTable EXCEPT ![s] = Learned(s, f)]
  PROVE  TablesOK' /\ Grown
<1> DEFINE m == HeaderOf(f.packet).sourceMac
<1>1. /\ DOMAIN Learned(s, f) = DOMAIN forwardingTable[s] \cup {m} /\ Learned(s, f)[m] = f.on
      /\ \A n \in DOMAIN forwardingTable[s] \ {m} : Learned(s, f)[n] = forwardingTable[s][n]
  BY DEF Learned, Overridden
<1>2. /\ forwardingTable'[s] = Learned(s, f)
      /\ \A t \in Switches \ {s} : forwardingTable'[t] = forwardingTable[t]
  BY DEF Parts, SwitchesOK
<1>3. Grown
  BY <1>1, <1>2 DEF Grown
<1>4. f.on \ {s} = {f.from}
  BY TheOther DEF Parts, TrafficOK, GoodFrame
<1>5. ASSUME NEW t \in Switches, NEW n \in DOMAIN forwardingTable'[t], NEW y \in forwardingTable'[t][n] \ {t}
      PROVE  /\ Forwards(y, forwardingTable'[t][n]) /\ OnSide(y, forwardingTable'[t][n], n)
             /\ y \in Switches => n \in DOMAIN forwardingTable'[y]
  <2>1. CASE t = s /\ n = m
    <3>1. y = f.from /\ forwardingTable'[t][n] = f.on
      BY <1>1, <1>2, <1>4, <1>5, <2>1
    <3>2. FromThere(f)
      BY DEF FrameOK
    <3>3. QED BY <1>3, <2>1, <3>1, <3>2 DEF FromThere, Grown
  <2>2. CASE ~(t = s /\ n = m)
    <3>1. n \in DOMAIN forwardingTable[t] /\ forwardingTable'[t][n] = forwardingTable[t][n]
      BY <1>1, <1>2, <1>5, <2>2
    <3>2. QED BY <1>3, <1>5, <3>1 DEF TablesOK, Grown
  <2>3. QED BY <2>1, <2>2
<1>6. QED BY <1>3, <1>5 DEF TablesOK

-----------------------------------------------------------------------------
\* A switch forwards a packet on other links, only where it belongs, and data on one
\* of them at most.
LEMMA SwitchForwards ==
  ASSUME Parts, LoopFree(Side), Uncopied(Side, Calm), TablesOK, NEW f \in DOMAIN wire, FrameOK(f),
         NEW s \in Switches, s \in f.on, s # f.from, UNCHANGED header,
         forwardingTable' = [forwardingTable EXCEPT ![s] = Learned(s, f)]
  PROVE  \E ls \in SUBSET LinksOf(s) :
           /\ forwardPacket(s, f, Learned(s, f)) = SetToBag({Frame(s, l, f.packet) : l \in ls})
           /\ \A l \in ls : l # f.on /\ FrameOK(Frame(s, l, f.packet))'
           /\ ~IsArp(f.packet) => \A k, l \in ls : k = l
<1> DEFINE m == HeaderOf(f.packet).sourceMac
           d == HeaderOf(f.packet).destinationMac
           T == Learned(s, f)
           out == IF d \in DOMAIN T THEN {T[d]} ELSE LinksOf(s) \ {f.on}
           ls == {l \in out : linkStates[s][l] = "forwarding"}
<1>1. forwardPacket(s, f, T) = SetToBag({Frame(s, l, f.packet) : l \in ls})
  BY DEF forwardPacket, Enqueued
<1>2. /\ DOMAIN T = DOMAIN forwardingTable[s] \cup {m}
      /\ \A n \in DOMAIN forwardingTable[s] \ {m} : T[n] = forwardingTable[s][n]
      /\ forwardingTable'[s] = T
  BY DEF Learned, Overridden, Parts, SwitchesOK
<1>3. TablesOK' /\ Grown
  BY SwitchLearns
<1>4. f.on \in Links /\ f.from \in f.on /\ f.on \in LinksOf(s) /\ f.packet \in DOMAIN header \cup ArpPacket
  BY DEF Parts, TrafficOK, GoodFrame, LinksOf
<1>5. Forwards(f.from, f.on) /\ OnSide(f.from, f.on, m) /\ ~OnSide(f.from, f.on, d) /\ d # m
  <2>1. ~OnSide(f.from, f.on, d)
    BY GoesAway
  <2>2. QED BY <2>1 DEF FrameOK, FromThere
<1> HIDE DEF T, m, d
<1>6. d \in DOMAIN T => /\ d \in DOMAIN forwardingTable[s] /\ T[d] = forwardingTable[s][d]
                        /\ T[d] # f.on /\ T[d] \in LinksOf(s)
  <2> SUFFICES ASSUME d \in DOMAIN T
               PROVE /\ d \in DOMAIN forwardingTable[s] /\ T[d] = forwardingTable[s][d]
                     /\ T[d] # f.on /\ T[d] \in LinksOf(s)
    OBVIOUS
  <2>1. d \in DOMAIN forwardingTable[s] /\ T[d] = forwardingTable[s][d]
    BY <1>2, <1>5
  <2>2. forwardingTable[s][d] \in LinksOf(s)
    BY <2>1 DEF Parts, SwitchesOK
  <2>3. forwardingTable[s][d] # f.on
    BY <1>4, <1>5, <2>1 DEF TablesOK
  <2>4. QED BY <2>1, <2>2, <2>3
<1>7. \A l \in ls : l \in LinksOf(s) /\ l # f.on /\ Forwards(s, l)
  BY <1>6 DEF Forwards
<1>8. d \notin DOMAIN T /\ ~(IsArp(f.packet) /\ f.packet.operation = "request") => s \notin Calm
  <2>1. ReplyOK(f) /\ IsArp(f.packet) => Expected(f, d)
    BY DEF ReplyOK, d, HeaderOf
  <2>2. DataOK(f) /\ ~IsArp(f.packet) => Expected(f, d)
    BY DEF DataOK, d, HeaderOf
  <2>3. IsArp(f.packet) => f.packet.operation \in {"request", "reply"}
    BY <1>4, PacketFields DEF ArpPacket, Parts, TrafficOK
  <2>4. ~(IsArp(f.packet) /\ f.packet.operation = "request") => Expected(f, d)
    BY <2>1, <2>2, <2>3 DEF FrameOK
  <2>5. QED BY <1>2, <2>4 DEF Expected
<1>9. ASSUME s \notin Calm
      PROVE  /\ \A k, l \in ls : d \notin DOMAIN T => k = l
             /\ \A l \in ls : \A y \in l \ {s} : /\ Side[s][f.on] \subseteq Side[y][l] /\ y \notin Calm
             /\ \A l \in ls : Side[s][l] \subseteq Side[f.from][f.on]
  <2>1. \A l \in ls : \A y \in l \ {s} : y \notin Calm
    <3> SUFFICES ASSUME NEW l \in ls, NEW y \in l \ {s}, y \in Calm PROVE FALSE
      OBVIOUS
    <3>1. l \in LinksOf(y) /\ s \in l \ {y}
      BY <1>7 DEF LinksOf
    <3>2. s \in Hosts \cup Routers
      BY <1>9, <3>1 DEF Uncopied
    <3>3. QED BY <3>2, NetworkAssumption
  <2>2. QED BY <1>4, <1>7, <1>9, <2>1 DEF Uncopied
<1>10. ASSUME NEW l \in ls, NEW y \in l \ {s}, d \in DOMAIN T
       PROVE  OnSide(y, l, d) /\ (y \in Switches => d \in DOMAIN forwardingTable[y])
  <2>1. l = forwardingTable[s][d] /\ d \in DOMAIN forwardingTable[s]
    BY <1>6, <1>10
  <2>2. QED BY <1>10, <2>1 DEF TablesOK
<1>11. ASSUME NEW l \in ls PROVE FrameOK(Frame(s, l, f.packet))'
  <2> DEFINE g == Frame(s, l, f.packet)
  <2>1. g.from = s /\ g.on = l /\ g.packet = f.packet
    BY DEF Frame
  <2>2. HeaderOf(f.packet)' = HeaderOf(f.packet)
    BY DEF HeaderOf
  <2>3. l \in Links /\ s \in l
    BY <1>7 DEF LinksOf
  <2> HIDE DEF g
  <2>4. FromThere(g)'
    <3>1. Side[f.from][f.on] \subseteq Side[s][l]
      BY <1>4, <1>5, <1>7 DEF LoopFree
    <3>2. OnSide(s, l, m)
      BY <1>5, <3>1 DEF OnSide
    <3>3. m \in DOMAIN forwardingTable'[s]
      BY <1>2
    <3>4. QED BY <1>7, <2>1, <2>2, <3>2, <3>3 DEF FromThere, m
  <2>5. PICK y \in l \ {s} : l \ {s} = {y}
    BY <2>3, TheOther
  <2>6. ~(IsArp(f.packet) /\ f.packet.operation = "request") =>
          \A x \in l \ {s} : x \in Calm => d \in DOMAIN forwardingTable'[x]
    <3>1. CASE d \in DOMAIN T
      BY <1>3, <1>10, <3>1 DEF Uncopied, Grown
    <3>2. CASE d \notin DOMAIN T
      BY <1>8, <1>9, <3>2
    <3>3. QED BY <3>1, <3>2
  <2>7. IsArp(f.packet) /\ f.packet.operation = "reply" => ReplyOK(g)'
    <3> SUFFICES ASSUME IsArp(f.packet), f.packet.operation = "reply" PROVE ReplyOK(g)'
      OBVIOUS
    <3>1. ReplyOK(f) /\ d = f.packet.destinationMac
      BY DEF FrameOK, d, HeaderOf
    <3>2. \A x \in l \ {s} : OnSide(x, l, d)
      <4>1. CASE d \in DOMAIN T
        BY <1>10, <4>1
      <4>2. CASE d \notin DOMAIN T
        <5>1. OnSide(s, f.on, d)
          BY <3>1 DEF ReplyOK
        <5>2. QED BY <1>8, <1>9, <4>2, <5>1 DEF OnSide
      <4>3. QED BY <4>1, <4>2
    <3>3. QED BY <2>1, <2>6, <3>1, <3>2 DEF ReplyOK, Expected, OnSide
  <2>8. ~IsArp(f.packet) => DataOK(g)'
    <3> SUFFICES ASSUME ~IsArp(f.packet) PROVE DataOK(g)'
      OBVIOUS
    <3>1. d = header'[f.packet].destinationMac
      BY DEF d, HeaderOf
    <3>2. ~OnSide(s, l, d)
      <4>1. CASE d \in DOMAIN T
        BY <1>7, <1>10, <2>3, <2>5, <4>1, Apart
      <4>2. CASE d \notin DOMAIN T
        BY <1>5, <1>8, <1>9, <4>2 DEF OnSide
      <4>3. QED BY <4>1, <4>2
    <3>3. QED BY <2>1, <2>6, <3>1, <3>2 DEF DataOK, Expected, OnSide
  <2>9. IsArp(f.packet) /\ f.packet.operation = "request" => RequestOK(f.packet)
    BY DEF FrameOK
  <2>10. QED BY <2>1, <2>4, <2>7, <2>8, <2>9 DEF FrameOK, g
<1>12. ~IsArp(f.packet) => \A k, l \in ls : k = l
  <2>1. d \in DOMAIN T => \A k, l \in ls : k = l
    OBVIOUS
  <2>2. QED BY <1>8, <1>9, <2>1
<1>13. ls \in SUBSET LinksOf(s)
  BY <1>7
<1> HIDE DEF ls
<1>14. QED BY <1>1, <1>7, <1>11, <1>12, <1>13 DEF T
-----------------------------------------------------------------------------
\* Where a data packet is: on a link, in a router's list, or counted by a host, and
\* only there.
Waits(p) == \E r \in Routers : \E a \in Ips : p \in waitingForArpReply[r][a]
HasArrived(p) == \E h \in Hosts : \E k \in DOMAIN arrived[h] : arrived[h][k] = p
InOnePlace(p) ==
  /\ \A f \in DOMAIN wire : f.packet = p => wire[f] = 1 /\ ~Waits(p) /\ ~HasArrived(p)
  /\ \A f, g \in DOMAIN wire : f.packet = p /\ g.packet = p => f = g
  /\ \A q, r \in Routers : \A a, b \in Ips :
       p \in waitingForArpReply[q][a] /\ p \in waitingForArpReply[r][b] => q = r /\ a = b
  /\ Waits(p) => ~HasArrived(p)
  /\ \A g, h \in Hosts : \A j \in DOMAIN arrived[g] : \A k \in DOMAIN arrived[h] :
       arrived[g][j] = p /\ arrived[h][k] = p => g = h /\ j = k
OneCopy == \A p \in DOMAIN header : InOnePlace(p)

SameOnWire(p) ==
  \A f : f.packet = p => /\ f \in DOMAIN wire' <=> f \in DOMAIN wire
                         /\ f \in DOMAIN wire => wire'[f] = wire[f]
SameInLists(p) ==
  \A r \in Routers : \A a \in Ips : p \in waitingForArpReply'[r][a] <=> p \in waitingForArpReply[r][a]
SameArrivals(p) ==
  \A h \in Hosts : \A k :
    k \in DOMAIN arrived'[h] /\ arrived'[h][k] = p <=> k \in DOMAIN arrived[h] /\ arrived[h][k] = p

LEMMA StaysInPlace ==
  ASSUME NEW p, InOnePlace(p), SameOnWire(p), SameInLists(p), SameArrivals(p)
  PROVE  InOnePlace(p)'
<1>1. Waits(p)' <=> Waits(p)
  BY DEF Waits, SameInLists
<1>2. HasArrived(p)' <=> HasArrived(p)
  BY DEF HasArrived, SameArrivals
<1>3. \A q, r \in Routers : \A a, b \in Ips :
        p \in waitingForArpReply'[q][a] /\ p \in waitingForArpReply'[r][b] => q = r /\ a = b
  BY DEF InOnePlace, SameInLists
<1>4. \A g, h \in Hosts : \A j \in DOMAIN arrived'[g] : \A k \in DOMAIN arrived'[h] :
        arrived'[g][j] = p /\ arrived'[h][k] = p => g = h /\ j = k
  BY DEF InOnePlace, SameArrivals
<1>5. /\ \A f \in DOMAIN wire' : f.packet = p => wire'[f] = 1 /\ ~Waits(p) /\ ~HasArrived(p)
      /\ \A f, g \in DOMAIN wire' : f.packet = p /\ g.packet = p => f = g
  BY DEF InOnePlace, SameOnWire
<1>6. QED BY <1>1, <1>2, <1>3, <1>4, <1>5 DEF InOnePlace

\* It is gone, or on the link that frame g says, and nowhere else.
LEMMA MovesOnWire ==
  ASSUME NEW p, NEW g, \A f \in DOMAIN wire' : f.packet = p => f = g /\ wire'[f] = 1,
         ~Waits(p)', ~HasArrived(p)'
  PROVE  InOnePlace(p)'
<1>1. \A r \in Routers : \A a \in Ips : p \notin waitingForArpReply'[r][a]
  BY DEF Waits
<1>2. \A h \in Hosts : \A k \in DOMAIN arrived'[h] : arrived'[h][k] # p
  BY DEF HasArrived
<1>3. QED BY <1>1, <1>2 DEF InOnePlace

\* Nothing that has no header is anywhere.
LEMMA Nowhere ==
  ASSUME Parts, NEW p, p \notin DOMAIN header
  PROVE  /\ ~IsArp(p) => \A f \in DOMAIN wire : f.packet # p
         /\ ~Waits(p) /\ ~HasArrived(p)
<1>1. ~IsArp(p) => \A f \in DOMAIN wire : f.packet # p
  BY ArpIsArp DEF Parts, TrafficOK, GoodFrame
<1>2. ~Waits(p)
  BY DEF Parts, ListsOK, Waits
<1>3. ~HasArrived(p)
  BY DEF Parts, ArrivalsOK, HasArrived
<1>4. QED BY <1>1, <1>2, <1>3

-----------------------------------------------------------------------------
\* Frame f is taken and the frames S are sent.
Moved(f, S) == AddsUp(wire', BagRemove(wire, f), SetToBag(S))
LEMMA Moves ==
  ASSUME Parts, NEW f \in DOMAIN wire, NEW S
  PROVE  /\ wire' = BagRemove(wire, f) (+) SetToBag(S) => Moved(f, S)
         /\ wire' = BagRemove(wire, f) => Moved(f, {})
<1>1. IsABag(BagRemove(wire, f))
  BY Taken
<1>2. wire' = BagRemove(wire, f) (+) SetToBag(S) => Moved(f, S)
  <2> DEFINE B == BagRemove(wire, f)
             C == SetToBag(S)
  <2>1. IsABag(B) /\ IsABag(C)
    BY <1>1, SetIsBag
  <2> HIDE DEF B, C
  <2>2. wire' = B (+) C => AddsUp(wire', B, C)
    BY <2>1, Added
  <2>3. QED BY <2>2 DEF Moved, B, C
<1>3. wire' = BagRemove(wire, f) => Moved(f, {})
  <2>1. DOMAIN SetToBag({}) = {}
    BY SetIsBag
  <2>2. QED BY <1>1, <2>1 DEF Moved, AddsUp
<1>4. QED BY <1>2, <1>3

LEMMA TakenOff ==
  ASSUME Parts, NEW f \in DOMAIN wire
  PROVE  /\ DOMAIN wire \ {f} \subseteq DOMAIN BagRemove(wire, f)
         /\ DOMAIN BagRemove(wire, f) \subseteq DOMAIN wire
         /\ \A x \in DOMAIN wire \ {f} : BagRemove(wire, f)[x] = wire[x]
         /\ wire[f] = 1 => f \notin DOMAIN BagRemove(wire, f)
  BY BagTake DEF BagRemove, Ext!BagRemove, Parts, TrafficOK

LEMMA AfterMove ==
  ASSUME Parts, NEW f \in DOMAIN wire, NEW S, Moved(f, S)
  PROVE  /\ DOMAIN wire' \subseteq DOMAIN wire \cup S
         /\ \A p : p # f.packet /\ (\A g \in S : g.packet # p) => SameOnWire(p)
         /\ InOnePlace(f.packet) => \A g \in DOMAIN wire' : g.packet = f.packet => g \in S /\ wire'[g] = 1
<1> DEFINE B == BagRemove(wire, f)
           C == SetToBag(S)
<1>1. /\ DOMAIN wire' = DOMAIN B \cup DOMAIN C
      /\ \A m \in DOMAIN B \ DOMAIN C : wire'[m] = B[m]
      /\ \A m \in DOMAIN C \ DOMAIN B : wire'[m] = C[m]
  BY DEF Moved, AddsUp
<1>2. DOMAIN C = S /\ \A x \in S : C[x] = 1
  BY SetIsBag
<1>3. /\ DOMAIN wire \ {f} \subseteq DOMAIN B /\ DOMAIN B \subseteq DOMAIN wire
      /\ \A x \in DOMAIN wire \ {f} : B[x] = wire[x]
      /\ wire[f] = 1 => f \notin DOMAIN B
  BY TakenOff
<1> HIDE DEF B, C
<1>4. DOMAIN wire' \subseteq DOMAIN wire \cup S
  BY <1>1, <1>2, <1>3
<1>5. ASSUME NEW p, p # f.packet, \A g \in S : g.packet # p PROVE SameOnWire(p)
  BY <1>1, <1>2, <1>3, <1>5 DEF SameOnWire
<1>6. ASSUME InOnePlace(f.packet), NEW g \in DOMAIN wire', g.packet = f.packet PROVE g \in S /\ wire'[g] = 1
  <2>1. g \notin DOMAIN B
    BY <1>3, <1>6 DEF InOnePlace
  <2>2. QED BY <1>1, <1>2, <1>6, <2>1
<1>7. QED BY <1>4, <1>5, <1>6

\* What a step that does not count packets and does not touch a list leaves.
LEMMA OthersStay ==
  ASSUME UNCHANGED <<waitingForArpReply, arrived>>
  PROVE  \A p : SameInLists(p) /\ SameArrivals(p) /\ (Waits(p)' <=> Waits(p)) /\ (HasArrived(p)' <=> HasArrived(p))
  BY DEF SameInLists, SameArrivals, Waits, HasArrived

\* A node takes a packet and sends frames S with ARP packets or, if it may, the packet.
LEMMA CopiesAfterMove ==
  ASSUME Parts, OneCopy, NEW f \in DOMAIN wire, NEW S, Moved(f, S),
         UNCHANGED <<waitingForArpReply, arrived>>, DOMAIN header' = DOMAIN header,
         \A g \in S : IsArp(g.packet) \/ g.packet = f.packet,
         ~IsArp(f.packet) => \A g, h \in S : g = h
  PROVE  OneCopy'
<1> SUFFICES ASSUME NEW p \in DOMAIN header PROVE InOnePlace(p)'
  BY DEF OneCopy
<1>1. ~IsArp(p) /\ InOnePlace(p)
  BY PacketFields DEF Parts, TrafficOK, OneCopy
<1>2. CASE p # f.packet
  <2>1. SameOnWire(p)
    BY <1>1, <1>2, AfterMove
  <2>2. QED BY <1>1, <2>1, OthersStay, StaysInPlace
<1>3. CASE p = f.packet
  <2>1. \A g \in DOMAIN wire' : g.packet = p => g \in S /\ wire'[g] = 1
    BY <1>1, <1>3, AfterMove
  <2>2. \E g : \A h \in DOMAIN wire' : h.packet = p => h = g /\ wire'[h] = 1
    BY <1>1, <1>3, <2>1
  <2>3. ~Waits(p)' /\ ~HasArrived(p)'
    BY <1>1, <1>3, OthersStay DEF InOnePlace
  <2>4. QED BY <2>2, <2>3, MovesOnWire
<1>4. QED BY <1>2, <1>3

LEMMA FramesAfterMove ==
  ASSUME Parts, Grown, Uncopied(Side, Calm), FramesOK, NEW f \in DOMAIN wire, NEW S, Moved(f, S),
         UNCHANGED header, \A g \in S : FrameOK(g)'
  PROVE  FramesOK'
<1>1. DOMAIN wire' \subseteq DOMAIN wire \cup S
  BY AfterMove
<1>2. \A p : SameMacs(p)
  BY DEF SameMacs
<1>3. \A g \in DOMAIN wire : FrameOK(g)'
  BY <1>2, FrameStays DEF FramesOK
<1>4. QED BY <1>1, <1>3 DEF FramesOK

-----------------------------------------------------------------------------
\* The invariant of such networks, action by action.
TreeInv == FramesOK /\ TablesOK /\ EntriesOK /\ OneCopy

LEMMA SwitchInTree ==
  ASSUME Parts, LoopFree(Side), Uncopied(Side, Calm), TreeInv, NEW f \in DOMAIN wire,
         NEW s \in Switches, s \in f.on, s # f.from, SwitchReceivesPacket(s, f)
  PROVE  TreeInv'
<1>1. UNCHANGED <<header, arpTable, waitingForArpReply, arrived>>
  BY DEF SwitchReceivesPacket, arpVars, dataVars
<1>2. CASE wire' = BagRemove(wire, f) /\ UNCHANGED forwardingTable
  <2>1. Moved(f, {})
    BY <1>2, Moves
  <2>2. TablesOK' /\ Grown
    BY <1>2, TablesStay DEF TreeInv
  <2>3. FramesOK'
    BY <1>1, <2>1, <2>2, FramesAfterMove DEF TreeInv
  <2>4. OneCopy'
    BY <1>1, <2>1, CopiesAfterMove DEF TreeInv
  <2>5. QED BY <1>1, <2>2, <2>3, <2>4, EntriesStay DEF TreeInv
<1>3. CASE /\ forwardingTable' = [forwardingTable EXCEPT ![s] = Learned(s, f)]
           /\ wire' = BagRemove(wire, f) (+) forwardPacket(s, f, Learned(s, f))
  <2>0. FrameOK(f)
    BY DEF TreeInv, FramesOK
  <2>1. PICK ls \in SUBSET LinksOf(s) :
          /\ forwardPacket(s, f, Learned(s, f)) = SetToBag({Frame(s, l, f.packet) : l \in ls})
          /\ \A l \in ls : l # f.on /\ FrameOK(Frame(s, l, f.packet))'
          /\ ~IsArp(f.packet) => \A k, l \in ls : k = l
    BY <1>1, <1>3, <2>0, SwitchForwards DEF TreeInv
  <2> DEFINE S == {Frame(s, l, f.packet) : l \in ls}
  <2>2. /\ \A g \in S : FrameOK(g)' /\ g.packet = f.packet
        /\ ~IsArp(f.packet) => \A g, h \in S : g = h
    <3>1. \A l : Frame(s, l, f.packet).packet = f.packet
      BY DEF Frame
    <3>2. QED BY <2>1, <3>1
  <2>3. wire' = BagRemove(wire, f) (+) SetToBag(S)
    BY <1>3, <2>1
  <2> HIDE DEF S
  <2>4. Moved(f, S)
    BY <2>3, Moves
  <2>5. TablesOK' /\ Grown
    BY <1>3, <2>0, SwitchLearns DEF TreeInv
  <2>6. FramesOK'
    BY <1>1, <2>2, <2>4, <2>5, FramesAfterMove DEF TreeInv
  <2>7. OneCopy'
    BY <1>1, <2>2, <2>4, CopiesAfterMove DEF TreeInv
  <2>8. QED BY <1>1, <2>5, <2>6, <2>7, EntriesStay DEF TreeInv
<1>4. QED BY <1>2, <1>3 DEF SwitchReceivesPacket
-----------------------------------------------------------------------------
\* A link loses a packet: where it is, and its MAC addresses, do not change.
LEMMA LostFrame ==
  ASSUME NEW g, g.packet \in ArpPacket, FrameOK(g), UNCHANGED forwardingTable
  PROVE  FrameOK(Frame(g.from, g.on, [g.packet EXCEPT !.lost = TRUE]))'
<1> DEFINE p == g.packet
           q == [p EXCEPT !.lost = TRUE]
           m == Frame(g.from, g.on, q)
<1>1. /\ q \in ArpPacket /\ q.operation = p.operation /\ q.sourceMac = p.sourceMac
      /\ q.destinationMac = p.destinationMac /\ q.sourceIp = p.sourceIp /\ q.destIp = p.destIp
  BY DEF ArpPacket
<1>2. m.from = g.from /\ m.on = g.on /\ m.packet = q
  BY DEF Frame
<1>3. IsArp(p) /\ IsArp(q)
  BY <1>1, ArpIsArp
<1> HIDE DEF q, m
<1>4. FromThere(m)'
  BY <1>1, <1>2, <1>3 DEF FrameOK, FromThere, HeaderOf
<1>5. p.operation = "request" => RequestOK(m.packet)
  BY <1>1, <1>2, <1>3 DEF FrameOK, RequestOK
<1>6. p.operation = "reply" => ReplyOK(m)'
  BY <1>1, <1>2, <1>3 DEF FrameOK, ReplyOK, Expected, OnSide
<1>7. QED BY <1>1, <1>2, <1>3, <1>4, <1>5, <1>6 DEF FrameOK, m, q

LEMMA LossInTree ==
  ASSUME Parts, LoopFree(Side), Uncopied(Side, Calm), TreeInv, NEW f \in DOMAIN wire, transferPacket(f)
  PROVE  TreeInv'
<1>1. UNCHANGED <<forwardingTable, arpTable, waitingForArpReply, arrived>>
  BY DEF transferPacket, arpVars, dataVars
<1>2. TablesOK' /\ Grown /\ EntriesOK'
  BY <1>1, TablesStay, EntriesStay DEF TreeInv
<1>3. f.packet \in DOMAIN header \cup ArpPacket /\ DOMAIN header \subseteq Packets
  BY DEF Parts, TrafficOK, GoodFrame
<1>4. CASE IsArp(f.packet)
  <2>1. PICK copies \in SUBSET {g \in DOMAIN wire : g.packet = f.packet} :
          wire' = (wire (-) SetToBag(copies)) (+)
            SetToBag({Frame(g.from, g.on, [f.packet EXCEPT !.lost = TRUE]) : g \in copies})
    BY <1>4 DEF transferPacket
  <2> DEFINE base == wire (-) SetToBag(copies)
             marked == {Frame(g.from, g.on, [f.packet EXCEPT !.lost = TRUE]) : g \in copies}
  <2>2. f.packet \in ArpPacket /\ header' = header
    BY <1>3, <1>4, PacketFields DEF transferPacket
  <2>3. \A g \in copies : g \in DOMAIN wire /\ g.packet = f.packet
    OBVIOUS
  <2>4. \A m \in marked : FrameOK(m)' /\ IsArp(m.packet)
    <3> SUFFICES ASSUME NEW g \in copies
                 PROVE  /\ FrameOK(Frame(g.from, g.on, [f.packet EXCEPT !.lost = TRUE]))'
                        /\ IsArp(Frame(g.from, g.on, [f.packet EXCEPT !.lost = TRUE]).packet)
      OBVIOUS
    <3>1. FrameOK(g) /\ g.packet = f.packet
      BY <2>3 DEF TreeInv, FramesOK
    <3>2. FrameOK(Frame(g.from, g.on, [g.packet EXCEPT !.lost = TRUE]))'
      BY <1>1, <2>2, <3>1, LostFrame
    <3>3. [f.packet EXCEPT !.lost = TRUE] \in ArpPacket
      BY <2>2 DEF ArpPacket
    <3>4. Frame(g.from, g.on, [f.packet EXCEPT !.lost = TRUE]).packet = [f.packet EXCEPT !.lost = TRUE]
      BY DEF Frame
    <3>5. QED BY <3>1, <3>2, <3>3, <3>4, ArpIsArp
  <2>5. /\ IsABag(base) /\ DOMAIN base \subseteq DOMAIN wire
        /\ \A g \in DOMAIN wire \ copies : g \in DOMAIN base /\ base[g] = wire[g]
    BY BagDifference, BagDifferenceLeaves DEF Parts, TrafficOK
  <2>6. wire' = base (+) SetToBag(marked)
    BY <2>1
  <2> HIDE DEF base, marked
  <2>7. /\ DOMAIN wire' = DOMAIN base \cup marked
        /\ \A g \in DOMAIN base \ marked : wire'[g] = base[g]
    <3>1. AddsUp(wire', base, SetToBag(marked))
      BY <2>5, <2>6, Added, SetIsBag
    <3>2. QED BY <3>1, SetIsBag DEF AddsUp
  <2>8. FramesOK'
    <3>1. \A p : SameMacs(p)
      BY <2>2 DEF SameMacs
    <3>2. \A g \in DOMAIN wire : FrameOK(g)'
      BY <1>2, <3>1, FrameStays DEF TreeInv, FramesOK
    <3>3. QED BY <2>4, <2>5, <2>7, <3>2 DEF FramesOK
  <2>9. ASSUME NEW p \in DOMAIN header PROVE InOnePlace(p)'
    <3>1. ~IsArp(p) /\ InOnePlace(p)
      BY PacketFields DEF Parts, TrafficOK, TreeInv, OneCopy
    <3>2. SameOnWire(p)
      BY <1>4, <2>3, <2>4, <2>5, <2>7, <3>1 DEF SameOnWire
    <3>3. QED BY <1>1, <3>1, <3>2, OthersStay, StaysInPlace
  <2>10. QED BY <1>2, <2>2, <2>8, <2>9 DEF TreeInv, OneCopy
<1>5. CASE ~IsArp(f.packet)
  <2>1. wire' = wire /\ header' = [header EXCEPT ![f.packet].lost = TRUE]
    BY <1>5 DEF transferPacket
  <2>2. f.packet \in DOMAIN header /\ DOMAIN header' = DOMAIN header
    BY <1>3, <1>5, <2>1, ArpIsArp
  <2>3. ASSUME NEW p \in DOMAIN header PROVE SameMacs(p)
    <3>1. header'[p] = header[p] \/ header'[p] = [header[p] EXCEPT !.lost = TRUE]
      BY <2>1
    <3>2. GoodHeader(header[p])
      BY DEF Parts, TrafficOK
    <3>3. QED BY <3>1, <3>2 DEF SameMacs, GoodHeader, Header
  <2>4. \A g \in DOMAIN wire : ~IsArp(g.packet) => SameMacs(g.packet)
    BY <2>3, ArpIsArp DEF Parts, TrafficOK, GoodFrame
  <2>5. FramesOK'
    BY <1>2, <2>1, <2>4, FrameStays DEF TreeInv, FramesOK
  <2>6. \A p : SameOnWire(p)
    BY <2>1 DEF SameOnWire
  <2>7. OneCopy'
    BY <1>1, <2>2, <2>6, OthersStay, StaysInPlace DEF TreeInv, OneCopy
  <2>8. QED BY <1>2, <2>5, <2>7 DEF TreeInv
<1>6. QED BY <1>4, <1>5

-----------------------------------------------------------------------------
\* A host sends data: frames that are new, one for each packet.
LEMMA HostFrames ==
  ASSUME LoopFree(Side), Uncopied(Side, Calm), NEW h \in Hosts, NEW l \in LinksOf(h)
  PROVE  /\ LinksOf(h) = {l} /\ l \in Links /\ h \in l /\ h \notin Routers /\ h \notin Switches
         /\ Forwards(h, l) /\ OnSide(h, l, MacAddress(<<h>>)) /\ Interface(h, l) = <<h>>
         /\ \A m : m.copy => ~OnSide(h, l, m)
         /\ \A d \in Datagrams : d.source = h => \A x \in l \ {h} : x \notin Calm
         /\ \A r \in Routers : \A k : MacAddress(<<h>>) # MacAddress(<<r, k>>)
<1>1. LinksOf(h) = {l} /\ l \in Links /\ h \in l
  BY DEF Uncopied, LinksOf
<1>2. h \notin Routers /\ h \notin Switches
  BY NetworkAssumption
<1>3. Interface(h, l) = <<h>> /\ Forwards(h, l)
  BY <1>2 DEF Interface, Forwards
<1>4. Side[h][l] = {<<h>>}
  BY <1>3 DEF LoopFree
<1>5. OnSide(h, l, MacAddress(<<h>>)) /\ \A m : m.copy => ~OnSide(h, l, m)
  BY <1>4, MacAddresses DEF OnSide
<1>6. ASSUME NEW d \in Datagrams, d.source = h, NEW x \in l \ {h}, x \in Calm PROVE FALSE
  <2>1. l \in LinksOf(x) /\ h \in l \ {x}
    BY <1>1, <1>6 DEF LinksOf
  <2>2. QED BY <1>2, <1>6, <2>1 DEF Uncopied
<1>7. \A r, k : <<h>> # <<r, k>>
  OBVIOUS
<1>8. QED BY <1>1, <1>2, <1>3, <1>5, <1>6, <1>7, MacAddresses

NewAt(h, D) == \A d \in D : d.source = h /\ Unsent(d)
DataStays(base) ==
  /\ DOMAIN base \subseteq DOMAIN wire
  /\ \A g \in DOMAIN wire : ~IsArp(g.packet) => g \in DOMAIN base /\ base[g] = wire[g]
SameLists == \A r \in Routers : waitingForArpReply'[r] = waitingForArpReply[r]

LEMMA SentInTree ==
  ASSUME Parts, LoopFree(Side), Uncopied(Side, Calm), TreeInv, NEW h \in Hosts, NEW D \in SUBSET Datagrams,
         NEW m \in Mac, m.copy, NEW base, Sends(h, D, m, base), NewAt(h, D), DataStays(base),
         Grown, SameLists, UNCHANGED arrived
  PROVE  FramesOK' /\ OneCopy'
<1> DEFINE new == {Frame(h, l, p) : l \in LinksOf(h), p \in Fragments(D)}
<1>1. /\ DOMAIN header' = DOMAIN header \cup Fragments(D)
      /\ \A p \in Fragments(D) : header'[p] = NewHeader(p, m)
      /\ \A p \in DOMAIN header \ Fragments(D) : header'[p] = header[p]
      /\ AddsUp(wire', base, SetToBag(new))
  BY DEF Sends
<1>2. \A p \in Fragments(D) : p \notin DOMAIN header /\ p \in Packets /\ ~IsArp(p) /\ p.data \in D /\ p.data.source = h
  <2> TAKE p \in Fragments(D)
  <2>1. p.data \in D /\ p \in Fragments({p.data}) /\ p \in Packets
    BY FragmentsApart
  <2>2. p.data.source = h /\ Unsent(p.data)
    BY <2>1 DEF NewAt
  <2>3. QED BY <2>1, <2>2, PacketFields DEF Unsent
<1>3. \A g \in new : \E l \in LinksOf(h) : \E p \in Fragments(D) : g = Frame(h, l, p) /\ g.from = h /\ g.on = l /\ g.packet = p
  BY DEF Frame
<1> HIDE DEF new
<1>4. /\ DOMAIN wire' = DOMAIN base \cup new
      /\ \A g \in DOMAIN base \ new : wire'[g] = base[g]
      /\ \A g \in new \ DOMAIN base : wire'[g] = 1
  BY <1>1, SetIsBag DEF AddsUp
<1>5. ASSUME NEW g \in DOMAIN wire PROVE FrameOK(g)' /\ g.packet \notin Fragments(D)
  <2>1. g.packet \notin Fragments(D)
    BY <1>2, Nowhere
  <2>2. ~IsArp(g.packet) => g.packet \in DOMAIN header
    BY ArpIsArp DEF Parts, TrafficOK, GoodFrame
  <2>3. ~IsArp(g.packet) => SameMacs(g.packet)
    BY <1>1, <2>1, <2>2 DEF SameMacs
  <2>4. QED BY <2>1, <2>3, FrameStays DEF TreeInv, FramesOK
<1>6. ASSUME NEW g \in new PROVE FrameOK(g)'
  <2>1. PICK l \in LinksOf(h), p \in Fragments(D) : g.from = h /\ g.on = l /\ g.packet = p
    BY <1>3
  <2>2. HeaderOf(p)'.sourceMac = MacAddress(<<h>>) /\ header'[p].destinationMac = m
    BY <1>1, <1>2 DEF HeaderOf, NewHeader
  <2>3. FromThere(g)'
    BY <2>1, <2>2, HostFrames DEF FromThere
  <2>4. p.data \in Datagrams /\ p.data.source = h
    BY <1>2
  <2>5. DataOK(g)'
    BY <2>1, <2>2, <2>4, HostFrames DEF DataOK, Expected
  <2>6. QED BY <1>2, <2>1, <2>3, <2>5 DEF FrameOK
<1>7. FramesOK'
  BY <1>4, <1>5, <1>6 DEF FramesOK, DataStays
<1>8. ASSUME NEW p \in Fragments(D) PROVE InOnePlace(p)'
  <2>1. ASSUME NEW f \in DOMAIN wire', f.packet = p PROVE f \in new /\ wire'[f] = 1
    BY <1>4, <1>5, <2>1 DEF DataStays
  <2>2. ASSUME NEW f \in new, NEW g \in new, f.packet = p, g.packet = p PROVE f = g
    <3>1. PICK k \in LinksOf(h) : f = Frame(h, k, p)
      BY <1>3, <2>2
    <3>2. PICK l \in LinksOf(h) : g = Frame(h, l, p)
      BY <1>3, <2>2
    <3>3. k = l
      <4>1. LinksOf(h) = {k}
        BY HostFrames
      <4>2. QED BY <4>1
    <3>4. QED BY <3>1, <3>2, <3>3
  <2>3. ~Waits(p)' /\ ~HasArrived(p)'
    <3>1. ~Waits(p) /\ ~HasArrived(p)
      BY <1>2, Nowhere
    <3>2. QED BY <3>1 DEF Waits, HasArrived, SameLists
  <2>4. \E g : \A f \in DOMAIN wire' : f.packet = p => f = g /\ wire'[f] = 1
    BY <2>1, <2>2
  <2>5. QED BY <2>3, <2>4, MovesOnWire
<1>9. ASSUME NEW p \in DOMAIN header PROVE InOnePlace(p)'
  <2>1. ~IsArp(p) /\ p \notin Fragments(D) /\ InOnePlace(p)
    BY <1>2, PacketFields DEF Parts, TrafficOK, TreeInv, OneCopy
  <2>2. \A g \in new : g.packet # p
    BY <1>3, <2>1
  <2>3. SameOnWire(p)
    BY <1>4, <2>1, <2>2 DEF SameOnWire, DataStays
  <2>4. SameInLists(p) /\ SameArrivals(p)
    BY DEF SameInLists, SameArrivals, SameLists
  <2>5. QED BY <2>1, <2>3, <2>4, StaysInPlace
<1>10. QED BY <1>1, <1>7, <1>8, <1>9 DEF OneCopy

LEMMA StartInTree ==
  ASSUME Parts, SentOnce, LoopFree(Side), Uncopied(Side, Calm), TreeInv, NEW d \in Datagrams, StartTraffic(d)
  PROVE  TreeInv'
<1> DEFINE h == d.source
           a == d.destIp
<1>1. h \in Hosts /\ a \in Ips /\ Unsent(d) /\ UNCHANGED <<arrived, forwardingTable, arpTable>>
  BY DatagramAssumption, StartSentOnce DEF Ips, StartTraffic, dataVars
<1>2. TablesOK' /\ Grown /\ EntriesOK' /\ IsABag(wire)
  BY <1>1, TablesStay, EntriesStay DEF TreeInv, Parts, TrafficOK
<1>3. CASE arpTable[h][a] # NoMac /\ sendUDPPacket(h, {d}, arpTable[h][a], wire) /\ UNCHANGED waitingForArpReply
  <2>1. Sends(h, {d}, arpTable[h][a], wire)
    BY <1>1, <1>2, <1>3, SendingAdds
  <2>2. arpTable[h][a] \in Mac /\ arpTable[h][a].copy
    BY <1>1, <1>3 DEF TreeInv, EntriesOK, Parts, ArpTablesOK
  <2>3. NewAt(h, {d}) /\ DataStays(wire) /\ SameLists
    BY <1>1, <1>3 DEF NewAt, DataStays, SameLists
  <2>4. FramesOK' /\ OneCopy'
    BY <1>1, <1>2, <1>3, <2>1, <2>2, <2>3, SentInTree
  <2>5. QED BY <1>2, <2>4 DEF TreeInv
<1>4. CASE /\ wire' = wire (+) SetToBag({Frame(h, l, ArpRequest(h, l, a)) : l \in LinksOf(h)})
           /\ waitingForArpReply' = [waitingForArpReply EXCEPT ![h][a] = @ \cup {d}]
           /\ UNCHANGED header
  <2> DEFINE asks == {Frame(h, l, ArpRequest(h, l, a)) : l \in LinksOf(h)}
  <2>1. \A g \in asks : FrameOK(g)' /\ IsArp(g.packet)
    <3> SUFFICES ASSUME NEW l \in LinksOf(h)
                 PROVE  /\ FrameOK(Frame(h, l, ArpRequest(h, l, a)))'
                        /\ IsArp(Frame(h, l, ArpRequest(h, l, a)).packet)
      OBVIOUS
    <3> DEFINE p == ArpRequest(h, l, a)
               g == Frame(h, l, p)
    <3>1. g.from = h /\ g.on = l /\ g.packet = p
      BY DEF Frame
    <3>2. /\ IsArp(p) /\ p.operation = "request" /\ p.sourceMac = MacAddress(<<h>>)
          /\ p.destinationMac = Broadcast
      BY <1>1, HostFrames DEF ArpRequest, Arp, IsArp
    <3> HIDE DEF p, g
    <3>3. FromThere(g)'
      BY <1>1, <3>1, <3>2, HostFrames DEF FromThere, HeaderOf
    <3>4. RequestOK(p)
      BY <1>1, <3>2, HostFrames DEF RequestOK, AsksOverRoute
    <3>5. FrameOK(g)' /\ IsArp(g.packet)
      BY <3>1, <3>2, <3>3, <3>4 DEF FrameOK
    <3>6. QED BY <3>5 DEF g, p
  <2>2. wire' = wire (+) SetToBag(asks)
    BY <1>4
  <2> HIDE DEF asks
  <2>3. /\ DOMAIN wire' = DOMAIN wire \cup asks
        /\ \A g \in DOMAIN wire \ asks : wire'[g] = wire[g]
    <3>1. AddsUp(wire', wire, SetToBag(asks))
      BY <1>2, <2>2, Added, SetIsBag
    <3>2. QED BY <3>1, SetIsBag DEF AddsUp
  <2>4. FramesOK'
    <3>1. \A p : SameMacs(p)
      BY <1>4 DEF SameMacs
    <3>2. \A g \in DOMAIN wire : FrameOK(g)'
      BY <1>2, <3>1, FrameStays DEF TreeInv, FramesOK
    <3>3. QED BY <2>1, <2>3, <3>2 DEF FramesOK
  <2>5. ASSUME NEW p \in DOMAIN header PROVE InOnePlace(p)'
    <3>1. ~IsArp(p) /\ InOnePlace(p)
      BY PacketFields DEF Parts, TrafficOK, TreeInv, OneCopy
    <3>2. SameOnWire(p)
      BY <2>1, <2>3, <3>1 DEF SameOnWire
    <3>3. SameInLists(p)
      <4>1. \A r \in Routers : waitingForArpReply'[r] = waitingForArpReply[r]
        BY <1>1, <1>4, NetworkAssumption DEF Parts, ListsOK
      <4>2. QED BY <4>1 DEF SameInLists
    <3>4. SameArrivals(p)
      BY <1>1 DEF SameArrivals
    <3>5. QED BY <3>1, <3>2, <3>3, <3>4, StaysInPlace
  <2>6. QED BY <1>2, <1>4, <2>4, <2>5 DEF TreeInv, OneCopy
<1>5. QED BY <1>3, <1>4 DEF StartTraffic

\* A host answers the request f.
LEMMA AnswerOK ==
  ASSUME Parts, LoopFree(Side), Uncopied(Side, Calm), NEW f \in DOMAIN wire, FrameOK(f), Grown,
         f.packet \in ArpPacket, f.packet.operation = "request",
         NEW x \in f.on, x \in Hosts \cup Routers, x # f.from,
         NEW p, p = Arp("reply", MacAddress(Interface(x, f.on)), f.packet.sourceMac,
                        f.packet.destIp, f.packet.sourceIp)
  PROVE  FrameOK(Frame(x, f.on, p))' /\ IsArp(Frame(x, f.on, p).packet)
<1> DEFINE g == Frame(x, f.on, p)
<1>1. g.from = x /\ g.on = f.on /\ g.packet = p
  BY DEF Frame
<1>2. /\ IsArp(p) /\ p.operation = "reply" /\ p.sourceMac = MacAddress(Interface(x, f.on))
      /\ p.destinationMac = f.packet.sourceMac /\ p.sourceIp = f.packet.destIp
  BY DEF Arp, IsArp
<1>3. f.on \in LinksOf(x) /\ f.on \in Links /\ f.from \in f.on /\ IsArp(f.packet)
  BY ArpIsArp DEF Parts, TrafficOK, GoodFrame, LinksOf
<1>4. x \notin Switches /\ f.on \ {x} = {f.from}
  BY <1>3, TheOther, NetworkAssumption
<1>5. FromThere(f) /\ RequestOK(f.packet)
  BY <1>3 DEF FrameOK
<1> HIDE DEF g
<1>6. FromThere(g)'
  <2>1. Side[x][f.on] = {Interface(x, f.on)}
    BY <1>3 DEF LoopFree
  <2>2. QED BY <1>1, <1>2, <1>4, <2>1 DEF FromThere, HeaderOf, OnSide, Forwards
<1>7. ReplyOK(g)'
  <2>1. OnSide(f.from, f.on, p.destinationMac)
    BY <1>2, <1>3, <1>5 DEF FromThere, HeaderOf
  <2>2. f.from \in Calm => p.destinationMac \in DOMAIN forwardingTable'[f.from]
    BY <1>2, <1>3, <1>5 DEF FromThere, HeaderOf, Uncopied, Grown
  <2>3. AsksOverRoute(p.destinationMac, p.sourceIp)
    BY <1>2, <1>5 DEF RequestOK
  <2>4. QED BY <1>1, <1>4, <2>1, <2>2, <2>3 DEF ReplyOK, Expected, OnSide
<1>8. FrameOK(g)' /\ IsArp(g.packet)
  BY <1>1, <1>2, <1>6, <1>7 DEF FrameOK
<1>9. QED BY <1>8 DEF g

LEMMA HostInTree ==
  ASSUME Parts, SentOnce, LoopFree(Side), Uncopied(Side, Calm), TreeInv, NEW f \in DOMAIN wire,
         NEW h \in Hosts, h \in f.on, h # f.from, HostReceivesPacket(h, f)
  PROVE  TreeInv'
<1> DEFINE p == f.packet
           taken == BagRemove(wire, f)
           D == waitingForArpReply[h][p.sourceIp]
<1>1. forwardingTable' = forwardingTable
  BY DEF HostReceivesPacket
<1>2. TablesOK' /\ Grown
  BY <1>1, TablesStay DEF TreeInv
<1>3. GoodFrame(f, DOMAIN header) /\ DOMAIN header \subseteq Packets /\ FrameOK(f)
  BY DEF Parts, TrafficOK, TreeInv, FramesOK
<1>4. LinksOf(h) = {f.on} /\ h \notin Routers /\ Interface(h, f.on) = <<h>>
  <2>1. f.on \in LinksOf(h)
    BY <1>3 DEF GoodFrame, LinksOf
  <2>2. QED BY <2>1, HostFrames
<1>5. CASE wire' = taken /\ UNCHANGED <<header, arpVars, arrived>>
  <2>1. Moved(f, {})
    BY <1>5, Moves
  <2>2. UNCHANGED <<header, arpTable, waitingForArpReply, arrived>>
    BY <1>5 DEF arpVars
  <2>3. FramesOK' /\ OneCopy' /\ EntriesOK'
    BY <1>2, <2>1, <2>2, FramesAfterMove, CopiesAfterMove, EntriesStay DEF TreeInv
  <2>4. QED BY <1>2, <2>3 DEF TreeInv
<1>6. CASE /\ p \in ArpPacket /\ p.operation = "request" /\ p.destIp = ip[<<h>>]
           /\ wire' = taken (+) Enqueued(h, LinksOf(h), Arp("reply", MacAddress(<<h>>), p.sourceMac, ip[<<h>>], p.sourceIp))
           /\ UNCHANGED <<header, arpVars, arrived>>
  <2> DEFINE a == Arp("reply", MacAddress(<<h>>), p.sourceMac, ip[<<h>>], p.sourceIp)
             S == {Frame(h, l, a) : l \in LinksOf(h)}
  <2>1. S = {Frame(h, f.on, a)}
    BY <1>4
  <2>2. a = Arp("reply", MacAddress(Interface(h, f.on)), p.sourceMac, p.destIp, p.sourceIp)
    BY <1>4, <1>6
  <2>3. wire' = taken (+) SetToBag(S)
    BY <1>6 DEF Enqueued
  <2> HIDE DEF a, S
  <2>4. FrameOK(Frame(h, f.on, a))' /\ IsArp(Frame(h, f.on, a).packet)
    BY <1>2, <1>3, <1>6, <2>2, AnswerOK
  <2>5. \A g \in S : FrameOK(g)' /\ IsArp(g.packet)
    BY <2>1, <2>4
  <2>6. Moved(f, S)
    BY <2>3, Moves
  <2>7. UNCHANGED <<header, arpTable, waitingForArpReply, arrived>>
    BY <1>6 DEF arpVars
  <2>8. FramesOK' /\ EntriesOK'
    BY <1>2, <2>5, <2>6, <2>7, FramesAfterMove, EntriesStay DEF TreeInv
  <2>9. OneCopy'
    <3>1. \A g, k \in S : g = k
      BY <2>1
    <3>2. QED BY <2>5, <2>6, <2>7, <3>1, CopiesAfterMove DEF TreeInv
  <2>10. QED BY <1>2, <2>8, <2>9 DEF TreeInv
<1>7. CASE /\ p \in ArpPacket /\ UNCHANGED arrived
           /\ arpTable' = [arpTable EXCEPT ![h][p.sourceIp] = Copy(p.sourceMac)]
           /\ sendUDPPacket(h, D, Copy(p.sourceMac), taken)
           /\ waitingForArpReply' = [waitingForArpReply EXCEPT ![h][p.sourceIp] = {}]
  <2>1. p.sourceIp \in Ips /\ p.sourceMac \in Mac /\ IsArp(p)
    BY <1>7, ArpIsArp DEF ArpPacket
  <2>2. Copy(p.sourceMac) \in Mac /\ Copy(p.sourceMac).copy
    BY <2>1, Interfaces, MacAddresses
  <2>3. D \in SUBSET Datagrams
    BY <2>1 DEF Parts, ListsOK, CountersOK
  <2>4. NewAt(h, D)
    BY <2>1 DEF SentOnce, NewAt
  <2>5. IsABag(taken) /\ DataStays(taken)
    BY <2>1, Taken, TakenOff DEF DataStays
  <2>6. SameLists
    BY <1>4, <1>7 DEF Parts, ListsOK, SameLists
  <2>7. EntriesOK'
    <3>1. \A x \in Hosts \cup Routers : \A b \in Ips : arpTable'[x][b] =
            IF x = h /\ b = p.sourceIp THEN Copy(p.sourceMac) ELSE arpTable[x][b]
      BY <1>7, <2>1 DEF Parts, ArpTablesOK
    <3>2. \A r \in Routers : \A b \in Ips : arpTable'[r][b] = arpTable[r][b]
      BY <1>4, <3>1
    <3>3. \A r \in Routers : \A b \in Ips : EntryOK(r, b)'
      BY <1>1, <3>2 DEF TreeInv, EntriesOK, EntryOK, LeadsOn
    <3>4. \A g \in Hosts : \A b \in Ips : arpTable'[g][b] # NoMac => arpTable'[g][b].copy
      BY <2>2, <3>1 DEF TreeInv, EntriesOK
    <3>5. QED BY <3>3, <3>4 DEF EntriesOK
  <2> DEFINE m == Copy(p.sourceMac)
  <2>8. m \in Mac /\ m.copy /\ sendUDPPacket(h, D, m, taken) /\ UNCHANGED arrived
    BY <1>7, <2>2
  <2> HIDE DEF D, taken, m
  <2>9. Sends(h, D, m, taken)
    BY <2>3, <2>5, <2>8, SendingAdds
  <2>10. FramesOK' /\ OneCopy'
    BY <1>2, <2>3, <2>4, <2>5, <2>6, <2>8, <2>9, SentInTree
  <2>11. QED BY <1>2, <2>7, <2>10 DEF TreeInv
<1>8. CASE /\ p \in DOMAIN header /\ wire' = taken /\ UNCHANGED <<header, arpVars>>
           /\ arrived' = [arrived EXCEPT ![h] = Append(@, p)]
  <2>1. Moved(f, {})
    BY <1>8, Moves
  <2>2. UNCHANGED <<header, arpTable, waitingForArpReply>>
    BY <1>8 DEF arpVars
  <2>3. FramesOK' /\ EntriesOK'
    BY <1>2, <2>1, <2>2, FramesAfterMove, EntriesStay DEF TreeInv
  <2>4. /\ \A g \in Hosts \ {h} : arrived'[g] = arrived[g]
        /\ DOMAIN arrived'[h] = DOMAIN arrived[h] \cup {Len(arrived[h]) + 1}
        /\ arrived'[h][Len(arrived[h]) + 1] = p /\ Len(arrived[h]) + 1 \notin DOMAIN arrived[h]
        /\ \A k \in DOMAIN arrived[h] : arrived'[h][k] = arrived[h][k]
    <3>1. arrived \in [Hosts -> Seq(DOMAIN header)]
      BY DEF Parts, ArrivalsOK
    <3>2. arrived'[h] = Append(arrived[h], p) /\ arrived[h] \in Seq(DOMAIN header)
      BY <1>8, <3>1
    <3>3. \A g \in Hosts \ {h} : arrived'[g] = arrived[g]
      BY <1>8, <3>1
    <3>4. QED BY <1>8, <3>2, <3>3
  <2>5. InOnePlace(p)'
    <3>1. InOnePlace(p) /\ wire[f] = 1 /\ ~Waits(p) /\ ~HasArrived(p)
      BY <1>8 DEF TreeInv, OneCopy, InOnePlace
    <3>2. \A g \in DOMAIN wire' : g.packet # p
      BY <2>1, <3>1, AfterMove
    <3>3. \A g \in Hosts : \A k \in DOMAIN arrived'[g] : arrived'[g][k] = p => g = h /\ k = Len(arrived[h]) + 1
      BY <2>4, <3>1 DEF HasArrived
    <3>4. \A r \in Routers : \A a \in Ips : p \notin waitingForArpReply'[r][a]
      BY <2>2, <3>1 DEF Waits
    <3>5. ~Waits(p)'
      BY <3>4 DEF Waits
    <3> HIDE DEF p
    <3>6. QED BY <3>2, <3>3, <3>4, <3>5 DEF InOnePlace
  <2>6. ASSUME NEW q \in DOMAIN header, q # p PROVE InOnePlace(q)'
    <3>1. SameOnWire(q)
      BY <2>1, <2>6, AfterMove
    <3>2. SameInLists(q)
      BY <2>2 DEF SameInLists
    <3>3. SameArrivals(q)
      BY <2>4, <2>6 DEF SameArrivals
    <3>4. QED BY <3>1, <3>2, <3>3, StaysInPlace DEF TreeInv, OneCopy
  <2>7. QED BY <1>2, <2>2, <2>3, <2>5, <2>6 DEF TreeInv, OneCopy
<1>9. CASE HeaderOf(p).lost /\ wire' = taken /\ UNCHANGED <<header, arpVars, dataVars, panicked>>
  BY <1>5, <1>9 DEF dataVars
<1>10. CASE IsArp(p) /\ processARPPacket(h, f)
  <2>1. p \in ArpPacket
    BY <1>3, <1>10, PacketFields DEF GoodFrame
  <2>2. UNCHANGED arrived
    BY <1>10 DEF processARPPacket, dataVars
  <2>3. QED BY <1>5, <1>6, <1>7, <1>10, <2>1, <2>2 DEF processARPPacket
<1>11. CASE ~IsArp(p) /\ processUDPPacket(h, f)
  <2>1. p \in DOMAIN header
    BY <1>3, <1>11, ArpIsArp DEF GoodFrame
  <2>2. wire' = taken /\ UNCHANGED <<header, arpVars>>
    BY <1>11 DEF processUDPPacket
  <2>3. arrived' = arrived \/ arrived' = [arrived EXCEPT ![h] = Append(@, p)]
    BY <1>11 DEF processUDPPacket, processDataPacket, dataVars
  <2>4. QED BY <1>5, <1>8, <2>1, <2>2, <2>3
<1>12. QED BY <1>9, <1>10, <1>11 DEF HostReceivesPacket
-----------------------------------------------------------------------------
\* What a router sends: packets with headers for the link, and requests.
LEMMA HeadersToSend ==
  ASSUME Parts, NEW r \in Routers, NEW g, GoodHeader(g), NEW t \in Translated(r, g)
  PROVE  /\ t.destIp \in Ips
         /\ \A l, m : LET h == AddMacHeader(r, l, t, m)
                      IN h.sourceMac = MacAddress(<<r, l>>) /\ h.destinationMac = m
         /\ ~natEnabled(r) => t = g
<1>1. GoodHeader(t)
  <2>1. \A a \in Ips : GoodHeader([g EXCEPT !.sourceIp = a]) /\ GoodHeader([g EXCEPT !.destIp = a])
    BY DEF GoodHeader, Header
  <2>2. natEnabled(r) => externalIP[r] \in Ips
    BY NatAssumption DEF natEnabled
  <2>3. natTable[r] \subseteq Ips
    BY DEF Parts, NatOK
  <2>4. CASE t = g
    BY <2>4
  <2>5. CASE Outward(r, g) /\ t = [g EXCEPT !.sourceIp = externalIP[r]]
    BY <2>1, <2>2, <2>5 DEF Outward
  <2>6. CASE t \in Inbound(r, g)
    BY <2>1, <2>3, <2>6 DEF Inbound
  <2>7. QED BY <2>4, <2>5, <2>6 DEF Translated
<1>2. t.destIp \in Ips
  BY <1>1 DEF GoodHeader, Header
<1>3. \A l, m : LET h == AddMacHeader(r, l, t, m)
                IN h.sourceMac = MacAddress(<<r, l>>) /\ h.destinationMac = m
  BY <1>1 DEF GoodHeader, Header, AddMacHeader
<1>4. QED BY <1>2, <1>3, TranslatedIs

LEMMA RouterLinks ==
  ASSUME LoopFree(Side), Uncopied(Side, Calm), NEW r \in Routers, NEW l \in LinksOf(r)
  PROVE  /\ l \in Links /\ r \in l /\ r \notin Switches /\ r \notin Hosts
         /\ Interface(r, l) = <<r, l>> /\ Forwards(r, l)
         /\ \A m : OnSide(r, l, m) <=> m = MacAddress(<<r, l>>)
         /\ \A x \in l \ {r} : x \in Calm => ~natEnabled(r)
<1>1. l \in Links /\ r \in l /\ r \notin Switches /\ r \notin Hosts
  BY NetworkAssumption DEF LinksOf
<1>2. Interface(r, l) = <<r, l>> /\ Forwards(r, l)
  BY <1>1 DEF Interface, Forwards
<1>3. Side[r][l] = {<<r, l>>}
  BY <1>2 DEF LoopFree
<1>4. \A m : OnSide(r, l, m) <=> m = MacAddress(<<r, l>>)
  BY <1>3 DEF OnSide
<1>5. ASSUME NEW x \in l \ {r}, x \in Calm PROVE ~natEnabled(r)
  <2>1. l \in LinksOf(x) /\ r \in l \ {x}
    BY <1>1, <1>5 DEF LinksOf
  <2>2. QED BY <1>1, <1>5, <2>1 DEF Uncopied
<1>6. QED BY <1>1, <1>2, <1>4, <1>5

LEMMA SentOnIsOK ==
  ASSUME Parts, LoopFree(Side), Uncopied(Side, Calm), NEW r \in Routers, NEW g, GoodHeader(g),
         NEW t \in Translated(r, g), NEW l \in getRoute(r, g.destIp), NEW m, m # NoMac, LeadsOn(r, t.destIp, m),
         NEW p, ~IsArp(p), header'[p] = AddMacHeader(r, l, t, m), UNCHANGED forwardingTable
  PROVE  FrameOK(Frame(r, l, p))'
<1> DEFINE f == Frame(r, l, p)
<1>1. f.from = r /\ f.on = l /\ f.packet = p
  BY DEF Frame
<1>2. l \in LinksOf(r)
  BY NetworkAssumption DEF getRoute
<1>3. header'[p].sourceMac = MacAddress(<<r, l>>) /\ header'[p].destinationMac = m
  BY HeadersToSend
<1> HIDE DEF f
<1>4. FromThere(f)'
  BY <1>1, <1>2, <1>3, RouterLinks DEF FromThere, HeaderOf
<1>5. ~OnSide(r, l, m)
  BY <1>2, RouterLinks DEF LeadsOn
<1>6. \A x \in l \ {r} : x \in Calm => m \in DOMAIN forwardingTable[x]
  <2>1. ~natEnabled(r) => t = g
    BY HeadersToSend
  <2>2. \A x \in l \ {r} : x \in Calm => ~natEnabled(r)
    BY <1>2, RouterLinks
  <2>3. QED BY <2>1, <2>2 DEF LeadsOn
<1>7. DataOK(f)'
  BY <1>1, <1>3, <1>5, <1>6 DEF DataOK, Expected, OnSide
<1>8. FrameOK(f)'
  BY <1>1, <1>4, <1>7 DEF FrameOK
<1>9. QED BY <1>8 DEF f

LEMMA AskedIsOK ==
  ASSUME Parts, LoopFree(Side), Uncopied(Side, Calm), NEW r \in Routers, NEW g, GoodHeader(g),
         NEW t \in Translated(r, g), NEW l \in getRoute(r, g.destIp)
  PROVE  LET f == Frame(r, l, ArpRequest(r, l, t.destIp)) IN FrameOK(f)' /\ IsArp(f.packet)
<1> DEFINE p == ArpRequest(r, l, t.destIp)
           f == Frame(r, l, p)
<1>1. f.from = r /\ f.on = l /\ f.packet = p
  BY DEF Frame
<1>2. l \in LinksOf(r)
  BY NetworkAssumption DEF getRoute
<1>3. /\ IsArp(p) /\ p.operation = "request" /\ p.sourceMac = MacAddress(<<r, l>>)
      /\ p.destinationMac = Broadcast /\ p.destIp = t.destIp
  BY <1>2, RouterLinks DEF ArpRequest, Arp, IsArp
<1> HIDE DEF p, f
<1>4. FromThere(f)'
  BY <1>1, <1>2, <1>3, RouterLinks DEF FromThere, HeaderOf
<1>5. AsksOverRoute(p.sourceMac, p.destIp)
  <2> SUFFICES ASSUME NEW q \in Routers, NEW k \in LinksOf(q), ~natEnabled(q), p.sourceMac = MacAddress(<<q, k>>)
               PROVE  k \in getRoute(q, p.destIp)
    BY DEF AsksOverRoute
  <2>1. <<r, l>> = <<q, k>>
    BY <1>3, MacAddresses
  <2>2. q = r /\ k = l
    BY <2>1
  <2>3. QED BY <1>3, <2>2, HeadersToSend
<1>6. FrameOK(f)' /\ IsArp(f.packet)
  BY <1>1, <1>3, <1>4, <1>5 DEF FrameOK, RequestOK
<1>7. QED BY <1>6 DEF f, p

-----------------------------------------------------------------------------
\* Before a router forwards the packets g they are in its hands only.
InHand(r, g, lists, base) ==
  /\ DOMAIN base \subseteq DOMAIN wire /\ DOMAIN g \subseteq DOMAIN header
  /\ \A m \in DOMAIN base : m.packet \notin DOMAIN g
  /\ \A m \in DOMAIN wire : ~IsArp(m.packet) /\ m.packet \notin DOMAIN g => m \in DOMAIN base /\ base[m] = wire[m]
  /\ \A a \in Ips : \A p : p \notin DOMAIN g => (p \in lists[a] <=> p \in waitingForArpReply[r][a])
  /\ \A p \in DOMAIN g : /\ ~HasArrived(p) /\ \A a \in Ips : p \notin lists[a]
                         /\ \A x \in Routers \ {r} : \A a \in Ips : p \notin waitingForArpReply[x][a]
ToForward(r, g, table) ==
  /\ \A p \in DOMAIN g : GoodHeader(g[p])
  /\ \A a \in Ips : LeadsOn(r, a, table[a])

LEMMA OutcomeFrames ==
  ASSUME Parts, LoopFree(Side), Uncopied(Side, Calm), FramesOK, NEW r \in Routers,
         NEW g, NEW table, NEW lists, NEW base, NEW via, NEW to,
         Outcome(r, g, table, lists, base, via, to), InHand(r, g, lists, base), ToForward(r, g, table),
         UNCHANGED forwardingTable
  PROVE  FramesOK'
<1>1. \A p \in DOMAIN g : p \in DOMAIN header /\ ~IsArp(p)
  BY PacketFields DEF InHand, Parts, TrafficOK
<1>2. ASSUME NEW m \in DOMAIN base PROVE FrameOK(m)'
  <2>1. m \in DOMAIN wire /\ m.packet \notin DOMAIN g /\ FrameOK(m)
    BY <1>2 DEF InHand, FramesOK
  <2>2. ~IsArp(m.packet) => SameMacs(m.packet)
    BY <2>1, ArpIsArp DEF Outcome, NewHeadersAre, SameMacs, Parts, TrafficOK, GoodFrame
  <2>3. Grown
    BY DEF Grown
  <2>4. QED BY <2>1, <2>2, <2>3, FrameStays
<1>3. ASSUME NEW p \in Routable(r, g)
      PROVE  /\ Known(table, to, p) => FrameOK(SendsOn(r, via, p))'
             /\ ~Known(table, to, p) => FrameOK(AsksFor(r, via, to, p))'
  <2> DEFINE t == to[p]
             l == via[p]
             h == g[p]
             n == table[t.destIp]
  <2>1. p \in DOMAIN g /\ ~IsArp(p) /\ GoodHeader(h) /\ l \in getRoute(r, h.destIp) /\ t \in Translated(r, h)
    BY <1>1 DEF Routable, Outcome, Choices, ToForward
  <2>2. Known(table, to, p) => header'[p] = AddMacHeader(r, l, t, n)
    BY DEF Outcome, NewHeadersAre
  <2> HIDE DEF t, l, h, n
  <2>3. t.destIp \in Ips
    BY <2>1, HeadersToSend
  <2>4. LeadsOn(r, t.destIp, n)
    BY <2>3 DEF ToForward, n
  <2>5. Known(table, to, p) => n # NoMac
    BY DEF Known, n, t
  <2>6. Known(table, to, p) => FrameOK(Frame(r, l, p))'
    BY <2>1, <2>2, <2>4, <2>5, SentOnIsOK
  <2>7. FrameOK(Frame(r, l, ArpRequest(r, l, t.destIp)))'
    BY <2>1, AskedIsOK
  <2>8. QED BY <2>6, <2>7 DEF SendsOn, AsksFor, l, t
<1>4. QED BY <1>2, <1>3 DEF FramesOK, Outcome, NewFramesAre

LEMMA OutcomeCopies ==
  ASSUME Parts, OneCopy, NEW r \in Routers,
         NEW g, NEW table, NEW lists, NEW base, NEW via, NEW to,
         Outcome(r, g, table, lists, base, via, to), InHand(r, g, lists, base), UNCHANGED arrived
  PROVE  OneCopy'
<1>1. /\ \A p \in DOMAIN header : ~IsArp(p) /\ InOnePlace(p)
      /\ DOMAIN header' = DOMAIN header
      /\ Routable(r, g) \subseteq DOMAIN g
  BY PacketFields DEF Parts, TrafficOK, OneCopy, Outcome, NewHeadersAre, Routable
<1>2. \A p : SendsOn(r, via, p).packet = p /\ IsArp(AsksFor(r, via, to, p).packet)
  BY DEF SendsOn, AsksFor, Frame, ArpRequest, Arp, IsArp
<1>3. \A m \in DOMAIN wire' : ~IsArp(m.packet) =>
        \/ m \in DOMAIN base /\ m.packet \notin DOMAIN g /\ wire'[m] = base[m]
        \/ /\ m.packet \in Routable(r, g) /\ Known(table, to, m.packet)
           /\ m = SendsOn(r, via, m.packet) /\ wire'[m] = 1
  BY <1>1, <1>2 DEF Outcome, NewFramesAre, InHand
<1>4. \A a \in Ips : waitingForArpReply'[r][a] =
        lists[a] \cup {p \in Routable(r, g) : ~Known(table, to, p) /\ to[p].destIp = a}
  BY DEF Outcome, NewListsAre
<1>5. \A x \in Routers \ {r} : waitingForArpReply'[x] = waitingForArpReply[x]
  BY DEF Outcome, NewListsAre
<1>6. ASSUME NEW p \in DOMAIN header, p \notin DOMAIN g PROVE InOnePlace(p)'
  <2>1. SameOnWire(p)
    <3>1. \A m : m.packet = p /\ m \in DOMAIN wire => m \in DOMAIN base /\ base[m] = wire[m]
      BY <1>1, <1>6 DEF InHand
    <3>2. \A m : m.packet = p /\ m \in DOMAIN base => m \in DOMAIN wire' /\ m \in DOMAIN wire
      BY DEF InHand, Outcome, NewFramesAre
    <3>3. \A m : m.packet = p /\ m \in DOMAIN wire' => m \in DOMAIN base /\ wire'[m] = base[m]
      BY <1>1, <1>3, <1>6
    <3>4. QED BY <3>1, <3>2, <3>3 DEF SameOnWire
  <2>2. SameInLists(p)
    BY <1>1, <1>4, <1>5, <1>6 DEF SameInLists, InHand
  <2>3. SameArrivals(p)
    BY DEF SameArrivals
  <2>4. QED BY <1>1, <2>1, <2>2, <2>3, StaysInPlace
<1>7. ASSUME NEW p \in DOMAIN g PROVE InOnePlace(p)'
  <2>1. p \in DOMAIN header /\ ~IsArp(p) /\ ~HasArrived(p)'
    BY <1>1 DEF InHand, HasArrived
  <2>2. \A m \in DOMAIN wire' : m.packet = p =>
          p \in Routable(r, g) /\ Known(table, to, p) /\ m = SendsOn(r, via, p) /\ wire'[m] = 1
    BY <1>3, <2>1
  <2>3. \A x \in Routers : \A a \in Ips : p \in waitingForArpReply'[x][a] =>
          x = r /\ p \in Routable(r, g) /\ ~Known(table, to, p) /\ a = to[p].destIp
    BY <1>4, <1>5 DEF InHand
  <2>4. CASE p \in Routable(r, g) /\ ~Known(table, to, p)
    <3>1. \A m \in DOMAIN wire' : m.packet # p
      BY <2>2, <2>4
    <3>2. \A x, y \in Routers : \A a, b \in Ips :
            p \in waitingForArpReply'[x][a] /\ p \in waitingForArpReply'[y][b] => x = y /\ a = b
      BY <2>3
    <3>3. \A h \in Hosts : \A k \in DOMAIN arrived'[h] : arrived'[h][k] # p
      BY <2>1 DEF HasArrived
    <3>4. QED BY <2>1, <3>1, <3>2, <3>3 DEF InOnePlace
  <2>5. CASE ~(p \in Routable(r, g) /\ ~Known(table, to, p))
    <3>1. \A x \in Routers : \A a \in Ips : p \notin waitingForArpReply'[x][a]
      BY <2>3, <2>5
    <3>2. ~Waits(p)'
      BY <3>1 DEF Waits
    <3>3. QED BY <2>1, <2>2, <3>2, MovesOnWire
  <2>6. QED BY <2>4, <2>5
<1>8. QED BY <1>1, <1>6, <1>7 DEF OneCopy

-----------------------------------------------------------------------------
\* What a router learns from a reply leads on.
LEMMA ReplyLeadsOn ==
  ASSUME Parts, LoopFree(Side), Uncopied(Side, Calm), NEW f \in DOMAIN wire, FrameOK(f),
         NEW r \in Routers, r \in f.on, r # f.from, f.packet \in ArpPacket, f.packet.operation = "reply"
  PROVE  LeadsOn(r, f.packet.sourceIp, f.packet.sourceMac)
<1> DEFINE m == f.packet.sourceMac
           a == f.packet.sourceIp
<1>1. f.on \in LinksOf(r) /\ f.from \in f.on /\ IsArp(f.packet) /\ f.on \in Links /\ a \in Ips
  BY ArpIsArp DEF Parts, TrafficOK, GoodFrame, LinksOf, ArpPacket
<1>2. FromThere(f) /\ ReplyOK(f) /\ HeaderOf(f.packet).sourceMac = m
  BY <1>1 DEF FrameOK, HeaderOf
<1>3. \A l \in LinksOf(r) : m # MacAddress(<<r, l>>)
  <2>1. \A l \in LinksOf(r) : <<r, l>> \notin Side[f.from][f.on]
    BY <1>1, <1>2 DEF LoopFree, FromThere
  <2>2. QED BY <1>2, <2>1, MacAddresses DEF FromThere, OnSide
<1>4. ASSUME ~natEnabled(r), NEW l \in getRoute(r, a), NEW s \in l \ {r}, s \in Calm
      PROVE  m \in DOMAIN forwardingTable[s]
  <2>1. f.packet.destinationMac = MacAddress(<<r, f.on>>)
    BY <1>1, <1>2, RouterLinks DEF ReplyOK
  <2>2. f.on \in getRoute(r, a)
    BY <1>1, <1>2, <1>4, <2>1 DEF ReplyOK, AsksOverRoute
  <2>3. l = f.on
    BY <1>1, <1>4, <2>2 DEF Uncopied
  <2>4. s = f.from
    BY <1>1, <1>4, <2>3, TheOther
  <2>5. QED BY <1>2, <1>4, <2>4 DEF FromThere, Uncopied
<1>5. QED BY <1>3, <1>4 DEF LeadsOn

\* What waits for a reply is in the hands of the router that takes the reply, and a
\* packet in those of the router that takes it off the link.
LEMMA LearnerHolds ==
  ASSUME Parts, OneCopy, NEW f \in DOMAIN wire, NEW r \in Routers, NEW via, NEW to, Learns(r, f, via, to)
  PROVE  InHand(r, [q \in Waiting(r, f) |-> header[q]],
                [waitingForArpReply[r] EXCEPT ![f.packet.sourceIp] = {}], BagRemove(wire, f))
<1> DEFINE p == f.packet
           g == [q \in Waiting(r, f) |-> header[q]]
           lists == [waitingForArpReply[r] EXCEPT ![p.sourceIp] = {}]
           taken == BagRemove(wire, f)
<1>1. p \in ArpPacket /\ IsArp(p) /\ p.sourceIp \in Ips
  BY ArpIsArp DEF Learns, ArpPacket
<1>2. DOMAIN g = Waiting(r, f) /\ Waiting(r, f) \subseteq DOMAIN header
  BY <1>1 DEF Parts, ListsOK, Waiting
<1>3. \A a \in Ips : lists[a] = IF a = p.sourceIp THEN {} ELSE waitingForArpReply[r][a]
  BY <1>1 DEF Parts, ListsOK
<1> HIDE DEF lists, taken, g, p
<1>4. \A q \in DOMAIN g : q \in DOMAIN header /\ q \in waitingForArpReply[r][p.sourceIp] /\ InOnePlace(q)
                          /\ Waits(q) /\ ~IsArp(q)
  BY <1>1, <1>2, PacketFields DEF Waiting, p, OneCopy, Waits, Parts, TrafficOK
<1>5. DOMAIN taken \subseteq DOMAIN wire /\ DOMAIN wire \ {f} \subseteq DOMAIN taken
      /\ \A m \in DOMAIN wire \ {f} : taken[m] = wire[m]
  BY TakenOff DEF taken
<1>6. \A m \in DOMAIN taken : m.packet \notin DOMAIN g
  BY <1>4, <1>5 DEF InOnePlace
<1>7. \A m \in DOMAIN wire : ~IsArp(m.packet) => m \in DOMAIN taken /\ taken[m] = wire[m]
  BY <1>1, <1>5 DEF p
<1>8. \A a \in Ips : \A q : q \notin DOMAIN g => (q \in lists[a] <=> q \in waitingForArpReply[r][a])
  BY <1>2, <1>3 DEF Waiting, p
<1>9. ASSUME NEW q \in DOMAIN g
      PROVE  /\ ~HasArrived(q) /\ \A a \in Ips : q \notin lists[a]
             /\ \A x \in Routers \ {r} : \A a \in Ips : q \notin waitingForArpReply[x][a]
  <2>1. ~HasArrived(q)
    BY <1>4 DEF InOnePlace
  <2>2. \A x \in Routers : \A a \in Ips : q \in waitingForArpReply[x][a] => x = r /\ a = p.sourceIp
    BY <1>1, <1>4 DEF InOnePlace
  <2>3. QED BY <1>3, <2>1, <2>2
<1>10. InHand(r, g, lists, taken)
  BY <1>2, <1>5, <1>6, <1>7, <1>8, <1>9 DEF InHand
<1>11. QED BY <1>10 DEF g, lists, taken, p

LEMMA PasserHolds ==
  ASSUME Parts, OneCopy, NEW f \in DOMAIN wire, NEW r \in Routers, f.packet \in DOMAIN header, NEW h
  PROVE  InHand(r, [q \in {f.packet} |-> h], waitingForArpReply[r], BagRemove(wire, f))
<1> DEFINE p == f.packet
           g == [q \in {p} |-> h]
           taken == BagRemove(wire, f)
<1>1. DOMAIN g = {p} /\ g[p] = h
  OBVIOUS
<1>2. wire[f] = 1 /\ ~Waits(p) /\ ~HasArrived(p) /\ \A m \in DOMAIN wire : m.packet = p => m = f
  BY DEF InOnePlace, OneCopy
<1> HIDE DEF g, taken
<1>3. DOMAIN taken \subseteq DOMAIN wire /\ DOMAIN wire \ {f} \subseteq DOMAIN taken /\ f \notin DOMAIN taken
      /\ \A m \in DOMAIN wire \ {f} : taken[m] = wire[m]
  BY <1>2, TakenOff DEF taken
<1>4. \A x \in Routers : \A a \in Ips : p \notin waitingForArpReply[x][a]
  BY <1>2 DEF Waits
<1>5. p \in DOMAIN header
  OBVIOUS
<1> HIDE DEF p
<1>6. \A m \in DOMAIN taken : m.packet # p
  BY <1>2, <1>3
<1>7. \A m \in DOMAIN wire : m.packet # p => m \in DOMAIN taken /\ taken[m] = wire[m]
  BY <1>3 DEF p
<1>8. InHand(r, g, waitingForArpReply[r], taken)
  BY <1>1, <1>2, <1>3, <1>4, <1>5, <1>6, <1>7 DEF InHand
<1>9. QED BY <1>8 DEF g, taken, p

LEMMA LearningInTree ==
  ASSUME Parts, LoopFree(Side), Uncopied(Side, Calm), TreeInv, NEW f \in DOMAIN wire,
         NEW r \in Routers, r \in f.on, r # f.from, NEW via, NEW to, Learns(r, f, via, to),
         UNCHANGED <<arrived, forwardingTable>>
  PROVE  FramesOK' /\ OneCopy' /\ EntriesOK'
<1> DEFINE p == f.packet
           g == [q \in Waiting(r, f) |-> header[q]]
           table == Updated(r, f)
           lists == [waitingForArpReply[r] EXCEPT ![p.sourceIp] = {}]
           taken == BagRemove(wire, f)
<1>1. p \in ArpPacket /\ p.operation = "reply" /\ IsArp(p) /\ p.sourceIp \in Ips /\ FrameOK(f)
  BY ArpIsArp DEF Learns, ArpPacket, TreeInv, FramesOK
<1>2. Outcome(r, g, table, lists, taken, via, to) /\ arpTable' = [arpTable EXCEPT ![r] = table]
  BY DEF Learns
<1>3. DOMAIN g = Waiting(r, f) /\ Waiting(r, f) \subseteq DOMAIN header
  BY <1>1 DEF Parts, ListsOK, Waiting
<1>4. \A a \in Ips : /\ table[a] = IF a = p.sourceIp THEN p.sourceMac ELSE arpTable[r][a]
                     /\ lists[a] = IF a = p.sourceIp THEN {} ELSE waitingForArpReply[r][a]
  BY <1>1 DEF Updated, Parts, ListsOK, ArpTablesOK
<1>5. \A q \in DOMAIN g : g[q] = header[q] /\ GoodHeader(header[q])
  BY <1>3 DEF Parts, TrafficOK
<1>6. LeadsOn(r, p.sourceIp, p.sourceMac)
  BY <1>1, ReplyLeadsOn
<1> HIDE DEF table, lists, taken, g, p
<1>7. \A a \in Ips : LeadsOn(r, a, table[a])
  BY <1>4, <1>6 DEF TreeInv, EntriesOK, EntryOK
<1>8. ToForward(r, g, table)
  BY <1>5, <1>7 DEF ToForward
<1>9. InHand(r, g, lists, taken)
  BY LearnerHolds DEF g, lists, taken, p, TreeInv
<1>10. FramesOK' /\ OneCopy'
  BY <1>2, <1>8, <1>9, OutcomeFrames, OutcomeCopies DEF TreeInv
<1>11. EntriesOK'
  <2>1. /\ \A q \in Routers : \A a \in Ips : arpTable'[q][a] = IF q = r THEN table[a] ELSE arpTable[q][a]
        /\ \A h \in Hosts : arpTable'[h] = arpTable[h]
    BY <1>2, NetworkAssumption DEF Parts, ArpTablesOK
  <2>2. \A q \in Routers : \A a \in Ips : LeadsOn(q, a, arpTable'[q][a])
    BY <1>7, <2>1 DEF TreeInv, EntriesOK, EntryOK
  <2>3. \A q \in Routers : \A a \in Ips : EntryOK(q, a)'
    BY <2>2 DEF EntryOK, LeadsOn
  <2>4. QED BY <2>1, <2>3 DEF TreeInv, EntriesOK
<1>12. QED BY <1>10, <1>11

LEMMA PassingInTree ==
  ASSUME Parts, LoopFree(Side), Uncopied(Side, Calm), TreeInv, NEW f \in DOMAIN wire,
         NEW r \in Routers, NEW h, NEW via, NEW to, Passes(r, f, h, via, to),
         UNCHANGED <<arrived, forwardingTable>>
  PROVE  FramesOK' /\ OneCopy'
<1> DEFINE p == f.packet
           g == [q \in {p} |-> h]
           taken == BagRemove(wire, f)
<1>1. p \in DOMAIN header /\ GoodHeader(h) /\ InOnePlace(p)
  BY DEF Passes, SameAddresses, TreeInv, OneCopy
<1>2. Outcome(r, g, arpTable[r], waitingForArpReply[r], taken, via, to)
  BY DEF Passes
<1>3. DOMAIN g = {p} /\ g[p] = h
  OBVIOUS
<1> HIDE DEF g, taken
<1>5. ToForward(r, g, arpTable[r])
  BY <1>1, <1>3 DEF ToForward, TreeInv, EntriesOK, EntryOK
<1>6. InHand(r, g, waitingForArpReply[r], taken)
  <2>1. OneCopy /\ f.packet \in DOMAIN header
    BY <1>1 DEF TreeInv
  <2>2. InHand(r, [q \in {f.packet} |-> h], waitingForArpReply[r], BagRemove(wire, f))
    BY <2>1, PasserHolds
  <2>3. QED BY <2>2 DEF g, taken
<1>7. QED BY <1>2, <1>5, <1>6, OutcomeFrames, OutcomeCopies DEF TreeInv

LEMMA RouterInTree ==
  ASSUME Parts, LoopFree(Side), Uncopied(Side, Calm), TreeInv, NEW f \in DOMAIN wire,
         NEW r \in Routers, r \in f.on, r # f.from, RouterReceivesPacket(r, f)
  PROVE  TreeInv'
<1> DEFINE p == f.packet
<1>1. UNCHANGED <<arrived, forwardingTable>>
  BY DEF RouterReceivesPacket, dataVars
<1>2. TablesOK' /\ Grown
  BY <1>1, TablesStay DEF TreeInv
<1>3. FrameOK(f) /\ f.on \in LinksOf(r)
  BY DEF TreeInv, FramesOK, Parts, TrafficOK, GoodFrame, LinksOf
<1>4. CASE Answers(r, f)
  <2> DEFINE a == Arp("reply", MacAddress(<<r, f.on>>), p.sourceMac, p.destIp, p.sourceIp)
             S == {Frame(r, l, a) : l \in {f.on}}
  <2>1. S = {Frame(r, f.on, a)} /\ wire' = BagRemove(wire, f) (+) SetToBag(S)
    BY <1>4 DEF Answers, Enqueued
  <2>2. a = Arp("reply", MacAddress(Interface(r, f.on)), p.sourceMac, p.destIp, p.sourceIp)
    BY <1>3, RouterLinks
  <2>3. p \in ArpPacket /\ p.operation = "request" /\ UNCHANGED <<header, arpTable, waitingForArpReply, arrived>>
    BY <1>1, <1>4 DEF Answers, arpVars
  <2> HIDE DEF a, S
  <2>4. FrameOK(Frame(r, f.on, a))' /\ IsArp(Frame(r, f.on, a).packet)
    BY <1>2, <1>3, <2>2, <2>3, AnswerOK
  <2>5. \A g, k \in S : FrameOK(g)' /\ IsArp(g.packet) /\ g = k
    BY <2>1, <2>4
  <2>6. Moved(f, S)
    BY <2>1, Moves
  <2>7. FramesOK' /\ EntriesOK' /\ OneCopy'
    BY <1>2, <2>3, <2>5, <2>6, FramesAfterMove, CopiesAfterMove, EntriesStay DEF TreeInv
  <2>8. QED BY <1>2, <2>7 DEF TreeInv
<1>5. ASSUME NEW via, NEW to, Learns(r, f, via, to) PROVE TreeInv'
  <2>1. FramesOK' /\ OneCopy' /\ EntriesOK'
    BY <1>1, <1>5, LearningInTree
  <2>2. QED BY <1>2, <2>1 DEF TreeInv
<1>6. ASSUME NEW h, NEW via, NEW to, Passes(r, f, h, via, to) PROVE TreeInv'
  <2>1. FramesOK' /\ OneCopy'
    BY <1>1, <1>6, PassingInTree
  <2>2. EntriesOK'
    BY <1>2, <1>6, EntriesStay DEF Passes, TreeInv
  <2>3. QED BY <1>2, <2>1, <2>2 DEF TreeInv
<1>7. ASSUME NEW h, Discards(r, f, h) PROVE TreeInv'
  <2>1. /\ p \in DOMAIN header /\ header' = [header EXCEPT ![p] = h] /\ wire' = BagRemove(wire, f)
        /\ UNCHANGED <<arpTable, waitingForArpReply>>
    BY <1>7 DEF Discards, arpVars
  <2>2. Moved(f, {})
    BY <2>1, Moves
  <2>3. /\ DOMAIN header' = DOMAIN header /\ ~IsArp(p) /\ InOnePlace(p)
        /\ \A q : q # p => SameMacs(q)
    BY <2>1, PacketFields DEF SameMacs, Parts, TrafficOK, TreeInv, OneCopy
  <2>4. OneCopy'
    BY <1>1, <2>1, <2>2, <2>3, CopiesAfterMove DEF TreeInv
  <2>5. \A m \in DOMAIN wire' : m \in DOMAIN wire /\ m.packet # p
    BY <2>2, <2>3, AfterMove
  <2>6. FramesOK'
    <3>1. \A m \in DOMAIN wire' : FrameOK(m) /\ SameMacs(m.packet)
      BY <2>3, <2>5 DEF TreeInv, FramesOK
    <3>2. QED BY <1>2, <3>1, FrameStays DEF FramesOK
  <2>7. QED BY <1>2, <2>1, <2>4, <2>6, EntriesStay DEF TreeInv
<1>8. QED BY <1>4, <1>5, <1>6, <1>7, RouterDoes DEF Handles
-----------------------------------------------------------------------------
LEMMA StepInTree ==
  ASSUME Parts, SentOnce, LoopFree(Side), Uncopied(Side, Calm), TreeInv, [Next]_vars
  PROVE  TreeInv'
<1>1. CASE UNCHANGED vars
  <2>1. UNCHANGED <<header, forwardingTable, arpTable, waitingForArpReply, arrived>> /\ wire' = wire
    BY <1>1 DEF vars
  <2>2. TablesOK' /\ Grown
    BY <2>1, TablesStay DEF TreeInv
  <2>3. \A p : SameMacs(p) /\ SameOnWire(p) /\ SameInLists(p) /\ SameArrivals(p)
    BY <2>1 DEF SameMacs, SameOnWire, SameInLists, SameArrivals
  <2>4. FramesOK'
    BY <2>1, <2>2, <2>3, FrameStays DEF TreeInv, FramesOK
  <2>5. OneCopy'
    BY <2>1, <2>3, StaysInPlace DEF TreeInv, OneCopy
  <2>6. QED BY <2>1, <2>2, <2>4, <2>5, EntriesStay DEF TreeInv
<1>2. CASE \E d \in Datagrams : StartTraffic(d)
  BY <1>2, StartInTree
<1>3. CASE \E f \in DOMAIN wire : transferPacket(f)
  BY <1>3, LossInTree
<1>4. ASSUME NEW f \in DOMAIN wire, NEW x \in f.on, Receives(x, f) PROVE TreeInv'
  BY <1>4, SwitchInTree, HostInTree, RouterInTree DEF Receives
<1>5. QED BY <1>1, <1>2, <1>3, <1>4 DEF Next

LEMMA StartsInTree ==
  ASSUME Init
  PROVE  SentOnce /\ TreeInv
<1>1. DOMAIN wire = {} /\ DOMAIN header = {}
  BY DEF Init, EmptyBag, SetToBag
<1>2. /\ waitingForArpReply = [x \in Hosts \cup Routers |-> [a \in Ips |-> {}]]
      /\ arpTable = [x \in Hosts \cup Routers |-> [a \in Ips |-> NoMac]]
      /\ \A s \in Switches : DOMAIN forwardingTable[s] = {}
  BY DEF Init
<1>3. SentOnce
  BY <1>1, <1>2 DEF SentOnce, Unsent
<1>4. FramesOK /\ TablesOK /\ OneCopy
  BY <1>1, <1>2 DEF FramesOK, TablesOK, OneCopy
<1>5. EntriesOK
  BY <1>2 DEF EntriesOK, EntryOK, LeadsOn
<1>6. QED BY <1>3, <1>4, <1>5 DEF TreeInv

LEMMA InTree ==
  ASSUME LoopFree(Side), Uncopied(Side, Calm)
  PROVE  Spec => [](IInv /\ SentOnce /\ TreeInv)
<1>1. Init => SentOnce /\ TreeInv
  BY StartsInTree
<1>2. IInv /\ SentOnce /\ TreeInv /\ [Next]_vars => (SentOnce /\ TreeInv)'
  BY TheParts, StepSentOnce, StepInTree
<1>3. QED BY <1>1, <1>2, Invariance, PTL DEF Spec

LEMMA TablesAgree ==
  ASSUME Parts, LoopFree(Side), TablesOK
  PROVE  SwitchesAgree
<1> SUFFICES ASSUME NEW s \in Switches, NEW m \in DOMAIN forwardingTable[s],
                    NEW x \in forwardingTable[s][m] \ {s}
             PROVE  IF x \in Switches
                    THEN m \in DOMAIN forwardingTable[x] /\ forwardingTable[x][m] # forwardingTable[s][m]
                    ELSE m = MacAddress(Interface(x, forwardingTable[s][m]))
  BY DEF SwitchesAgree
<1> DEFINE l == forwardingTable[s][m]
<1>1. l \in Links /\ s \in l
  BY DEF Parts, SwitchesOK, LinksOf
<1>2. Forwards(x, l) /\ OnSide(x, l, m) /\ (x \in Switches => m \in DOMAIN forwardingTable[x])
  BY DEF TablesOK
<1>3. ~OnSide(s, l, m)
  BY <1>1, <1>2, Apart
<1>4. x \in Switches => forwardingTable[x][m] # l
  BY <1>1, <1>2, <1>3 DEF TablesOK
<1>5. x \notin Switches => m = MacAddress(Interface(x, l))
  <2>1. x \notin Switches => x \in Hosts \cup Routers /\ l \in LinksOf(x)
    BY <1>1, NetworkAssumption DEF LinksOf
  <2>2. x \notin Switches => Side[x][l] = {Interface(x, l)}
    BY <2>1 DEF LoopFree
  <2>3. QED BY <1>2, <2>2 DEF OnSide
<1>6. QED BY <1>2, <1>4, <1>5

\* Where switches make no loop, what they have learned (nswitch.go: the forwarding
\* table) always agrees: following the tables a packet leaves every switch by a link
\* that it did not come by and ends at the station it is for.
THEOREM TablesLeadHome ==
  ASSUME LoopFree(Side), Uncopied(Side, Calm)
  PROVE  Spec => []SwitchesAgree
<1>1. IInv /\ TreeInv => SwitchesAgree
  BY TheParts, TablesAgree DEF TreeInv
<1>2. QED BY <1>1, InTree, PTL

LEMMA OneCopyArrives ==
  ASSUME Parts, OneCopy
  PROVE  NoDuplicates
<1> SUFFICES ASSUME NEW h \in Hosts, NEW j \in DOMAIN arrived[h], NEW k \in DOMAIN arrived[h],
                    arrived[h][j] = arrived[h][k]
             PROVE  j = k
  BY DEF NoDuplicates
<1>1. InOnePlace(arrived[h][j])
  BY DEF OneCopy, Parts, ArrivalsOK
<1>2. QED BY <1>1 DEF InOnePlace

\* Where besides nothing is copied, data is put together, once, exactly if all of it
\* has arrived and its last fragment came last (handleUDP.go: processDataPacket).
THEOREM AssembledWhereNothingIsCopied ==
  ASSUME LoopFree(Side), Uncopied(Side, Calm)
  PROVE  Spec => []AssembledIfLastCameLast
<1>1. IInv /\ TreeInv => NoDuplicates
  BY TheParts, OneCopyArrives DEF TreeInv
<1>2. QED BY <1>1, InTree, AssembledWhereNothingCameTwice, PTL
-----------------------------------------------------------------------------
\* The network implements Internet: where data packets are under way, steps of it
\* send, drop, or count them.
Under(p) == (\E f \in DOMAIN wire : f.packet = p) \/ Waits(p)
InTransit == (DOMAIN header \cap Carried) \ Counted

LEMMA Transit == OneCopy => InTransit = {p \in DOMAIN header : Under(p)}
<1> SUFFICES ASSUME OneCopy PROVE InTransit = {p \in DOMAIN header : Under(p)}
  OBVIOUS
<1>1. \A p : p \in Carried <=> Under(p)
  BY DEF Carried, Under, Waits
<1>2. \A p : p \in Counted <=> HasArrived(p)
  BY DEF Counted, HasArrived
<1>3. \A p \in DOMAIN header : Under(p) => ~HasArrived(p)
  BY DEF OneCopy, InOnePlace, Under
<1>4. QED BY <1>1, <1>2, <1>3 DEF InTransit

LEMMA TransitAfter == OneCopy' => InTransit' = {p \in DOMAIN header' : Under(p)'}
<1>1. (OneCopy => InTransit = {p \in DOMAIN header : Under(p)})'
  BY Transit, PTL
<1>2. QED BY <1>1

Drops ==
  /\ DOMAIN header' = DOMAIN header /\ UNCHANGED arrived
  /\ \A p \in DOMAIN header : Under(p)' => Under(p)
SendsAll(P) ==
  /\ P \subseteq Packets /\ P \cap DOMAIN header = {} /\ DOMAIN header' = DOMAIN header \cup P
  /\ UNCHANGED arrived
  /\ \A p \in DOMAIN header : Under(p)' <=> Under(p)
  /\ \A p \in P : Under(p)'
Counts(h, p) ==
  /\ p \in DOMAIN header /\ DOMAIN header' = DOMAIN header /\ Under(p) /\ ~Under(p)'
  /\ \A q \in DOMAIN header : q # p => (Under(q)' <=> Under(q))
  /\ arrived' = [arrived EXCEPT ![h] = Append(@, p)]

LEMMA DropsServe ==
  ASSUME Parts, OneCopy, OneCopy', Drops
  PROVE  Service!Next
<1>1. InTransit = {p \in DOMAIN header : Under(p)}
  BY Transit
<1>2. InTransit' = {p \in DOMAIN header' : Under(p)'}
  BY TransitAfter
<1>3. InTransit' \subseteq InTransit /\ InTransit \subseteq Packets
  BY <1>1, <1>2 DEF Drops, Parts, TrafficOK
<1>4. Service!Drop(InTransit \ InTransit')
  BY <1>3 DEF Service!Drop, Drops, InTransit
<1>5. QED BY <1>3, <1>4 DEF Service!Next

LEMMA SendsServe ==
  ASSUME Parts, OneCopy, OneCopy', NEW P, SendsAll(P)
  PROVE  Service!Next
<1>1. InTransit = {p \in DOMAIN header : Under(p)}
  BY Transit
<1>2. InTransit' = {p \in DOMAIN header' : Under(p)'}
  BY TransitAfter
<1>3. InTransit' = InTransit \cup P /\ P \in SUBSET Packets
  BY <1>1, <1>2 DEF SendsAll
<1>4. Service!Send(P)
  BY <1>3 DEF Service!Send, SendsAll, InTransit
<1>5. QED BY <1>3, <1>4 DEF Service!Next

LEMMA CountsServe ==
  ASSUME Parts, OneCopy, OneCopy', NEW h \in Hosts, NEW q, h \in Home[q], Counts(h, q)
  PROVE  Service!Next
<1>1. InTransit = {p \in DOMAIN header : Under(p)}
  BY Transit
<1>2. InTransit' = {p \in DOMAIN header' : Under(p)'}
  BY TransitAfter
<1>3. InTransit' = InTransit \ {q} /\ q \in InTransit /\ q \in Packets
  BY <1>1, <1>2 DEF Counts, Parts, TrafficOK
<1>4. Service!Arrive(h, q)
  BY <1>3 DEF Service!Arrive, Counts, InTransit
<1>5. QED BY <1>3, <1>4 DEF Service!Next

-----------------------------------------------------------------------------
\* A node takes a packet, and sends that packet or ARP packets.
LEMMA MovesDrop ==
  ASSUME Parts, NEW f \in DOMAIN wire, NEW S, Moved(f, S), \A g \in S : IsArp(g.packet) \/ g.packet = f.packet,
         DOMAIN header' = DOMAIN header, UNCHANGED <<waitingForArpReply, arrived>>
  PROVE  Drops
<1>1. DOMAIN wire' \subseteq DOMAIN wire \cup S
  BY AfterMove
<1>2. \A p \in DOMAIN header : ~IsArp(p)
  BY PacketFields DEF Parts, TrafficOK
<1>3. QED BY <1>1, <1>2, OthersStay DEF Drops, Under

LEMMA LossDrops ==
  ASSUME Parts, NEW f \in DOMAIN wire, transferPacket(f)
  PROVE  Drops
<1>1. UNCHANGED <<waitingForArpReply, arrived>>
  BY DEF transferPacket, arpVars, dataVars
<1>2. f.packet \in DOMAIN header \cup ArpPacket /\ \A p \in DOMAIN header : ~IsArp(p)
  BY PacketFields DEF Parts, TrafficOK, GoodFrame
<1>3. CASE IsArp(f.packet)
  <2>1. PICK copies \in SUBSET {g \in DOMAIN wire : g.packet = f.packet} :
          wire' = (wire (-) SetToBag(copies)) (+)
            SetToBag({Frame(g.from, g.on, [f.packet EXCEPT !.lost = TRUE]) : g \in copies})
    BY <1>3 DEF transferPacket
  <2> DEFINE base == wire (-) SetToBag(copies)
             q == [f.packet EXCEPT !.lost = TRUE]
             marked == {Frame(g.from, g.on, q) : g \in copies}
  <2>2. header' = header /\ IsArp(q)
    <3>1. f.packet \in ArpPacket
      BY <1>2, <1>3
    <3>2. q \in ArpPacket
      BY <3>1 DEF ArpPacket
    <3>3. QED BY <1>3, <3>2, ArpIsArp DEF transferPacket
  <2> HIDE DEF q
  <2>3. \A m \in marked : m.packet = q
    BY DEF Frame
  <2>4. IsABag(base) /\ DOMAIN base \subseteq DOMAIN wire
    BY BagDifference DEF Parts, TrafficOK
  <2>5. wire' = base (+) SetToBag(marked)
    BY <2>1 DEF q
  <2> HIDE DEF base, marked
  <2>6. DOMAIN wire' \subseteq DOMAIN wire \cup marked
    <3>1. AddsUp(wire', base, SetToBag(marked))
      BY <2>4, <2>5, Added, SetIsBag
    <3>2. QED BY <2>4, <3>1, SetIsBag DEF AddsUp
  <2>7. QED BY <1>1, <1>2, <2>2, <2>3, <2>6, OthersStay DEF Drops, Under
<1>4. CASE ~IsArp(f.packet)
  <2>1. wire' = wire /\ DOMAIN header' = DOMAIN header
    BY <1>4 DEF transferPacket
  <2>2. QED BY <1>1, <2>1, OthersStay DEF Drops, Under
<1>5. QED BY <1>3, <1>4

LEMMA SwitchDrops ==
  ASSUME Parts, NEW f \in DOMAIN wire, NEW s \in Switches, SwitchReceivesPacket(s, f)
  PROVE  Drops
<1>1. UNCHANGED <<header, waitingForArpReply, arrived>>
  BY DEF SwitchReceivesPacket, arpVars, dataVars
<1>2. CASE wire' = BagRemove(wire, f)
  <2>1. Moved(f, {})
    BY <1>2, Moves
  <2>2. QED BY <1>1, <2>1, MovesDrop
<1>3. CASE wire' = BagRemove(wire, f) (+) forwardPacket(s, f, Learned(s, f))
  <2>1. PICK ls : forwardPacket(s, f, Learned(s, f)) = SetToBag({Frame(s, l, f.packet) : l \in ls})
    BY DEF forwardPacket, Enqueued
  <2> DEFINE S == {Frame(s, l, f.packet) : l \in ls}
  <2>2. \A g \in S : g.packet = f.packet
    BY DEF Frame
  <2>3. wire' = BagRemove(wire, f) (+) SetToBag(S)
    BY <1>3, <2>1
  <2> HIDE DEF S
  <2>4. Moved(f, S)
    BY <2>3, Moves
  <2>5. QED BY <1>1, <2>2, <2>4, MovesDrop
<1>4. QED BY <1>2, <1>3 DEF SwitchReceivesPacket

LEMMA OutcomeDrops ==
  ASSUME Parts, NEW r \in Routers, NEW g, NEW table, NEW lists, NEW base, NEW via, NEW to,
         Outcome(r, g, table, lists, base, via, to), UNCHANGED arrived, DOMAIN base \subseteq DOMAIN wire,
         \A p \in DOMAIN g : Under(p), \A a \in Ips : lists[a] \subseteq waitingForArpReply[r][a]
  PROVE  Drops
<1>1. DOMAIN header' = DOMAIN header /\ Routable(r, g) \subseteq DOMAIN g
  BY DEF Outcome, NewHeadersAre, Routable
<1>2. \A p : SendsOn(r, via, p).packet = p /\ IsArp(AsksFor(r, via, to, p).packet)
  BY DEF SendsOn, AsksFor, Frame, ArpRequest, Arp, IsArp
<1>3. \A m \in DOMAIN wire' : IsArp(m.packet) \/ m \in DOMAIN wire \/ m.packet \in Routable(r, g)
  BY <1>2 DEF Outcome, NewFramesAre
<1>4. \A x \in Routers : \A a \in Ips : \A p \in waitingForArpReply'[x][a] :
        p \in waitingForArpReply[x][a] \/ p \in Routable(r, g)
  BY DEF Outcome, NewListsAre
<1>5. \A p \in DOMAIN header : ~IsArp(p)
  BY PacketFields DEF Parts, TrafficOK
<1>6. ASSUME NEW p \in DOMAIN header, Under(p)' PROVE Under(p)
  <2>1. CASE \E m \in DOMAIN wire' : m.packet = p
    BY <1>1, <1>3, <1>5, <2>1 DEF Under
  <2>2. CASE \E x \in Routers : \E a \in Ips : p \in waitingForArpReply'[x][a]
    BY <1>1, <1>4, <2>2 DEF Under, Waits
  <2>3. QED BY <1>6, <2>1, <2>2 DEF Under, Waits
<1>7. QED BY <1>1, <1>6 DEF Drops

LEMMA RouterDrops ==
  ASSUME Parts, NEW f \in DOMAIN wire, NEW r \in Routers, RouterReceivesPacket(r, f)
  PROVE  Drops
<1> DEFINE p == f.packet
           taken == BagRemove(wire, f)
<1>1. UNCHANGED arrived /\ DOMAIN taken \subseteq DOMAIN wire
  BY Taken DEF RouterReceivesPacket, dataVars
<1>2. CASE Answers(r, f)
  <2> DEFINE a == Arp("reply", MacAddress(<<r, f.on>>), p.sourceMac, p.destIp, p.sourceIp)
             S == {Frame(r, l, a) : l \in {f.on}}
  <2>1. wire' = taken (+) SetToBag(S) /\ UNCHANGED <<header, waitingForArpReply>>
    BY <1>2 DEF Answers, Enqueued, arpVars
  <2>2. \A g \in S : IsArp(g.packet)
    BY DEF Frame, Arp, IsArp
  <2> HIDE DEF S
  <2>3. Moved(f, S)
    BY <2>1, Moves
  <2>4. QED BY <1>1, <2>1, <2>2, <2>3, MovesDrop
<1>3. ASSUME NEW via, NEW to, Learns(r, f, via, to) PROVE Drops
  <2> DEFINE g == [q \in Waiting(r, f) |-> header[q]]
             table == Updated(r, f)
             lists == [waitingForArpReply[r] EXCEPT ![p.sourceIp] = {}]
  <2>1. p.sourceIp \in Ips
    BY <1>3 DEF Learns, ArpPacket
  <2>2. Outcome(r, g, table, lists, taken, via, to)
    BY <1>3 DEF Learns
  <2>3. \A q \in DOMAIN g : Under(q)
    BY <2>1 DEF Waiting, Under, Waits
  <2>4. \A a \in Ips : lists[a] \subseteq waitingForArpReply[r][a]
    BY DEF Parts, ListsOK
  <2> HIDE DEF g, table, lists, taken
  <2>5. QED BY <1>1, <2>2, <2>3, <2>4, OutcomeDrops
<1>4. ASSUME NEW h, NEW via, NEW to, Passes(r, f, h, via, to) PROVE Drops
  <2> DEFINE g == [q \in {p} |-> h]
             lists == waitingForArpReply[r]
  <2>1. Outcome(r, g, arpTable[r], lists, taken, via, to)
    BY <1>4 DEF Passes
  <2>2. \A q \in DOMAIN g : Under(q)
    BY DEF Under
  <2>3. \A a \in Ips : lists[a] \subseteq waitingForArpReply[r][a]
    OBVIOUS
  <2> HIDE DEF g, taken, lists
  <2>4. QED BY <1>1, <2>1, <2>2, <2>3, OutcomeDrops
<1>5. ASSUME NEW h, Discards(r, f, h) PROVE Drops
  <2>1. wire' = taken /\ DOMAIN header' = DOMAIN header /\ UNCHANGED waitingForArpReply
    BY <1>5 DEF Discards, arpVars
  <2>2. Moved(f, {})
    BY <2>1, Moves
  <2>3. QED BY <1>1, <2>1, <2>2, MovesDrop
<1>6. QED BY <1>2, <1>3, <1>4, <1>5, RouterDoes DEF Handles

-----------------------------------------------------------------------------
\* A host sends all the fragments of D, or counts a packet that is for it.
LEMMA HostSendsAll ==
  ASSUME Parts, LoopFree(Side), Uncopied(Side, Calm), NEW h \in Hosts, NEW D \in SUBSET Datagrams,
         NEW m, NEW base, Sends(h, D, m, base), NewAt(h, D), DataStays(base), SameLists, UNCHANGED arrived
  PROVE  SendsAll(Fragments(D))
<1> DEFINE new == {Frame(h, l, p) : l \in LinksOf(h), p \in Fragments(D)}
<1>1. DOMAIN header' = DOMAIN header \cup Fragments(D) /\ AddsUp(wire', base, SetToBag(new))
  BY DEF Sends
<1>2. \A p \in Fragments(D) : p \notin DOMAIN header /\ p \in Packets
  <2> TAKE p \in Fragments(D)
  <2>1. p.data \in D /\ p \in Fragments({p.data}) /\ p \in Packets
    BY FragmentsApart
  <2>2. Unsent(p.data)
    BY <2>1 DEF NewAt
  <2>3. QED BY <2>1, <2>2 DEF Unsent
<1>3. PICK l \in LinksOf(h) : TRUE
  <2>1. LinksOf(h) # {}
    BY DEF Uncopied
  <2>2. QED BY <2>1
<1>4. \A p \in Fragments(D) : \E g \in new : g.packet = p
  <2> TAKE p \in Fragments(D)
  <2>1. Frame(h, l, p).packet = p /\ Frame(h, l, p) \in new
    BY <1>3 DEF Frame
  <2>2. QED BY <2>1
<1>5. \A g \in new : g.packet \in Fragments(D)
  BY DEF Frame
<1> HIDE DEF new
<1>6. DOMAIN wire' = DOMAIN base \cup new
  BY <1>1, SetIsBag DEF AddsUp
<1>7. \A p : Waits(p)' <=> Waits(p)
  BY DEF Waits, SameLists
<1>8. ASSUME NEW p \in DOMAIN header PROVE Under(p)' <=> Under(p)
  <2>1. ~IsArp(p) /\ p \notin Fragments(D)
    BY <1>2, PacketFields DEF Parts, TrafficOK
  <2>2. \A g : g.packet = p => (g \in DOMAIN wire' <=> g \in DOMAIN wire)
    BY <1>5, <1>6, <2>1 DEF DataStays
  <2>3. QED BY <1>7, <2>2 DEF Under
<1>9. \A p \in Fragments(D) : Under(p)'
  BY <1>4, <1>6 DEF Under
<1>10. QED BY <1>1, <1>2, <1>8, <1>9 DEF SendsAll

LEMMA StartServes ==
  ASSUME Parts, SentOnce, LoopFree(Side), Uncopied(Side, Calm), TreeInv, NEW d \in Datagrams, StartTraffic(d)
  PROVE  Drops \/ \E P : SendsAll(P)
<1> DEFINE h == d.source
           a == d.destIp
<1>1. h \in Hosts /\ a \in Ips /\ Unsent(d) /\ UNCHANGED arrived /\ IsABag(wire)
  BY DatagramAssumption, StartSentOnce DEF Ips, StartTraffic, dataVars, Parts, TrafficOK
<1>2. CASE sendUDPPacket(h, {d}, arpTable[h][a], wire) /\ UNCHANGED waitingForArpReply
  <2>1. Sends(h, {d}, arpTable[h][a], wire)
    BY <1>1, <1>2, SendingAdds
  <2>2. NewAt(h, {d}) /\ DataStays(wire) /\ SameLists
    BY <1>1, <1>2 DEF NewAt, DataStays, SameLists
  <2>3. SendsAll(Fragments({d}))
    BY <1>1, <2>1, <2>2, HostSendsAll
  <2>4. QED BY <2>3
<1>3. CASE /\ wire' = wire (+) SetToBag({Frame(h, l, ArpRequest(h, l, a)) : l \in LinksOf(h)})
           /\ waitingForArpReply' = [waitingForArpReply EXCEPT ![h][a] = @ \cup {d}]
           /\ UNCHANGED header
  <2> DEFINE asks == {Frame(h, l, ArpRequest(h, l, a)) : l \in LinksOf(h)}
  <2>1. \A g \in asks : IsArp(g.packet)
    BY DEF Frame, ArpRequest, Arp, IsArp
  <2>2. wire' = wire (+) SetToBag(asks)
    BY <1>3
  <2> HIDE DEF asks
  <2>3. DOMAIN wire' = DOMAIN wire \cup asks
    <3>1. AddsUp(wire', wire, SetToBag(asks))
      BY <1>1, <2>2, Added, SetIsBag
    <3>2. QED BY <3>1, SetIsBag DEF AddsUp
  <2>4. \A p \in DOMAIN header : ~IsArp(p)
    BY PacketFields DEF Parts, TrafficOK
  <2>5. \A r \in Routers : waitingForArpReply'[r] = waitingForArpReply[r]
    BY <1>1, <1>3, NetworkAssumption DEF Parts, ListsOK
  <2>6. \A p : Waits(p)' <=> Waits(p)
    BY <2>5 DEF Waits
  <2>7. QED BY <1>1, <1>3, <2>1, <2>3, <2>4, <2>6 DEF Drops, Under
<1>4. QED BY <1>2, <1>3 DEF StartTraffic

LEMMA HostServes ==
  ASSUME Parts, SentOnce, LoopFree(Side), Uncopied(Side, Calm), TreeInv, Parts', NEW f \in DOMAIN wire,
         NEW h \in Hosts, HostReceivesPacket(h, f),
         \A g \in Hosts \ InsideHosts : ~isInternalIp(ip[<<g>>])
  PROVE  Drops \/ (\E P : SendsAll(P)) \/ \E p : h \in Home[p] /\ Counts(h, p)
<1> DEFINE p == f.packet
           taken == BagRemove(wire, f)
           D == waitingForArpReply[h][p.sourceIp]
<1>1. p \in DOMAIN header \cup ArpPacket /\ DOMAIN header \subseteq Packets
  BY DEF Parts, TrafficOK, GoodFrame
<1>2. CASE wire' = taken /\ UNCHANGED <<header, arpVars, arrived>>
  <2>1. Moved(f, {})
    BY <1>2, Moves
  <2>2. QED BY <1>2, <2>1, MovesDrop DEF arpVars
<1>3. CASE /\ p \in ArpPacket /\ UNCHANGED <<header, arpVars, arrived>>
           /\ wire' = taken (+) Enqueued(h, LinksOf(h), Arp("reply", MacAddress(<<h>>), p.sourceMac, ip[<<h>>], p.sourceIp))
  <2> DEFINE a == Arp("reply", MacAddress(<<h>>), p.sourceMac, ip[<<h>>], p.sourceIp)
             S == {Frame(h, l, a) : l \in LinksOf(h)}
  <2>1. wire' = taken (+) SetToBag(S) /\ UNCHANGED <<header, waitingForArpReply, arrived>>
    BY <1>3 DEF Enqueued, arpVars
  <2>2. \A g \in S : IsArp(g.packet)
    BY DEF Frame, Arp, IsArp
  <2> HIDE DEF S
  <2>3. Moved(f, S)
    BY <2>1, Moves
  <2>4. QED BY <2>1, <2>2, <2>3, MovesDrop
<1>4. CASE /\ p \in ArpPacket /\ UNCHANGED arrived
           /\ sendUDPPacket(h, D, Copy(p.sourceMac), taken)
           /\ waitingForArpReply' = [waitingForArpReply EXCEPT ![h][p.sourceIp] = {}]
  <2>1. p.sourceIp \in Ips /\ IsArp(p)
    BY <1>4, ArpIsArp DEF ArpPacket
  <2>2. D \in SUBSET Datagrams
    BY <2>1 DEF Parts, ListsOK, CountersOK
  <2>3. NewAt(h, D)
    BY <2>1 DEF SentOnce, NewAt
  <2>4. IsABag(taken) /\ DataStays(taken)
    BY <2>1, Taken, TakenOff DEF DataStays
  <2>5. SameLists
    BY <1>4, NetworkAssumption DEF Parts, ListsOK, SameLists
  <2> DEFINE m == Copy(p.sourceMac)
  <2>6. sendUDPPacket(h, D, m, taken) /\ UNCHANGED arrived
    BY <1>4
  <2> HIDE DEF D, taken, m
  <2>7. Sends(h, D, m, taken)
    BY <2>2, <2>4, <2>6, SendingAdds
  <2>8. SendsAll(Fragments(D))
    BY <2>2, <2>3, <2>4, <2>5, <2>6, <2>7, HostSendsAll
  <2>9. QED BY <2>8
<1>5. CASE /\ p \in DOMAIN header /\ wire' = taken /\ UNCHANGED <<header, arpVars>>
           /\ arrived' = [arrived EXCEPT ![h] = Append(@, p)]
  <2>1. Moved(f, {})
    BY <1>5, Moves
  <2>2. InOnePlace(p) /\ wire[f] = 1 /\ ~Waits(p)
    BY <1>5 DEF TreeInv, OneCopy, InOnePlace
  <2>3. Under(p) /\ ~Under(p)'
    <3>1. \A g \in DOMAIN wire' : g.packet # p
      BY <2>1, <2>2, AfterMove
    <3>2. ~Waits(p)'
      BY <1>5, <2>2 DEF Waits, arpVars
    <3>3. QED BY <3>1, <3>2 DEF Under
  <2>4. \A q \in DOMAIN header : q # p => (Under(q)' <=> Under(q))
    <3>1. \A q : q # p => SameOnWire(q)
      BY <2>1, AfterMove
    <3>2. \A q : Waits(q)' <=> Waits(q)
      BY <1>5 DEF Waits, arpVars
    <3>3. QED BY <3>1, <3>2 DEF Under, SameOnWire
  <2>5. Counts(h, p)
    BY <1>5, <2>3, <2>4 DEF Counts
  <2>6. h \in Home[p]
    <3>1. arrived'[h] = Append(arrived[h], p) /\ arrived[h] \in Seq(DOMAIN header)
      BY <1>5 DEF Parts, ArrivalsOK
    <3> DEFINE n == Len(arrived[h]) + 1
    <3>2. n \in DOMAIN arrived'[h] /\ arrived'[h][n] = p
      BY <1>5, <3>1
    <3> HIDE DEF p, n
    <3>3. p.data.destIp = ip[<<h>>] \/ Standing(natTable', p.data.destIp, ip[<<h>>])
      BY <3>2 DEF Parts, ArrivalsOK, Standing
    <3>4. Standing(natTable', p.data.destIp, ip[<<h>>]) =>
            p.data.destIp \in {externalIP[r] : r \in Routers} /\ isInternalIp(ip[<<h>>])
      BY DEF Parts, NatOK, OnlyInsideIsMapped, Standing
    <3>5. p \in Packets
      BY <1>1, <1>5 DEF p
    <3>6. QED BY <3>3, <3>4, <3>5 DEF Home
  <2>7. QED BY <2>5, <2>6
<1>6. CASE HeaderOf(p).lost /\ wire' = taken /\ UNCHANGED <<header, arpVars, dataVars, panicked>>
  BY <1>2, <1>6 DEF dataVars
<1>7. CASE IsArp(p) /\ processARPPacket(h, f)
  <2>1. p \in ArpPacket
    BY <1>1, <1>7, PacketFields
  <2>2. UNCHANGED arrived
    BY <1>7 DEF processARPPacket, dataVars
  <2>3. QED BY <1>2, <1>3, <1>4, <1>7, <2>1, <2>2 DEF processARPPacket
<1>8. CASE ~IsArp(p) /\ processUDPPacket(h, f)
  <2>1. p \in DOMAIN header
    BY <1>1, <1>8, ArpIsArp
  <2>2. wire' = taken /\ UNCHANGED <<header, arpVars>>
    BY <1>8 DEF processUDPPacket
  <2>3. arrived' = arrived \/ arrived' = [arrived EXCEPT ![h] = Append(@, p)]
    BY <1>8 DEF processUDPPacket, processDataPacket, dataVars
  <2>4. QED BY <1>2, <1>5, <2>1, <2>2, <2>3
<1>9. QED BY <1>6, <1>7, <1>8 DEF HostReceivesPacket

-----------------------------------------------------------------------------
LEMMA StepServes ==
  ASSUME Parts, SentOnce, TreeInv, Parts', TreeInv', LoopFree(Side), Uncopied(Side, Calm),
         \A h \in Hosts \ InsideHosts : ~isInternalIp(ip[<<h>>]), [Next]_vars
  PROVE  [Service!Next]_(Service!vars)
<1>1. OneCopy /\ OneCopy'
  BY DEF TreeInv
<1>2. CASE UNCHANGED vars
  BY <1>2 DEF vars, Service!vars, Carried, Counted
<1>3. CASE \E d \in Datagrams : StartTraffic(d)
  BY <1>1, <1>3, StartServes, DropsServe, SendsServe
<1>4. CASE \E f \in DOMAIN wire : transferPacket(f)
  BY <1>1, <1>4, LossDrops, DropsServe
<1>5. ASSUME NEW f \in DOMAIN wire, NEW x \in f.on, Receives(x, f) PROVE Service!Next
  <2>1. CASE x \in Switches /\ SwitchReceivesPacket(x, f)
    BY <1>1, <2>1, SwitchDrops, DropsServe
  <2>2. CASE x \in Routers /\ RouterReceivesPacket(x, f)
    BY <1>1, <2>2, RouterDrops, DropsServe
  <2>3. CASE x \in Hosts /\ HostReceivesPacket(x, f)
    BY <1>1, <2>3, HostServes, DropsServe, SendsServe, CountsServe
  <2>4. QED BY <1>5, <2>1, <2>2, <2>3 DEF Receives
<1>6. QED BY <1>2, <1>3, <1>4, <1>5 DEF Next

\* Where nothing is copied, and internal addresses are inside, the network keeps what
\* Internet promises: each step sends packets that are new, drops some, or counts one
\* that is under way at a host that its address stands for.
THEOREM KeepsInternetService ==
  ASSUME LoopFree(Side), Uncopied(Side, Calm), \A h \in Hosts \ InsideHosts : ~isInternalIp(ip[<<h>>])
  PROVE  Spec => InternetService
<1>1. Init => Service!Init
  <2> SUFFICES ASSUME Init PROVE Service!Init
    OBVIOUS
  <2>1. DOMAIN header = {} /\ arrived = [h \in Hosts |-> <<>>]
    BY DEF Init
  <2>2. QED BY <2>1 DEF Service!Init
<1>2. /\ IInv /\ SentOnce /\ TreeInv /\ (IInv /\ SentOnce /\ TreeInv)'
      /\ [Next]_vars
      => [Service!Next]_(Service!vars)
  <2>1. (IInv <=> Parts) /\ (IInv <=> Parts)'
    BY TheParts, PTL
  <2>2. QED BY <2>1, StepServes
<1>3. QED BY <1>1, <1>2, InTree, PTL DEF Spec, InternetService, Service!Spec
-----------------------------------------------------------------------------
\* What ARP says.  Who answers, or is believed to, is near to who asked; hosts answer
\* for their own address only.
Answered(m, j, a) ==
  /\ Near(Side, m.interface, j) /\ Asks(j, a)
  /\ \A h \in Hosts : m.interface = <<h>> => ip[<<h>>] = a
ArpTrue(p) ==
  /\ p.operation = "request" => \A j : p.sourceMac = MacAddress(j) => Asks(j, p.destIp)
  /\ p.operation = "reply" => \A j : p.destinationMac = MacAddress(j) => Answered(p.sourceMac, j, p.sourceIp)
InSegment(g) ==
  /\ g.sourceMac \in Mac /\ g.destinationMac \in Mac
  /\ Near(Side, g.destinationMac.interface, g.sourceMac.interface)
TrueFrame(f) ==
  /\ IsArp(f.packet) => ArpTrue(f.packet)
  /\ ~IsArp(f.packet) => InSegment(header[f.packet])
FramesTrue == \A f \in DOMAIN wire : TrueFrame(f)
EntryTrue(x, a, m) == m # NoMac => \E l \in LinksOf(x) : Answered(m, Interface(x, l), a)
EntriesTrue == \A x \in Hosts \cup Routers : \A a \in Ips : EntryTrue(x, a, arpTable[x][a])
\* What waits at a router is not for its outside address: it has been translated.
ListsClear ==
  \A r \in Routers : \A a \in Ips : \A p \in waitingForArpReply[r][a] :
    natEnabled(r) => header[p].destIp # externalIP[r]
AskInv == FramesTrue /\ EntriesTrue /\ ListsClear

\* By the time that somebody writes to an outside address, it stands for somebody.
MappedFirst ==
  \A r \in Routers : \A d \in started : natEnabled(r) /\ d.destIp = externalIP[r] => natTable[r] # {}

-----------------------------------------------------------------------------
LEMMA NatGrows ==
  ASSUME NEW r \in Routers, NEW f, Parts, RouterReceivesPacket(r, f)
  PROVE  \A q \in Routers : natTable[q] \subseteq natTable'[q]
<1>1. ASSUME NEW g, NEW table, NEW lists, NEW base, proceedAndEnqueuePacket(r, g, table, lists, base)
      PROVE  \E X : natTable' = [natTable EXCEPT ![r] = @ \cup X]
  BY <1>1 DEF proceedAndEnqueuePacket
<1>2. (\E X : natTable' = [natTable EXCEPT ![r] = @ \cup X]) \/ natTable' = natTable
  <2>1. CASE IsArp(f.packet) /\ f.packet.operation = "request"
    BY <2>1 DEF RouterReceivesPacket, onArpRequestPacketReceived
  <2>2. CASE IsArp(f.packet) /\ f.packet.operation # "request"
    BY <1>1, <2>2 DEF RouterReceivesPacket, onArpReplyPacketReceived
  <2>3. CASE ~IsArp(f.packet)
    BY <1>1, <2>3 DEF RouterReceivesPacket, forwardData
  <2>4. QED BY <2>1, <2>2, <2>3
<1>3. natTable \in [Routers -> SUBSET Ips]
  BY DEF Parts, NatOK
<1>4. QED BY <1>2, <1>3

LEMMA StepMapped ==
  ASSUME Parts, NatHidesInside, NEW inner, Divided(inner), OnlyAnswers, MappedFirst, [Next]_vars
  PROVE  MappedFirst'
<1>1. CASE UNCHANGED vars
  BY <1>1 DEF vars, MappedFirst
<1>2. ASSUME NEW d \in Datagrams, StartTraffic(d) PROVE MappedFirst'
  <2>1. started' = started \cup {d} /\ natTable' = natTable /\ Len(arrived[d.source]) >= Awaited[d]
    BY <1>2 DEF StartTraffic
  <2>2. ASSUME NEW r \in Routers, natEnabled(r), d.destIp = externalIP[r] PROVE natTable[r] # {}
    <3> DEFINE h == d.source
               p == arrived[h][1]
    <3>1. Awaited[d] > 0 /\ h \in Hosts \ InsideHosts /\ Awaited[d] \in Nat
      BY <2>2, DatagramAssumption DEF OnlyAnswers
    <3>2. arrived[h] \in Seq(DOMAIN header)
      BY <3>1 DEF Parts, ArrivalsOK
    <3>3. 1 \in DOMAIN arrived[h]
      BY <2>1, <3>1, <3>2
    <3>4. p.data \in Datagrams
      <4>1. p \in Packets
        BY <3>2, <3>3 DEF Parts, TrafficOK
      <4>2. QED BY <4>1, PacketFields DEF Packets
    <3>5. p.data.destIp = ip[<<h>>]
      <4>1. \A q \in Routers : \A a \in natTable[q] : isInternalIp(a)
        BY DEF Parts, NatOK, OnlyInsideIsMapped
      <4>2. ~isInternalIp(ip[<<h>>])
        BY <3>1 DEF Divided
      <4>3. ~Standing(natTable, p.data.destIp, ip[<<h>>])
        BY <4>1, <4>2 DEF Standing
      <4>4. QED BY <3>1, <3>3, <4>3 DEF Parts, ArrivalsOK
    <3>6. p.data.source \in InsideHosts
      BY <2>2, <3>4, <3>5 DEF OnlyAnswers
    <3> HIDE DEF p, h
    <3>7. PICK q \in Routers : natEnabled(q) /\ ip[<<p.data.source>>] \in natTable[q]
      BY <3>1, <3>3, <3>6 DEF NatHidesInside, p
    <3>8. q = r
      BY <2>2, <3>7 DEF OnlyAnswers
    <3>9. QED BY <3>7, <3>8
  <2>3. QED BY <2>1, <2>2 DEF MappedFirst
<1>3. ASSUME NEW f \in DOMAIN wire, transferPacket(f) PROVE MappedFirst'
  BY <1>3 DEF transferPacket, MappedFirst
<1>4. ASSUME NEW f \in DOMAIN wire, NEW x \in f.on, Receives(x, f) PROVE MappedFirst'
  <2>1. CASE x \in Switches /\ SwitchReceivesPacket(x, f)
    BY <2>1 DEF SwitchReceivesPacket, rest, MappedFirst
  <2>2. CASE x \in Hosts /\ HostReceivesPacket(x, f)
    BY <2>2 DEF HostReceivesPacket, rest, MappedFirst
  <2>3. CASE x \in Routers /\ RouterReceivesPacket(x, f)
    <3>1. started' = started
      BY <2>3 DEF RouterReceivesPacket, rest
    <3>2. QED BY <2>3, <3>1, NatGrows DEF MappedFirst
  <2>4. QED BY <1>4, <2>1, <2>2, <2>3 DEF Receives
<1>5. QED BY <1>1, <1>2, <1>3, <1>4 DEF Next

-----------------------------------------------------------------------------
LEMMA TrueFrameStays ==
  ASSUME NEW f, TrueFrame(f), ~IsArp(f.packet) => SameMacs(f.packet)
  PROVE  TrueFrame(f)'
<1>1. ~IsArp(f.packet) => InSegment(header'[f.packet])
  BY DEF TrueFrame, InSegment, SameMacs
<1>2. QED BY <1>1 DEF TrueFrame, InSegment

LEMMA TrueAfterMove ==
  ASSUME Parts, FramesTrue, NEW f \in DOMAIN wire, NEW S, Moved(f, S), UNCHANGED header,
         \A g \in S : TrueFrame(g)'
  PROVE  FramesTrue'
<1>1. DOMAIN wire' \subseteq DOMAIN wire \cup S
  BY AfterMove
<1>2. \A p : SameMacs(p)
  BY DEF SameMacs
<1>3. \A g \in DOMAIN wire : TrueFrame(g)'
  BY <1>2, TrueFrameStays DEF FramesTrue
<1>4. QED BY <1>1, <1>3 DEF FramesTrue

LEMMA TablesSame ==
  ASSUME EntriesTrue, ListsClear, UNCHANGED arpVars,
         \A r \in Routers : \A a \in Ips : \A p \in waitingForArpReply[r][a] : header'[p].destIp = header[p].destIp
  PROVE  EntriesTrue' /\ ListsClear'
<1>1. EntriesTrue'
  BY DEF EntriesTrue, arpVars
<1>2. QED BY <1>1 DEF ListsClear, arpVars

LEMMA SwitchTrue ==
  ASSUME Parts, AskInv, NEW f \in DOMAIN wire, NEW s \in Switches, SwitchReceivesPacket(s, f)
  PROVE  AskInv'
<1>1. UNCHANGED <<header, arpVars>>
  BY DEF SwitchReceivesPacket
<1>2. PICK ls : wire' = BagRemove(wire, f) \/ wire' = BagRemove(wire, f) (+) SetToBag({Frame(s, l, f.packet) : l \in ls})
  BY DEF SwitchReceivesPacket, forwardPacket, Enqueued
<1> DEFINE S == {Frame(s, l, f.packet) : l \in ls}
<1>3. \A g \in S : g.packet = f.packet
  BY DEF Frame
<1> HIDE DEF S
<1>4. Moved(f, S) \/ Moved(f, {})
  BY <1>2, Moves DEF S
<1>5. \A g \in S : TrueFrame(g)'
  BY <1>1, <1>3 DEF AskInv, FramesTrue, TrueFrame
<1>6. FramesTrue'
  BY <1>1, <1>4, <1>5, TrueAfterMove DEF AskInv
<1>7. QED BY <1>1, <1>6, TablesSame DEF AskInv

LEMMA LossTrue ==
  ASSUME Parts, AskInv, NEW f \in DOMAIN wire, transferPacket(f)
  PROVE  AskInv'
<1>1. UNCHANGED arpVars
  BY DEF transferPacket
<1>2. f.packet \in DOMAIN header \cup ArpPacket /\ DOMAIN header \subseteq Packets
  BY DEF Parts, TrafficOK, GoodFrame
<1>3. CASE IsArp(f.packet)
  <2>1. PICK copies \in SUBSET {g \in DOMAIN wire : g.packet = f.packet} :
          wire' = (wire (-) SetToBag(copies)) (+)
            SetToBag({Frame(g.from, g.on, [f.packet EXCEPT !.lost = TRUE]) : g \in copies})
    BY <1>3 DEF transferPacket
  <2> DEFINE base == wire (-) SetToBag(copies)
             q == [f.packet EXCEPT !.lost = TRUE]
             marked == {Frame(g.from, g.on, q) : g \in copies}
  <2>2. f.packet \in ArpPacket /\ header' = header
    BY <1>2, <1>3, PacketFields DEF transferPacket
  <2>3. /\ IsArp(q) /\ q.operation = f.packet.operation /\ q.sourceMac = f.packet.sourceMac
        /\ q.destinationMac = f.packet.destinationMac /\ q.sourceIp = f.packet.sourceIp
        /\ q.destIp = f.packet.destIp
    <3>1. q \in ArpPacket
      BY <2>2 DEF ArpPacket
    <3>2. QED BY <2>2, <3>1, ArpIsArp DEF ArpPacket
  <2>4. \A m \in marked : m.packet = q
    <3> HIDE DEF q
    <3>1. \A g \in copies : Frame(g.from, g.on, q).packet = q
      BY DEF Frame
    <3>2. QED BY <3>1
  <2>5. IsABag(base) /\ DOMAIN base \subseteq DOMAIN wire
    BY BagDifference, BagDifferenceLeaves DEF Parts, TrafficOK
  <2>6. wire' = base (+) SetToBag(marked)
    BY <2>1
  <2> HIDE DEF base, marked, q
  <2>7. DOMAIN wire' = DOMAIN base \cup marked
    <3>1. AddsUp(wire', base, SetToBag(marked))
      BY <2>5, <2>6, Added, SetIsBag
    <3>2. QED BY <3>1, SetIsBag DEF AddsUp
  <2>8. ArpTrue(q)
    BY <1>3, <2>3 DEF AskInv, FramesTrue, TrueFrame, ArpTrue
  <2>9. \A m \in marked : TrueFrame(m)'
    BY <2>3, <2>4, <2>8 DEF TrueFrame
  <2>10. \A g \in DOMAIN wire : TrueFrame(g)'
    BY <2>2 DEF AskInv, FramesTrue, TrueFrame
  <2>11. FramesTrue'
    BY <2>5, <2>7, <2>9, <2>10 DEF FramesTrue
  <2>12. QED BY <1>1, <2>2, <2>11, TablesSame DEF AskInv
<1>4. CASE ~IsArp(f.packet)
  <2>1. wire' = wire /\ header' = [header EXCEPT ![f.packet].lost = TRUE]
    BY <1>4 DEF transferPacket
  <2>2. ASSUME NEW p \in DOMAIN header PROVE SameMacs(p) /\ header'[p].destIp = header[p].destIp
    <3>1. header'[p] = header[p] \/ header'[p] = [header[p] EXCEPT !.lost = TRUE]
      BY <2>1
    <3>2. GoodHeader(header[p])
      BY DEF Parts, TrafficOK
    <3>3. QED BY <3>1, <3>2 DEF SameMacs, GoodHeader, Header
  <2>3. \A g \in DOMAIN wire : ~IsArp(g.packet) => SameMacs(g.packet)
    BY <2>2, ArpIsArp DEF Parts, TrafficOK, GoodFrame
  <2>4. FramesTrue'
    BY <2>1, <2>3, TrueFrameStays DEF AskInv, FramesTrue
  <2>5. \A r \in Routers : \A a \in Ips : \A p \in waitingForArpReply[r][a] : header'[p].destIp = header[p].destIp
    BY <2>2 DEF Parts, ListsOK
  <2>6. QED BY <1>1, <2>4, <2>5, TablesSame DEF AskInv
<1>5. QED BY <1>3, <1>4
-----------------------------------------------------------------------------
\* Hosts: what they send, ask, answer and learn.
LEMMA NearBy ==
  ASSUME LoopFree(Side), NEW l \in Links, NEW x \in l \cap (Hosts \cup Routers), NEW y \in l, x # y,
         NEW j \in Side[y][l]
  PROVE  Near(Side, Interface(x, l), j)
<1>1. Interface(x, l) \in Side[x][l]
  BY DEF LoopFree, LinksOf
<1>2. QED BY <1>1 DEF Near

LEMMA HostKnows ==
  ASSUME LoopFree(Side), Uncopied(Side, Calm), NEW h \in Hosts, NEW a, NEW m, m # NoMac, EntryTrue(h, a, m)
  PROVE  Near(Side, m.interface, <<h>>)
<1>1. PICK l \in LinksOf(h) : Answered(m, Interface(h, l), a)
  BY DEF EntryTrue
<1>2. QED BY <1>1, HostFrames DEF Answered

LEMMA SentTrue ==
  ASSUME Parts, LoopFree(Side), Uncopied(Side, Calm), AskInv, NEW h \in Hosts, NEW D \in SUBSET Datagrams,
         NEW m \in Mac, Near(Side, m.interface, <<h>>), NEW base, Sends(h, D, m, base), NewAt(h, D),
         DOMAIN base \subseteq DOMAIN wire
  PROVE  /\ FramesTrue'
         /\ \A p \in DOMAIN header : header'[p] = header[p]
<1> DEFINE new == {Frame(h, l, p) : l \in LinksOf(h), p \in Fragments(D)}
<1>1. /\ DOMAIN header' = DOMAIN header \cup Fragments(D)
      /\ \A p \in Fragments(D) : header'[p] = NewHeader(p, m)
      /\ \A p \in DOMAIN header \ Fragments(D) : header'[p] = header[p]
      /\ AddsUp(wire', base, SetToBag(new))
  BY DEF Sends
<1>2. \A p \in Fragments(D) : p \notin DOMAIN header /\ ~IsArp(p) /\ p.data.source = h
  <2> TAKE p \in Fragments(D)
  <2>1. p.data \in D /\ p \in Fragments({p.data}) /\ p \in Packets
    BY FragmentsApart
  <2>2. p.data.source = h /\ Unsent(p.data)
    BY <2>1 DEF NewAt
  <2>3. QED BY <2>1, <2>2, PacketFields DEF Unsent
<1>3. \A p \in DOMAIN header : header'[p] = header[p]
  BY <1>1, <1>2
<1>4. \A g \in new : g.packet \in Fragments(D)
  BY DEF Frame
<1> HIDE DEF new
<1>5. DOMAIN wire' = DOMAIN base \cup new
  BY <1>1, SetIsBag DEF AddsUp
<1>6. ASSUME NEW g \in new PROVE TrueFrame(g)'
  <2>1. g.packet \in Fragments(D) /\ ~IsArp(g.packet) /\ g.packet.data.source = h
    BY <1>2, <1>4
  <2>2. header'[g.packet].sourceMac = MacAddress(<<h>>) /\ header'[g.packet].destinationMac = m
    BY <1>1, <2>1 DEF NewHeader
  <2>3. MacAddress(<<h>>) \in Mac /\ MacAddress(<<h>>).interface = <<h>>
    BY NetworkAssumption DEF Mac, MacAddress
  <2>4. QED BY <2>1, <2>2, <2>3 DEF TrueFrame, InSegment
<1>7. ASSUME NEW g \in DOMAIN wire PROVE TrueFrame(g)'
  <2>1. ~IsArp(g.packet) => g.packet \in DOMAIN header
    BY ArpIsArp DEF Parts, TrafficOK, GoodFrame
  <2>2. ~IsArp(g.packet) => SameMacs(g.packet)
    BY <1>3, <2>1 DEF SameMacs
  <2>3. QED BY <2>2, TrueFrameStays DEF AskInv, FramesTrue
<1>8. QED BY <1>3, <1>5, <1>6, <1>7 DEF FramesTrue

LEMMA StartTrue ==
  ASSUME Parts, SentOnce, LoopFree(Side), Uncopied(Side, Calm), AskInv, NEW d \in Datagrams, StartTraffic(d)
  PROVE  AskInv'
<1> DEFINE h == d.source
           a == d.destIp
<1>1. h \in Hosts /\ a \in Ips /\ Unsent(d) /\ arpTable' = arpTable /\ h \notin Routers
  BY DatagramAssumption, StartSentOnce, NetworkAssumption DEF Ips, StartTraffic
<1>2. EntriesTrue' /\ IsABag(wire)
  BY <1>1 DEF AskInv, EntriesTrue, Parts, TrafficOK
<1>3. CASE arpTable[h][a] # NoMac /\ sendUDPPacket(h, {d}, arpTable[h][a], wire) /\ UNCHANGED waitingForArpReply
  <2> DEFINE m == arpTable[h][a]
  <2>1. Sends(h, {d}, m, wire)
    BY <1>1, <1>2, <1>3, SendingAdds
  <2>2. m \in Mac /\ m # NoMac
    BY <1>1, <1>3 DEF Parts, ArpTablesOK
  <2>3. EntryTrue(h, a, m)
    BY <1>1 DEF AskInv, EntriesTrue
  <2>4. NewAt(h, {d})
    BY <1>1 DEF NewAt
  <2> HIDE DEF m, h
  <2>5. Near(Side, m.interface, <<h>>)
    BY <1>1, <2>2, <2>3, HostKnows
  <2>6. FramesTrue' /\ \A p \in DOMAIN header : header'[p] = header[p]
    BY <1>1, <2>1, <2>2, <2>4, <2>5, SentTrue
  <2>7. ListsClear'
    BY <1>3, <2>6 DEF AskInv, ListsClear, Parts, ListsOK
  <2>8. QED BY <1>2, <2>6, <2>7 DEF AskInv
<1>4. CASE /\ wire' = wire (+) SetToBag({Frame(h, l, ArpRequest(h, l, a)) : l \in LinksOf(h)})
           /\ waitingForArpReply' = [waitingForArpReply EXCEPT ![h][a] = @ \cup {d}]
           /\ UNCHANGED header
  <2> DEFINE asks == {Frame(h, l, ArpRequest(h, l, a)) : l \in LinksOf(h)}
  <2>1. \A g \in asks : TrueFrame(g)'
    <3> SUFFICES ASSUME NEW l \in LinksOf(h) PROVE TrueFrame(Frame(h, l, ArpRequest(h, l, a)))'
      OBVIOUS
    <3> DEFINE p == ArpRequest(h, l, a)
               g == Frame(h, l, p)
    <3>1. g.packet = p
      BY DEF Frame
    <3>2. IsArp(p) /\ p.operation = "request" /\ p.sourceMac = MacAddress(<<h>>) /\ p.destIp = a
      BY <1>1, HostFrames DEF ArpRequest, Arp, IsArp
    <3>3. \A j : MacAddress(<<h>>) = MacAddress(j) => Asks(j, a)
      BY MacAddresses DEF Asks
    <3> HIDE DEF p, g
    <3>4. TrueFrame(g)'
      BY <3>1, <3>2, <3>3 DEF TrueFrame, ArpTrue
    <3>5. QED BY <3>4 DEF g, p
  <2>2. wire' = wire (+) SetToBag(asks)
    BY <1>4
  <2> HIDE DEF asks
  <2>3. DOMAIN wire' = DOMAIN wire \cup asks
    <3>1. AddsUp(wire', wire, SetToBag(asks))
      BY <1>2, <2>2, Added, SetIsBag
    <3>2. QED BY <3>1, SetIsBag DEF AddsUp
  <2>4. FramesTrue'
    <3>1. \A g \in DOMAIN wire : TrueFrame(g)'
      BY <1>4 DEF AskInv, FramesTrue, TrueFrame
    <3>2. QED BY <2>1, <2>3, <3>1 DEF FramesTrue
  <2>5. ListsClear'
    <3>1. \A r \in Routers : waitingForArpReply'[r] = waitingForArpReply[r]
      BY <1>1, <1>4 DEF Parts, ListsOK
    <3>2. QED BY <1>4, <3>1 DEF AskInv, ListsClear
  <2>6. QED BY <1>2, <2>4, <2>5 DEF AskInv
<1>5. QED BY <1>3, <1>4 DEF StartTraffic

\* The answer to a true request is true.
LEMMA AnswerTrue ==
  ASSUME Parts, LoopFree(Side), NEW f \in DOMAIN wire, FrameOK(f), TrueFrame(f),
         f.packet \in ArpPacket, f.packet.operation = "request",
         NEW x \in f.on, x \in Hosts \cup Routers, x # f.from, x \in Hosts => f.packet.destIp = ip[<<x>>],
         NEW p, p = Arp("reply", MacAddress(Interface(x, f.on)), f.packet.sourceMac,
                        f.packet.destIp, f.packet.sourceIp)
  PROVE  TrueFrame(Frame(x, f.on, p))'
<1> DEFINE g == Frame(x, f.on, p)
           i == Interface(x, f.on)
<1>1. g.packet = p
  BY DEF Frame
<1>2. /\ IsArp(p) /\ p.operation = "reply" /\ p.sourceMac = MacAddress(i)
      /\ p.destinationMac = f.packet.sourceMac /\ p.sourceIp = f.packet.destIp
  BY DEF Arp, IsArp
<1>3. IsArp(f.packet) /\ f.on \in Links /\ f.from \in f.on
  BY ArpIsArp DEF Parts, TrafficOK, GoodFrame
<1>4. MacAddress(i).interface = i
  BY DEF MacAddress
<1>5. \A h \in Hosts : i = <<h>> => ip[<<h>>] = f.packet.destIp
  BY DEF Interface
<1> HIDE DEF i, g
<1>6. ASSUME NEW j, f.packet.sourceMac = MacAddress(j) PROVE Answered(MacAddress(i), j, f.packet.destIp)
  <2>1. Asks(j, f.packet.destIp)
    BY <1>3, <1>6 DEF TrueFrame, ArpTrue
  <2>2. j \in Side[f.from][f.on]
    BY <1>3, <1>6, MacAddresses DEF FrameOK, FromThere, OnSide, HeaderOf
  <2>3. Near(Side, i, j)
    BY <1>3, <2>2, NearBy DEF i
  <2>4. QED BY <1>4, <1>5, <2>1, <2>3 DEF Answered
<1>7. ArpTrue(p)
  BY <1>2, <1>6 DEF ArpTrue
<1>8. TrueFrame(g)'
  BY <1>1, <1>2, <1>7 DEF TrueFrame
<1>9. QED BY <1>8 DEF g

\* What a reply says is an entry that is true.
LEMMA ReplyTrue ==
  ASSUME Parts, LoopFree(Side), NEW f \in DOMAIN wire, FrameOK(f), TrueFrame(f),
         f.packet \in ArpPacket, f.packet.operation = "reply",
         NEW x \in f.on, x \in Hosts \cup Routers, x # f.from
  PROVE  /\ f.on \in LinksOf(x) /\ Answered(f.packet.sourceMac, Interface(x, f.on), f.packet.sourceIp)
         /\ f.packet.sourceMac \in Mac /\ f.packet.sourceIp \in Ips
<1>1. IsArp(f.packet) /\ f.on \in Links /\ f.on \in LinksOf(x)
  BY ArpIsArp DEF Parts, TrafficOK, GoodFrame, LinksOf
<1>2. OnSide(x, f.on, f.packet.destinationMac)
  BY <1>1 DEF FrameOK, ReplyOK
<1>3. f.packet.destinationMac = MacAddress(Interface(x, f.on))
  <2>1. Side[x][f.on] = {Interface(x, f.on)}
    BY <1>1 DEF LoopFree
  <2>2. QED BY <1>2, <2>1 DEF OnSide
<1>4. QED BY <1>1, <1>3 DEF TrueFrame, ArpTrue, ArpPacket

LEMMA HostTrue ==
  ASSUME Parts, SentOnce, LoopFree(Side), Uncopied(Side, Calm), TreeInv, AskInv, NEW f \in DOMAIN wire,
         NEW h \in Hosts, h \in f.on, h # f.from, HostReceivesPacket(h, f)
  PROVE  AskInv'
<1> DEFINE p == f.packet
           taken == BagRemove(wire, f)
           D == waitingForArpReply[h][p.sourceIp]
<1>1. GoodFrame(f, DOMAIN header) /\ DOMAIN header \subseteq Packets /\ FrameOK(f) /\ TrueFrame(f)
  BY DEF Parts, TrafficOK, TreeInv, FramesOK, AskInv, FramesTrue
<1>2. LinksOf(h) = {f.on} /\ h \notin Routers /\ Interface(h, f.on) = <<h>>
  <2>1. f.on \in LinksOf(h)
    BY <1>1 DEF GoodFrame, LinksOf
  <2>2. QED BY <2>1, HostFrames
<1>3. CASE wire' = taken /\ UNCHANGED <<header, arpVars>>
  <2>1. Moved(f, {})
    BY <1>3, Moves
  <2>2. FramesTrue'
    BY <1>3, <2>1, TrueAfterMove DEF AskInv
  <2>3. QED BY <1>3, <2>2, TablesSame DEF AskInv
<1>4. CASE /\ p \in ArpPacket /\ p.operation = "request" /\ p.destIp = ip[<<h>>]
           /\ wire' = taken (+) Enqueued(h, LinksOf(h), Arp("reply", MacAddress(<<h>>), p.sourceMac, ip[<<h>>], p.sourceIp))
           /\ UNCHANGED <<header, arpVars>>
  <2> DEFINE a == Arp("reply", MacAddress(<<h>>), p.sourceMac, ip[<<h>>], p.sourceIp)
             S == {Frame(h, l, a) : l \in LinksOf(h)}
  <2>1. S = {Frame(h, f.on, a)}
    BY <1>2
  <2>2. a = Arp("reply", MacAddress(Interface(h, f.on)), p.sourceMac, p.destIp, p.sourceIp)
    BY <1>2, <1>4
  <2>3. wire' = taken (+) SetToBag(S)
    BY <1>4 DEF Enqueued
  <2> HIDE DEF a, S
  <2>4. TrueFrame(Frame(h, f.on, a))'
    BY <1>1, <1>4, <2>2, AnswerTrue
  <2>5. Moved(f, S)
    BY <2>3, Moves
  <2>6. FramesTrue'
    BY <1>4, <2>1, <2>4, <2>5, TrueAfterMove DEF AskInv
  <2>7. QED BY <1>4, <2>6, TablesSame DEF AskInv
<1>5. CASE /\ p \in ArpPacket /\ p.operation = "reply"
           /\ arpTable' = [arpTable EXCEPT ![h][p.sourceIp] = Copy(p.sourceMac)]
           /\ sendUDPPacket(h, D, Copy(p.sourceMac), taken)
           /\ waitingForArpReply' = [waitingForArpReply EXCEPT ![h][p.sourceIp] = {}]
  <2> DEFINE m == Copy(p.sourceMac)
  <2>1. f.on \in LinksOf(h) /\ Answered(p.sourceMac, <<h>>, p.sourceIp) /\ p.sourceMac \in Mac /\ p.sourceIp \in Ips
    BY <1>1, <1>2, <1>5, ReplyTrue
  <2>2. m \in Mac /\ m.interface = p.sourceMac.interface
    BY <2>1, Interfaces DEF Copy, Mac
  <2>3. Answered(m, <<h>>, p.sourceIp)
    BY <2>1, <2>2 DEF Answered
  <2>4. D \in SUBSET Datagrams /\ NewAt(h, D)
    BY <2>1 DEF Parts, ListsOK, CountersOK, SentOnce, NewAt
  <2>5. IsABag(taken) /\ DOMAIN taken \subseteq DOMAIN wire
    BY Taken
  <2>6. sendUDPPacket(h, D, m, taken)
    BY <1>5
  <2>7. EntriesTrue'
    <3>1. \A x \in Hosts \cup Routers : \A b \in Ips : arpTable'[x][b] =
            IF x = h /\ b = p.sourceIp THEN m ELSE arpTable[x][b]
      BY <1>5, <2>1 DEF Parts, ArpTablesOK
    <3>2. EntryTrue(h, p.sourceIp, m)
      BY <1>2, <2>1, <2>3 DEF EntryTrue
    <3> HIDE DEF m, p
    <3>3. QED BY <3>1, <3>2 DEF AskInv, EntriesTrue
  <2>8. \A r \in Routers : waitingForArpReply'[r] = waitingForArpReply[r]
    BY <1>2, <1>5 DEF Parts, ListsOK
  <2> HIDE DEF D, taken, m
  <2>9. Sends(h, D, m, taken)
    BY <2>4, <2>5, <2>6, SendingAdds
  <2>10. FramesTrue' /\ \A q \in DOMAIN header : header'[q] = header[q]
    BY <2>2, <2>3, <2>4, <2>5, <2>9, SentTrue DEF Answered
  <2>11. ListsClear'
    BY <2>8, <2>10 DEF AskInv, ListsClear, Parts, ListsOK
  <2>12. QED BY <2>7, <2>10, <2>11 DEF AskInv
<1>6. CASE HeaderOf(p).lost /\ wire' = taken /\ UNCHANGED <<header, arpVars, dataVars, panicked>>
  BY <1>3, <1>6
<1>7. CASE IsArp(p) /\ processARPPacket(h, f)
  <2>1. p \in ArpPacket
    BY <1>1, <1>7, PacketFields DEF GoodFrame
  <2>2. QED BY <1>3, <1>4, <1>5, <1>7, <2>1 DEF processARPPacket
<1>8. CASE ~IsArp(p) /\ processUDPPacket(h, f)
  <2>1. wire' = taken /\ UNCHANGED <<header, arpVars>>
    BY <1>8 DEF processUDPPacket
  <2>2. QED BY <1>3, <2>1
<1>9. QED BY <1>6, <1>7, <1>8 DEF HostReceivesPacket
-----------------------------------------------------------------------------
\* Routers: translation leaves destinations that are not the outside address.
LEMMA SameDestination ==
  ASSUME NEW r \in Routers, NEW g, GoodHeader(g), NEW t \in Translated(r, g), natEnabled(r) => g.destIp # externalIP[r]
  PROVE  t.destIp = g.destIp
<1>1. t = g \/ t = [g EXCEPT !.sourceIp = externalIP[r]]
  BY DEF Translated, Outward
<1>2. [g EXCEPT !.sourceIp = externalIP[r]].destIp = g.destIp
  BY DEF GoodHeader, Header
<1>3. QED BY <1>1, <1>2

ToForwardTruly(r, g, table) ==
  /\ \A p \in DOMAIN g : GoodHeader(g[p]) /\ (natEnabled(r) => g[p].destIp # externalIP[r])
  /\ \A a \in Ips : table[a] \in Mac \cup {NoMac} /\ EntryTrue(r, a, table[a])

LEMMA SentOnTrue ==
  ASSUME LoopFree(Side), Addressed(Side), NEW r \in Routers, NEW a \in Ips, NEW l \in getRoute(r, a),
         NEW m \in Mac, m # NoMac, EntryTrue(r, a, m)
  PROVE  Near(Side, m.interface, <<r, l>>)
<1>1. PICK k \in LinksOf(r) : Answered(m, Interface(r, k), a)
  BY DEF EntryTrue
<1>2. Interface(r, k) = <<r, k>>
  BY DEF Interface
<1>3. k \in getRoute(r, a)
  <2>1. Asks(<<r, k>>, a)
    BY <1>1, <1>2 DEF Answered
  <2>2. \A d : <<r, k>> # <<d>>
    OBVIOUS
  <2>3. PICK q \in Routers : \E n \in getRoute(q, a) : <<r, k>> = <<q, n>>
    BY <2>1, <2>2 DEF Asks
  <2>4. QED BY <2>3
<1>4. k = l
  BY <1>3 DEF Addressed
<1>5. QED BY <1>1, <1>2, <1>4 DEF Answered

LEMMA OutcomeTrue ==
  ASSUME Parts, LoopFree(Side), Uncopied(Side, Calm), Addressed(Side), AskInv, NEW r \in Routers,
         NEW g, NEW table, NEW lists, NEW base, NEW via, NEW to,
         Outcome(r, g, table, lists, base, via, to), InHand(r, g, lists, base), ToForwardTruly(r, g, table)
  PROVE  FramesTrue' /\ ListsClear'
<1>1. \A p \in DOMAIN g : p \in DOMAIN header /\ ~IsArp(p)
  BY PacketFields DEF InHand, Parts, TrafficOK
<1>2. ASSUME NEW m \in DOMAIN base PROVE TrueFrame(m)'
  <2>1. m \in DOMAIN wire /\ m.packet \notin DOMAIN g /\ TrueFrame(m)
    BY <1>2 DEF InHand, AskInv, FramesTrue
  <2>2. ~IsArp(m.packet) => SameMacs(m.packet)
    BY <2>1, ArpIsArp DEF Outcome, NewHeadersAre, SameMacs, Parts, TrafficOK, GoodFrame
  <2>3. QED BY <2>1, <2>2, TrueFrameStays
<1>3. ASSUME NEW p \in Routable(r, g)
      PROVE  /\ Known(table, to, p) => TrueFrame(SendsOn(r, via, p))'
             /\ ~Known(table, to, p) => TrueFrame(AsksFor(r, via, to, p))'
             /\ to[p].destIp = g[p].destIp
  <2> DEFINE t == to[p]
             l == via[p]
             h == g[p]
             n == table[t.destIp]
  <2>1. /\ p \in DOMAIN g /\ ~IsArp(p) /\ GoodHeader(h) /\ l \in getRoute(r, h.destIp)
        /\ t \in Translated(r, h) /\ (natEnabled(r) => h.destIp # externalIP[r])
    BY <1>1 DEF Routable, Outcome, Choices, ToForwardTruly
  <2>2. Known(table, to, p) => header'[p] = AddMacHeader(r, l, t, n)
    BY DEF Outcome, NewHeadersAre
  <2> HIDE DEF t, l, h
  <2>3. t.destIp = h.destIp /\ t.destIp \in Ips /\ l \in LinksOf(r)
    BY <2>1, HeadersToSend, SameDestination, NetworkAssumption DEF getRoute
  <2>4. n \in Mac \cup {NoMac} /\ EntryTrue(r, t.destIp, n)
    BY <2>3 DEF ToForwardTruly
  <2> HIDE DEF n
  <2>5. Known(table, to, p) => n # NoMac
    BY DEF Known, n, t
  <2>6. MacAddress(<<r, l>>) \in Mac /\ MacAddress(<<r, l>>).interface = <<r, l>>
    BY <2>3, NetworkAssumption DEF Mac, MacAddress
  <2>7. ASSUME Known(table, to, p) PROVE TrueFrame(Frame(r, l, p))'
    <3>1. Near(Side, n.interface, <<r, l>>)
      BY <2>1, <2>3, <2>4, <2>5, <2>7, SentOnTrue
    <3>2. header'[p].sourceMac = MacAddress(<<r, l>>) /\ header'[p].destinationMac = n
      BY <2>1, <2>2, <2>7, HeadersToSend
    <3>3. Frame(r, l, p).packet = p /\ n \in Mac
      BY <2>4, <2>5, <2>7 DEF Frame
    <3>4. QED BY <2>1, <2>6, <3>1, <3>2, <3>3 DEF TrueFrame, InSegment
  <2>8. TrueFrame(Frame(r, l, ArpRequest(r, l, t.destIp)))'
    <3> DEFINE q == ArpRequest(r, l, t.destIp)
    <3>1. /\ IsArp(q) /\ q.operation = "request" /\ q.sourceMac = MacAddress(<<r, l>>) /\ q.destIp = t.destIp
          /\ Frame(r, l, q).packet = q
      BY <2>3, RouterLinks DEF ArpRequest, Arp, IsArp, Frame
    <3>2. \A j : MacAddress(<<r, l>>) = MacAddress(j) => Asks(j, t.destIp)
      BY <2>1, <2>3, MacAddresses DEF Asks
    <3> HIDE DEF q
    <3>3. TrueFrame(Frame(r, l, q))'
      BY <3>1, <3>2 DEF TrueFrame, ArpTrue
    <3>4. QED BY <3>3 DEF q
  <2>9. QED BY <2>3, <2>7, <2>8 DEF SendsOn, AsksFor, l, t, h
<1>4. FramesTrue'
  BY <1>2, <1>3 DEF FramesTrue, Outcome, NewFramesAre
<1>5. ASSUME NEW x \in Routers, NEW a \in Ips, NEW p \in waitingForArpReply'[x][a], natEnabled(x)
      PROVE  header'[p].destIp # externalIP[x]
  <2>1. CASE p \notin DOMAIN g
    <3>1. p \in waitingForArpReply[x][a]
      BY <1>5, <2>1 DEF InHand, Outcome, NewListsAre, Routable
    <3>2. p \in DOMAIN header
      BY <3>1 DEF Parts, ListsOK
    <3>3. header'[p] = header[p]
      BY <2>1, <3>2 DEF Outcome, NewHeadersAre
    <3>4. QED BY <1>5, <3>1, <3>3 DEF AskInv, ListsClear
  <2>2. CASE p \in DOMAIN g
    <3>1. x = r
      BY <1>5, <2>2 DEF InHand, Outcome, NewListsAre
    <3>2. p \in Routable(r, g) /\ ~Known(table, to, p)
      BY <1>5, <2>2, <3>1 DEF InHand, Outcome, NewListsAre
    <3>3. header'[p] = to[p]
      BY <3>2 DEF Outcome, NewHeadersAre
    <3>4. QED BY <1>3, <1>5, <2>2, <3>1, <3>2, <3>3 DEF ToForwardTruly
  <2>3. QED BY <2>1, <2>2
<1>6. QED BY <1>4, <1>5 DEF ListsClear

LEMMA LearningTrue ==
  ASSUME Parts, LoopFree(Side), Uncopied(Side, Calm), Addressed(Side), TreeInv, AskInv, NEW f \in DOMAIN wire,
         NEW r \in Routers, r \in f.on, r # f.from, NEW via, NEW to, Learns(r, f, via, to)
  PROVE  AskInv'
<1> DEFINE p == f.packet
           g == [q \in Waiting(r, f) |-> header[q]]
           table == Updated(r, f)
           lists == [waitingForArpReply[r] EXCEPT ![p.sourceIp] = {}]
           taken == BagRemove(wire, f)
<1>1. p \in ArpPacket /\ p.operation = "reply" /\ p.sourceIp \in Ips /\ FrameOK(f) /\ TrueFrame(f)
  BY DEF Learns, ArpPacket, TreeInv, FramesOK, AskInv, FramesTrue
<1>2. Outcome(r, g, table, lists, taken, via, to) /\ arpTable' = [arpTable EXCEPT ![r] = table]
  BY DEF Learns
<1>3. \A q \in DOMAIN g : g[q] = header[q] /\ GoodHeader(header[q]) /\ (natEnabled(r) => g[q].destIp # externalIP[r])
  <2>1. DOMAIN g = waitingForArpReply[r][p.sourceIp] /\ DOMAIN g \subseteq DOMAIN header
    BY <1>1 DEF Parts, ListsOK, Waiting
  <2>2. QED BY <1>1, <2>1 DEF Parts, TrafficOK, AskInv, ListsClear
<1>4. \A a \in Ips : table[a] = IF a = p.sourceIp THEN p.sourceMac ELSE arpTable[r][a]
  BY <1>1 DEF Updated, Parts, ArpTablesOK
<1>5. EntryTrue(r, p.sourceIp, p.sourceMac) /\ p.sourceMac \in Mac
  BY <1>1, ReplyTrue DEF EntryTrue
<1>6. InHand(r, g, lists, taken)
  BY LearnerHolds DEF TreeInv
<1> HIDE DEF table, lists, taken, g, p
<1>7. \A a \in Ips : table[a] \in Mac \cup {NoMac} /\ EntryTrue(r, a, table[a])
  BY <1>4, <1>5 DEF AskInv, EntriesTrue, Parts, ArpTablesOK
<1>8. ToForwardTruly(r, g, table)
  BY <1>3, <1>7 DEF ToForwardTruly
<1>9. FramesTrue' /\ ListsClear'
  BY <1>2, <1>6, <1>8, OutcomeTrue
<1>10. EntriesTrue'
  <2>1. \A x \in Hosts \cup Routers : \A a \in Ips : arpTable'[x][a] = IF x = r THEN table[a] ELSE arpTable[x][a]
    BY <1>2 DEF Parts, ArpTablesOK
  <2>2. QED BY <1>7, <2>1 DEF AskInv, EntriesTrue
<1>11. QED BY <1>9, <1>10 DEF AskInv

LEMMA PassingTrue ==
  ASSUME Parts, SentOnce, LoopFree(Side), Uncopied(Side, Calm), Addressed(Side), OnlyAnswers, MappedFirst,
         TreeInv, AskInv, NEW f \in DOMAIN wire, NEW r \in Routers, NEW h, NEW via, NEW to, Passes(r, f, h, via, to)
  PROVE  AskInv'
<1> DEFINE p == f.packet
           g == [q \in {p} |-> h]
           taken == BagRemove(wire, f)
<1>1. p \in DOMAIN header /\ GoodHeader(h) /\ NotToItself(r, p, h) /\ arpTable' = arpTable
  BY DEF Passes, SameAddresses
<1>2. Outcome(r, g, arpTable[r], waitingForArpReply[r], taken, via, to)
  BY DEF Passes
<1>3. DOMAIN g = {p} /\ g[p] = h
  OBVIOUS
<1>4. InHand(r, g, waitingForArpReply[r], taken)
  BY <1>1, PasserHolds DEF TreeInv
<1> HIDE DEF g, taken
<1>5. ASSUME natEnabled(r) PROVE h.destIp # externalIP[r]
  <2>1. externalIP[r] \in OwnIps(r)
    BY <1>5 DEF OnlyAnswers
  <2>2. ASSUME header[p].destIp = externalIP[r] PROVE natTable[r] # {}
    <3>1. p \in Packets /\ p.data \in Datagrams /\ p \in Fragments({p.data})
      BY <1>1 DEF Parts, TrafficOK, Packets, Fragments
    <3>2. p.data \in started
      BY <1>1, <3>1 DEF SentOnce, Unsent
    <3>3. p.data.destIp = externalIP[r]
      <4>1. ~isInternalIp(externalIP[r])
        BY <1>5, NatAssumption DEF natEnabled
      <4>2. Backed(natTable, p, header[p])
        BY <1>1 DEF Parts, TrafficOK
      <4>3. ~Standing(natTable, p.data.destIp, externalIP[r])
        BY <4>1 DEF Standing, Parts, NatOK, OnlyInsideIsMapped
      <4>4. QED BY <2>2, <4>2, <4>3 DEF Backed
    <3>4. QED BY <1>5, <3>2, <3>3 DEF MappedFirst
  <2>3. QED BY <1>1, <1>5, <2>1, <2>2 DEF NotToItself
<1>6. ToForwardTruly(r, g, arpTable[r])
  BY <1>1, <1>3, <1>5 DEF ToForwardTruly, AskInv, EntriesTrue, Parts, ArpTablesOK
<1>7. FramesTrue' /\ ListsClear'
  BY <1>2, <1>4, <1>6, OutcomeTrue
<1>8. QED BY <1>1, <1>7 DEF AskInv, EntriesTrue

LEMMA RouterTrue ==
  ASSUME Parts, SentOnce, LoopFree(Side), Uncopied(Side, Calm), Addressed(Side), OnlyAnswers, MappedFirst,
         TreeInv, AskInv, NEW f \in DOMAIN wire, NEW r \in Routers, r \in f.on, r # f.from,
         RouterReceivesPacket(r, f)
  PROVE  AskInv'
<1> DEFINE p == f.packet
<1>1. FrameOK(f) /\ TrueFrame(f) /\ f.on \in LinksOf(r) /\ r \notin Hosts
  BY NetworkAssumption DEF TreeInv, FramesOK, AskInv, FramesTrue, Parts, TrafficOK, GoodFrame, LinksOf
<1>2. CASE Answers(r, f)
  <2> DEFINE a == Arp("reply", MacAddress(<<r, f.on>>), p.sourceMac, p.destIp, p.sourceIp)
             S == {Frame(r, l, a) : l \in {f.on}}
  <2>1. S = {Frame(r, f.on, a)} /\ wire' = BagRemove(wire, f) (+) SetToBag(S)
    BY <1>2 DEF Answers, Enqueued
  <2>2. a = Arp("reply", MacAddress(Interface(r, f.on)), p.sourceMac, p.destIp, p.sourceIp)
    BY <1>1, RouterLinks
  <2>3. p \in ArpPacket /\ p.operation = "request" /\ UNCHANGED <<header, arpVars>>
    BY <1>2 DEF Answers
  <2> HIDE DEF a, S
  <2>4. TrueFrame(Frame(r, f.on, a))'
    BY <1>1, <2>2, <2>3, AnswerTrue
  <2>5. Moved(f, S)
    BY <2>1, Moves
  <2>6. FramesTrue'
    BY <2>1, <2>3, <2>4, <2>5, TrueAfterMove DEF AskInv
  <2>7. QED BY <2>3, <2>6, TablesSame DEF AskInv
<1>3. ASSUME NEW via, NEW to, Learns(r, f, via, to) PROVE AskInv'
  BY <1>3, LearningTrue
<1>4. ASSUME NEW h, NEW via, NEW to, Passes(r, f, h, via, to) PROVE AskInv'
  BY <1>4, PassingTrue
<1>5. ASSUME NEW h, Discards(r, f, h) PROVE AskInv'
  <2>1. /\ p \in DOMAIN header /\ header' = [header EXCEPT ![p] = h] /\ wire' = BagRemove(wire, f)
        /\ UNCHANGED arpVars
    BY <1>5 DEF Discards
  <2>2. InOnePlace(p) /\ ~IsArp(p)
    BY <2>1, PacketFields DEF TreeInv, OneCopy, Parts, TrafficOK
  <2>3. Moved(f, {})
    BY <2>1, Moves
  <2>4. \A m \in DOMAIN wire' : m \in DOMAIN wire /\ m.packet # p
    BY <2>2, <2>3, AfterMove
  <2>5. FramesTrue'
    <3>1. \A q : q # p => SameMacs(q)
      BY <2>1 DEF SameMacs
    <3>2. QED BY <2>4, <3>1, TrueFrameStays DEF AskInv, FramesTrue
  <2>6. \A x \in Routers : \A a \in Ips : \A q \in waitingForArpReply[x][a] : header'[q].destIp = header[q].destIp
    <3>1. ~Waits(p)
      BY <2>2 DEF InOnePlace
    <3>2. QED BY <2>1, <3>1 DEF Waits
  <2>7. QED BY <2>1, <2>5, <2>6, TablesSame DEF AskInv
<1>6. QED BY <1>2, <1>3, <1>4, <1>5, RouterDoes DEF Handles

-----------------------------------------------------------------------------
LEMMA StepTrue ==
  ASSUME Parts, SentOnce, LoopFree(Side), Uncopied(Side, Calm), Addressed(Side), OnlyAnswers, MappedFirst,
         TreeInv, AskInv, [Next]_vars
  PROVE  AskInv'
<1>1. CASE UNCHANGED vars
  BY <1>1 DEF vars, AskInv, FramesTrue, TrueFrame, EntriesTrue, ListsClear
<1>2. CASE \E d \in Datagrams : StartTraffic(d)
  BY <1>2, StartTrue
<1>3. CASE \E f \in DOMAIN wire : transferPacket(f)
  BY <1>3, LossTrue
<1>4. ASSUME NEW f \in DOMAIN wire, NEW x \in f.on, Receives(x, f) PROVE AskInv'
  BY <1>4, SwitchTrue, HostTrue, RouterTrue DEF Receives
<1>5. QED BY <1>1, <1>2, <1>3, <1>4 DEF Next

LEMMA StartsTrue == Init => MappedFirst /\ AskInv
<1> SUFFICES ASSUME Init PROVE MappedFirst /\ AskInv
  OBVIOUS
<1>1. DOMAIN wire = {} /\ started = {}
  BY DEF Init, EmptyBag, SetToBag
<1>2. /\ waitingForArpReply = [x \in Hosts \cup Routers |-> [a \in Ips |-> {}]]
      /\ arpTable = [x \in Hosts \cup Routers |-> [a \in Ips |-> NoMac]]
  BY DEF Init
<1>3. QED BY <1>1, <1>2 DEF MappedFirst, AskInv, FramesTrue, EntriesTrue, EntryTrue, ListsClear

LEMMA TruthStays ==
  ASSUME NEW inner \in SUBSET Links, Divided(inner), LoopFree(Side), Uncopied(Side, Calm), Addressed(Side), OnlyAnswers
  PROVE  Spec => [](IInv /\ TreeInv /\ AskInv)
<1>1. Init => MappedFirst /\ AskInv
  BY StartsTrue
<1>2. IInv /\ SentOnce /\ TreeInv /\ NatHidesInside /\ MappedFirst /\ AskInv /\ [Next]_vars => (MappedFirst /\ AskInv)'
  BY TheParts, StepMapped, StepTrue
<1>3. Spec => []NatHidesInside
  BY InsideIsHidden
<1>4. QED BY <1>1, <1>2, <1>3, InTree, PTL DEF Spec

LEMMA NearInterfaces ==
  ASSUME LoopFree(Side), NEW m \in Mac, NEW j, Near(Side, m.interface, j)
  PROVE  m.interface \in DOMAIN ip /\ \E y \in Hosts \cup Routers : \E k \in Links : m.interface = Interface(y, k)
<1>1. \E y \in Hosts \cup Routers : \E k \in Links : m.interface = Interface(y, k)
  BY DEF LoopFree, Near
<1>2. m.interface # <<>>
  BY <1>1 DEF Interface
<1>3. QED BY <1>1, <1>2 DEF Mac

\* What hosts and routers believe about foreign addresses leads on: to their owner, or
\* to a router that sends on what is for them, although routers answer requests for any
\* address and headers are translated on the way (router.go: onArpRequestPacketReceived,
\* handleARP.go).
THEOREM EntriesLeadOn ==
  ASSUME NEW inner \in SUBSET Links, Divided(inner), LoopFree(Side), Uncopied(Side, Calm), Addressed(Side), OnlyAnswers
  PROVE  Spec => []ArpLeadsOn
<1>1. ASSUME IInv, AskInv PROVE ArpLeadsOn
  <2> SUFFICES ASSUME NEW x \in Hosts \cup Routers, NEW a \in Ips \ OwnIps(x), arpTable[x][a] # NoMac
               PROVE  LET i == arpTable[x][a].interface
                      IN \/ ip[i] = a
                         \/ Len(i) = 2 /\ getRoute(i[1], a) # {} /\ i[2] \notin getRoute(i[1], a)
    BY DEF ArpLeadsOn
  <2> DEFINE m == arpTable[x][a]
             i == m.interface
  <2>1. m \in Mac
    BY <1>1, TheParts DEF Parts, ArpTablesOK
  <2>2. PICK l \in LinksOf(x) : Answered(m, Interface(x, l), a)
    BY <1>1 DEF AskInv, EntriesTrue, EntryTrue
  <2> DEFINE j == Interface(x, l)
  <2>3. j \in DOMAIN ip /\ j[1] = x
    BY NetworkAssumption DEF Interface
  <2>4. Near(Side, i, j) /\ Asks(j, a) /\ \A h \in Hosts : i = <<h>> => ip[<<h>>] = a
    BY <2>2 DEF Answered
  <2> HIDE DEF m, j
  <2>5. PICK y \in Hosts \cup Routers, k \in Links : i = Interface(y, k)
    BY <2>1, <2>4, NearInterfaces
  <2>6. i \in DOMAIN ip
    BY <2>1, <2>4, NearInterfaces
  <2>7. CASE y \in Routers
    <3>1. i = <<y, k>>
      BY <2>5, <2>7 DEF Interface
    <3>2. Len(i) = 2
      BY <3>1
    <3>3. a \in Ips \ OwnIps(j[1])
      BY <2>3
    <3> HIDE DEF i
    <3>4. ip[i] = a \/ (getRoute(i[1], a) # {} /\ i[2] \notin getRoute(i[1], a))
      BY <2>3, <2>4, <2>6, <3>2, <3>3 DEF Addressed
    <3>5. QED BY <3>2, <3>4 DEF i, m
  <2>8. CASE y \notin Routers
    <3>1. i = <<y>> /\ y \in Hosts
      BY <2>5, <2>8 DEF Interface
    <3>2. QED BY <2>4, <3>1 DEF m
  <2>9. QED BY <2>7, <2>8
<1>2. QED BY <1>1, TruthStays, PTL

\* On every link, what comes to a host or router is addressed to an interface of that
\* link's network: hosts and routers replace the header for the next segment by what
\* ARP has told them there (packet.go: AddMacHeader).
THEOREM HeadersOfThisSegment ==
  ASSUME NEW inner \in SUBSET Links, Divided(inner), LoopFree(Side), Uncopied(Side, Calm), Addressed(Side), OnlyAnswers
  PROVE  Spec => []MacsOfThisSegment
<1>1. ASSUME IInv, TreeInv, AskInv PROVE MacsOfThisSegment
  <2> SUFFICES ASSUME NEW f \in DOMAIN wire, NEW x \in (Hosts \cup Routers) \cap (f.on \ {f.from}), ~IsArp(f.packet)
               PROVE  LET m == header[f.packet].destinationMac
                      IN m # NoMac /\ isSameNetwork(ip[m.interface], ip[Interface(x, f.on)])
    BY DEF MacsOfThisSegment
  <2> DEFINE m == header[f.packet].destinationMac
             n == header[f.packet].sourceMac
             i == Interface(x, f.on)
  <2>1. m \in Mac /\ n \in Mac /\ Near(Side, m.interface, n.interface)
    BY <1>1 DEF AskInv, FramesTrue, TrueFrame, InSegment
  <2>2. f.on \in Links /\ f.from \in f.on /\ f.on \in LinksOf(x)
    BY <1>1, TheParts DEF Parts, TrafficOK, GoodFrame, LinksOf
  <2>3. PICK j \in Side[f.from][f.on] : n = MacAddress(j)
    BY <1>1 DEF TreeInv, FramesOK, FrameOK, FromThere, OnSide, HeaderOf
  <2>4. n.interface = j
    BY <2>3 DEF MacAddress
  <2>5. Near(Side, i, j)
    BY <2>2, NearBy
  <2>6. i \in DOMAIN ip
    BY <2>2, NetworkAssumption DEF Interface
  <2>7. m.interface \in DOMAIN ip
    BY <2>1, NearInterfaces
  <2> HIDE DEF m, n, i
  <2>8. j \in DOMAIN ip
    <3>1. PICK y \in Hosts \cup Routers, k \in Links : j = Interface(y, k)
      BY <2>2 DEF LoopFree
    <3>2. j # <<>>
      BY <3>1 DEF Interface
    <3>3. QED BY <2>1, <2>4, <3>2 DEF Mac
  <2>9. isSameNetwork(ip[m.interface], ip[j]) /\ isSameNetwork(ip[i], ip[j])
    BY <2>1, <2>4, <2>5, <2>6, <2>7, <2>8 DEF Addressed
  <2>10. m # NoMac
    BY <2>1, NetworkAssumption
  <2>11. QED BY <2>9, <2>10 DEF isSameNetwork, m, i
<1>2. QED BY <1>1, TruthStays, PTL
=============================================================================
