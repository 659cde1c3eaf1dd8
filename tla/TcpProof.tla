------------------------------ MODULE TcpProof ------------------------------
(***************************************************************************)
(* Theorems about Tcp, for any hosts, ports, flows and payloads, for flows *)
(* whose ports collide as well, and any number of losses.                  *)
(***************************************************************************)
EXTENDS Tcp, CommonFacts, TLAPS

\* A segment of flow g, from the host that opened the connection or back to it.
Forward(p, g) ==
  p.from = From[g] /\ p.to = To[g] /\ p.sp = SrcPort[g] /\ p.dp = DstPort[g]
Backward(p, g) ==
  p.from = To[g] /\ p.to = From[g] /\ p.sp = DstPort[g] /\ p.dp = SrcPort[g]

\* The connections of a segment's sender, and of its receiver, among conns.
Own(conns, p) == conns[p.from][<<p.to, p.dp>>]
Looked(conns, p) == conns[p.to][<<p.from, p.sp>>]

\* What a segment in flight says about the connections of its two ends.
Registered(conns, p) ==
  /\ p.flags = "SYN" => Own(conns, p) # None /\ \E g \in Flows : Forward(p, g)
  /\ p.flags = "SYN,ACK" =>
       Own(conns, p) # None /\ Looked(conns, p) # None /\ \E g \in Flows : Backward(p, g)
  /\ p.flags = "PSH" => Looked(conns, p) # None /\ \E g \in Flows : Forward(p, g)

Bounded(S) == \E n \in Nat : \A m \in S : m < n

BoundedReceived ==
  \A h \in Hosts, k \in Keys : tcpConnections[h][k] # None =>
    Bounded(tcpConnections[h][k].receivedSequenceNumbers)

IInv == /\ TypeOK /\ BoundedReceived /\ panicked = FALSE
        /\ \A p \in DOMAIN wire : Registered(tcpConnections, p)

-----------------------------------------------------------------------------
\* nextExpectedSeq is the first number from ack on that has not been received.
LEMMA NextExpected ==
  ASSUME NEW ack \in Nat, NEW received \in SUBSET Nat, Bounded(received)
  PROVE  /\ nextExpectedSeq(ack, received) \in Nat
         /\ nextExpectedSeq(ack, received) >= ack
         /\ nextExpectedSeq(ack, received) \notin received
         /\ ack..(nextExpectedSeq(ack, received) - 1) \subseteq received
<1> DEFINE missing == {n \in Nat : n >= ack /\ n \notin received}
<1>1. PICK top \in Nat : \A n \in received : n < top
  BY DEF Bounded
<1>2. ack + top \in missing
  BY <1>1
<1>3. PICK n \in missing : \A m \in missing : n <= m
  <2>1. missing \in SUBSET Nat /\ missing # {}
    BY <1>2
  <2> HIDE DEF missing
  <2>2. QED BY <2>1, LeastNatural
<1>4. n \in Nat /\ n >= ack /\ n \notin received /\ ack..(n - 1) \subseteq received
  BY <1>3
<1>5. n = ack \/ n - 1 \in received
  BY <1>4
<1>6. n \in {ack} \cup {m + 1 : m \in received}
  BY <1>4, <1>5
<1> DEFINE next == nextExpectedSeq(ack, received)
<1>7. /\ next \in {ack} \cup {m + 1 : m \in received}
      /\ next >= ack /\ next \notin received /\ ack..(next - 1) \subseteq received
  BY <1>4, <1>6 DEF nextExpectedSeq
<1>8. QED BY <1>7

LEMMA BoundedUnion ==
  ASSUME NEW S \in SUBSET Nat, Bounded(S), NEW T \in SUBSET Nat, Bounded(T)
  PROVE  S \cup T \in SUBSET Nat /\ Bounded(S \cup T)
<1>1. PICK a \in Nat : \A m \in S : m < a
  BY DEF Bounded
<1>2. PICK b \in Nat : \A m \in T : m < b
  BY DEF Bounded
<1>3. \A m \in S \cup T : m < a + b
  BY <1>1, <1>2
<1>4. QED BY <1>3 DEF Bounded

LEMMA MinOfTwo ==
  ASSUME NEW a \in Nat, NEW b \in Nat
  PROVE  Min({a, b}) \in Nat /\ Min({a, b}) <= b /\ Min({a, b}) <= a /\ Min({a, b}) \in {a, b}
<1>1. \E x \in {a, b} : \A y \in {a, b} : x <= y
  OBVIOUS
<1>2. Min({a, b}) \in {a, b} /\ \A y \in {a, b} : Min({a, b}) <= y
  BY <1>1 DEF Min
<1>3. QED BY <1>2

\* A part of e bytes, of length l from byte b on, lies within them.
LEMMA PartWithin ==
  \A a, b, e, l \in Nat : b < e /\ l <= e - b => a <= a + b /\ a + b + l <= a + e
  OBVIOUS

\* Between the first number and the one before it there is none.
LEMMA NothingReceived ==
  \A a, b \in Nat : a..(a - 1) = {} /\ a <= a /\ a <= a + b /\ (a + b) - b = a
  OBVIOUS

LEMMA EmptyIsBag == IsABag(EmptyBag) /\ DOMAIN EmptyBag = {}
  BY DEF EmptyBag, SetToBag, IsABag

LEMMA Sending ==
  ASSUME NEW ps, IsABag(wire), wire' = Sent(ps)
  PROVE  IsABag(wire') /\ DOMAIN wire' = DOMAIN wire \cup ps
  BY WireAdd DEF Sent, BagToSet

LEMMA Exchanging ==
  ASSUME NEW p \in DOMAIN wire, NEW ps, IsABag(wire), wire' = Exchanged(p, ps)
  PROVE  IsABag(wire') /\ DOMAIN wire' \subseteq DOMAIN wire \cup ps
<1>1. /\ IsABag(BagRemove(wire, p))
      /\ DOMAIN BagRemove(wire, p) \subseteq DOMAIN wire
  BY WireRemove DEF BagToSet, BagRemove, Ext!BagRemove
<1> DEFINE rest == BagRemove(wire, p)
<1>2. wire' = rest (+) SetToBag(ps)
  BY DEF Exchanged
<1> HIDE DEF rest
<1>3. IsABag(rest (+) SetToBag(ps)) /\ DOMAIN (rest (+) SetToBag(ps)) = DOMAIN rest \cup ps
  BY <1>1, WireAdd DEF BagToSet, rest
<1>4. QED BY <1>1, <1>2, <1>3 DEF rest

-----------------------------------------------------------------------------
LEMMA NoneIsNoConnection == \A c \in Connection : c # None
<1>1. None.TCPConnectionState = "none"
  BY DEF None
<1>2. \A c \in Connection : c.TCPConnectionState # "none"
  BY DEF Connection
<1>3. QED BY <1>1, <1>2

\* Connections are never removed.
Lasting == \A h \in Hosts, k \in Keys : tcpConnections[h][k] # None => tcpConnections'[h][k] # None

\* A connection is made or changed.
LEMMA ConnectionSet ==
  ASSUME TypeOK, BoundedReceived, NEW h \in Hosts, NEW k \in Keys, NEW c \in Connection,
         Bounded(c.receivedSequenceNumbers),
         tcpConnections' = [tcpConnections EXCEPT ![h][k] = c]
  PROVE  /\ tcpConnections' \in [Hosts -> [Keys -> Connection \cup {None}]]
         /\ BoundedReceived' /\ Lasting /\ tcpConnections'[h][k] = c /\ c # None
         /\ \A g \in Hosts, j \in Keys : g # h \/ j # k => tcpConnections'[g][j] = tcpConnections[g][j]
<1>1. tcpConnections \in [Hosts -> [Keys -> Connection \cup {None}]]
  BY DEF TypeOK
<1>2. tcpConnections' \in [Hosts -> [Keys -> Connection \cup {None}]]
  BY <1>1
<1>3. /\ tcpConnections'[h][k] = c
      /\ \A g \in Hosts, j \in Keys : g # h \/ j # k => tcpConnections'[g][j] = tcpConnections[g][j]
  BY <1>1
<1>4. c # None
  BY NoneIsNoConnection
<1>5. Lasting
  BY <1>3, <1>4 DEF Lasting
<1>6. BoundedReceived'
  BY <1>3 DEF BoundedReceived
<1>7. QED BY <1>2, <1>3, <1>4, <1>5, <1>6

\* What holds of a segment in flight keeps holding of it.
LEMMA StillRegistered ==
  ASSUME Lasting, NEW p \in Segment, Registered(tcpConnections, p)
  PROVE  Registered(tcpConnections', p)
<1>1. p.from \in Hosts /\ p.to \in Hosts /\ <<p.to, p.dp>> \in Keys /\ <<p.from, p.sp>> \in Keys
  BY DEF Segment, Keys
<1>2. /\ Own(tcpConnections, p) # None => Own(tcpConnections', p) # None
      /\ Looked(tcpConnections, p) # None => Looked(tcpConnections', p) # None
  BY <1>1 DEF Lasting, Own, Looked
<1>3. QED BY <1>2 DEF Registered, Forward, Backward

\* A step that handles p and sends ps, seen from the invariant.
LEMMA HandledInv ==
  ASSUME IInv, NEW p \in DOMAIN wire, NEW ps \in SUBSET Segment, wire' = Exchanged(p, ps),
         tcpConnections' \in [Hosts -> [Keys -> Connection \cup {None}]],
         BoundedReceived', Lasting, \A q \in ps : Registered(tcpConnections', q),
         receivedBytes' \in [Hosts -> Nat], losses' \in Nat,
         UNCHANGED <<unstarted, waitingForArpReply>>, panicked' = FALSE
  PROVE  IInv'
<1>1. IsABag(wire) /\ DOMAIN wire \subseteq Segment
  BY DEF IInv, TypeOK
<1>2. IsABag(wire') /\ DOMAIN wire' \subseteq DOMAIN wire \cup ps
  BY <1>1, Exchanging
<1>3. \A q \in DOMAIN wire' : Registered(tcpConnections', q)
  BY <1>1, <1>2, StillRegistered DEF IInv
<1>4. TypeOK'
  BY <1>1, <1>2 DEF IInv, TypeOK
<1>5. QED BY <1>3, <1>4 DEF IInv

LEMMA InitInv == Init => IInv
<1> SUFFICES ASSUME Init PROVE IInv
  OBVIOUS
<1>1. /\ tcpConnections \in [Hosts -> [Keys -> Connection \cup {None}]]
      /\ \A h \in Hosts, k \in Keys : tcpConnections[h][k] = None
  BY DEF Init
<1>2. BoundedReceived
  BY <1>1 DEF BoundedReceived
<1>3. IsABag(wire) /\ DOMAIN wire = {}
  BY EmptyIsBag DEF Init
<1>4. /\ unstarted = Flows /\ waitingForArpReply = {} /\ losses = 0 /\ panicked = FALSE
      /\ receivedBytes \in [Hosts -> Nat]
  BY DEF Init
<1>5. TypeOK
  BY <1>1, <1>3, <1>4 DEF TypeOK
<1>6. QED BY <1>2, <1>3, <1>4, <1>5 DEF IInv

-----------------------------------------------------------------------------
\* A new connection.
LEMMA Initiated ==
  ASSUME NEW data \in Nat, NEW state \in {"CLOSED", "SYN_RECEIVED"}, NEW seq \in Nat, NEW ack \in Nat
  PROVE  /\ initiateConnectionInfo(data, state, seq, ack) \in Connection
         /\ initiateConnectionInfo(data, state, seq, ack).receivedSequenceNumbers = {}
         /\ Bounded(initiateConnectionInfo(data, state, seq, ack).receivedSequenceNumbers)
  BY DEF initiateConnectionInfo, Connection, Bounded

\* The step leaves connections alone.
LEMMA ConnectionsKept ==
  ASSUME IInv, tcpConnections' = tcpConnections
  PROVE  /\ tcpConnections' \in [Hosts -> [Keys -> Connection \cup {None}]]
         /\ BoundedReceived' /\ Lasting
  BY DEF IInv, TypeOK, BoundedReceived, Lasting

LEMMA StartInv == ASSUME IInv, NEW f \in Flows, startTCPConnectionAndSendPacket(f) PROVE IInv'
<1> DEFINE h == From[f]
           k == <<To[f], DstPort[f]>>
<1>1. h \in Hosts /\ k \in Keys /\ Len[f] \in Nat
  BY FlowsAssumption DEF Keys
<1>2. /\ tcpConnections' \in [Hosts -> [Keys -> Connection \cup {None}]]
      /\ BoundedReceived' /\ Lasting /\ tcpConnections'[h][k] # None
  <2>1. CASE tcpConnections[h][k] # None /\ UNCHANGED tcpConnections
    BY <2>1, ConnectionsKept
  <2>2. ASSUME NEW i \in Isns, tcpConnections' = [tcpConnections EXCEPT
                 ![h][k] = initiateConnectionInfo(Len[f], "CLOSED", i, 0)]
        PROVE  <1>2
    <3>1. i \in Nat
      BY IsnsAssumption
    <3> DEFINE c == initiateConnectionInfo(Len[f], "CLOSED", i, 0)
    <3>2. c \in Connection /\ Bounded(c.receivedSequenceNumbers)
      BY <1>1, <3>1, Initiated
    <3> HIDE DEF c
    <3>3. tcpConnections' = [tcpConnections EXCEPT ![h][k] = c]
      BY <2>2 DEF c
    <3> HIDE DEF h, k
    <3>4. QED BY <1>1, <3>2, <3>3, ConnectionSet DEF IInv
  <2>3. QED BY <2>1, <2>2 DEF startTCPConnectionAndSendPacket
<1> DEFINE q == initiateTCPHandshake(f, tcpConnections'[h][k])
<1>3. tcpConnections'[h][k] \in Connection
  BY <1>1, <1>2
<1>4. q \in Segment /\ Registered(tcpConnections', q)
  <2>1. tcpConnections'[h][k].sequenceNumber \in Nat /\ tcpConnections'[h][k].acknowledgementNumber \in Nat
    BY <1>3 DEF Connection
  <2>2. q \in Segment
    BY <2>1, FlowsAssumption DEF initiateTCPHandshake, Segment
  <2>3. /\ q.flags = "SYN" /\ q.from = h /\ q.to = To[f] /\ q.sp = SrcPort[f] /\ q.dp = DstPort[f]
    BY DEF initiateTCPHandshake
  <2>4. Own(tcpConnections', q) # None /\ Forward(q, f)
    BY <1>2, <2>3 DEF Own, Forward
  <2>5. QED BY <2>2, <2>3, <2>4 DEF Registered, Forward
<1>5. IsABag(wire) /\ DOMAIN wire \subseteq Segment
  BY DEF IInv, TypeOK
<1>6. /\ IsABag(wire') /\ DOMAIN wire' \subseteq Segment
      /\ \A p \in DOMAIN wire' : Registered(tcpConnections', p)
  <2>1. \A p \in DOMAIN wire : Registered(tcpConnections', p)
    BY <1>2, <1>5, StillRegistered DEF IInv
  <2>2. CASE wire' = wire
    BY <1>5, <2>1, <2>2
  <2>3. CASE wire' = Sent({q})
    <3>1. IsABag(wire') /\ DOMAIN wire' = DOMAIN wire \cup {q}
      BY <1>5, <2>3, Sending
    <3>2. QED BY <1>4, <1>5, <2>1, <3>1
  <2>4. QED BY <2>2, <2>3 DEF startTCPConnectionAndSendPacket
<1>7. unstarted' \subseteq Flows /\ waitingForArpReply' \subseteq Flows \ unstarted'
  BY DEF startTCPConnectionAndSendPacket, IInv, TypeOK
<1>8. UNCHANGED <<receivedBytes, losses, panicked>>
  BY DEF startTCPConnectionAndSendPacket
<1>9. TypeOK'
  BY <1>2, <1>6, <1>7, <1>8 DEF IInv, TypeOK
<1>10. QED BY <1>2, <1>6, <1>8, <1>9 DEF IInv

\* The segment p that is handled, and its key.
LEMMA SegmentFacts ==
  ASSUME IInv, NEW p \in DOMAIN wire
  PROVE  /\ p \in Segment /\ Registered(tcpConnections, p)
         /\ p.from \in Hosts /\ p.to \in Hosts /\ p.sp \in Ports /\ p.dp \in Ports
         /\ p.seq \in Nat /\ p.len \in Nat
         /\ createTCPConnectionKeyFromPacket(p) = <<p.from, p.sp>>
         /\ createTCPConnectionKeyFromPacket(p) \in Keys
         /\ Looked(tcpConnections, p) = tcpConnections[p.to][createTCPConnectionKeyFromPacket(p)]
         /\ Looked(tcpConnections, p) \in Connection \cup {None}
         /\ receivedBytes \in [Hosts -> Nat] /\ losses \in Nat
<1>1. /\ p \in Segment /\ Registered(tcpConnections, p)
      /\ tcpConnections \in [Hosts -> [Keys -> Connection \cup {None}]]
  BY DEF IInv, TypeOK
<1>2. /\ p.from \in Hosts /\ p.to \in Hosts /\ p.sp \in Ports /\ p.dp \in Ports
      /\ p.seq \in Nat /\ p.len \in Nat
  BY <1>1 DEF Segment
<1>3. <<p.from, p.sp>> \in Keys
  BY <1>2 DEF Keys
<1>4. QED BY <1>1, <1>2, <1>3 DEF createTCPConnectionKeyFromPacket, Looked, IInv, TypeOK

\* A SYN: the connection it is for is there afterwards, and so was its sender's.
LEMMA SynInv ==
  ASSUME IInv, NEW p \in DOMAIN wire, p.flags = "SYN", sendTCPSYNACK(p),
         UNCHANGED <<unstarted, waitingForArpReply, losses>>
  PROVE  IInv'
<1> DEFINE k == createTCPConnectionKeyFromPacket(p)
<1>1. PICK i \in Isns :
        /\ tcpConnections' = IF tcpConnections[p.to][k] # None THEN tcpConnections
             ELSE [tcpConnections EXCEPT
                     ![p.to][k] = initiateConnectionInfo(0, "SYN_RECEIVED", i, p.seq + 1)]
        /\ wire' = Exchanged(p, {sendTCPPacket(p, "SYN,ACK", i, p.seq + 1, 0)})
        /\ UNCHANGED <<receivedBytes, panicked>>
  BY DEF sendTCPSYNACK
<1>2. i \in Nat /\ p.seq + 1 \in Nat /\ p \in Segment
  BY SegmentFacts, IsnsAssumption
<1>3. /\ tcpConnections' \in [Hosts -> [Keys -> Connection \cup {None}]]
      /\ BoundedReceived' /\ Lasting /\ tcpConnections'[p.to][k] # None
  <2>1. CASE tcpConnections[p.to][k] # None
    BY <1>1, <2>1, ConnectionsKept
  <2>2. CASE tcpConnections[p.to][k] = None
    <3> DEFINE c == initiateConnectionInfo(0, "SYN_RECEIVED", i, p.seq + 1)
    <3>1. c \in Connection /\ Bounded(c.receivedSequenceNumbers)
      BY <1>2, Initiated
    <3>2. p.to \in Hosts /\ k \in Keys
      BY SegmentFacts
    <3>3. tcpConnections' = [tcpConnections EXCEPT ![p.to][k] = c]
      BY <1>1, <2>2
    <3> DEFINE h == p.to
    <3>4. h \in Hosts /\ tcpConnections' = [tcpConnections EXCEPT ![h][k] = c]
      BY <3>2, <3>3
    <3> HIDE DEF c, k, h
    <3>5. /\ tcpConnections' \in [Hosts -> [Keys -> Connection \cup {None}]]
          /\ BoundedReceived' /\ Lasting /\ tcpConnections'[h][k] # None
      BY <3>1, <3>2, <3>4, ConnectionSet DEF IInv
    <3>6. QED BY <3>5 DEF h
  <2>3. QED BY <2>1, <2>2
<1> DEFINE q == sendTCPPacket(p, "SYN,ACK", i, p.seq + 1, 0)
<1>4. /\ q \in Segment /\ q.flags = "SYN,ACK" /\ q.from = p.to /\ q.to = p.from
      /\ q.sp = p.dp /\ q.dp = p.sp
  BY <1>2 DEF sendTCPPacket, Segment
<1> HIDE DEF q
<1>5. Registered(tcpConnections', p)
  BY <1>3, SegmentFacts, StillRegistered
<1>6. /\ Own(tcpConnections', q) = tcpConnections'[p.to][k]
      /\ Looked(tcpConnections', q) = Own(tcpConnections', p)
  BY <1>4, SegmentFacts DEF Own, Looked
<1>7. PICK g \in Flows : Forward(p, g)
  BY SegmentFacts DEF Registered
<1>8. Registered(tcpConnections', q)
  <2>1. Backward(q, g)
    BY <1>4, <1>7 DEF Forward, Backward
  <2>2. Own(tcpConnections', p) # None
    BY <1>5 DEF Registered, Own
  <2>3. QED BY <1>3, <1>4, <1>6, <2>1, <2>2 DEF Registered, Backward
<1>9. receivedBytes' \in [Hosts -> Nat] /\ losses' \in Nat /\ panicked' = FALSE
  <2>1. receivedBytes' = receivedBytes /\ losses' = losses /\ panicked' = panicked
    BY <1>1
  <2>2. QED BY <2>1 DEF IInv, TypeOK
<1>10. wire' = Exchanged(p, {q})
  BY <1>1 DEF q
<1> HIDE DEF k
<1>11. QED BY <1>3, <1>4, <1>8, <1>9, <1>10, HandledInv

\* The numbers of the bytes of segment p.
Numbers(p) == p.seq..(p.seq + p.len - 1)

\* The data segments among ps have the numbers from a to before b, each once.
Tiled(ps, a, b) ==
  /\ \A q, r \in ps : q.flags = "PSH" /\ r.flags = "PSH" /\ q # r => Numbers(q) \cap Numbers(r) = {}
  /\ \A n \in a..(b - 1) : \E q \in ps : q.flags = "PSH" /\ n \in Numbers(q)

\* Parts of s bytes: each byte is in one of them, and they do not overlap.
LEMMA PartOf ==
  ASSUME NEW s \in Nat \ {0}, NEW b \in Nat
  PROVE  \E n \in 0..b : n * s <= b /\ b < n * s + s
<1> DEFINE n == b \div s
<1>1. n \in 0..b /\ n * s <= b /\ b < n * s + s
  OBVIOUS
<1>2. QED BY <1>1

LEMMA PartsApart ==
  ASSUME NEW s \in Nat \ {0}, NEW m \in Nat, NEW n \in Nat, m < n
  PROVE  m * s + s <= n * s
  OBVIOUS

\* The data segments have the numbers of all bytes, each once.
LEMMA DataInParts ==
  ASSUME NEW p, NEW seq \in Nat, NEW ack, NEW d \in Nat,
         NEW ps, ps = sendTCPDataPacket(p, seq, ack, d)
  PROVE  Tiled(ps, seq, seq + d)
<1> DEFINE at(n) == n * SegmentSize
           size(n) == Min({SegmentSize, d - at(n)})
           part(n) == sendTCPPacket(p, "PSH", seq + at(n), ack, size(n))
           parts == {n \in 0..d : at(n) < d}
<1>1. ps = {part(n) : n \in parts}
  BY DEF sendTCPDataPacket
<1>2. \A n : part(n).flags = "PSH" /\ part(n).seq = seq + at(n) /\ part(n).len = size(n)
  BY DEF sendTCPPacket
<1> HIDE DEF part
<1>3. \A n \in parts : /\ n \in Nat /\ at(n) \in Nat
                       /\ size(n) \in Nat /\ size(n) <= SegmentSize /\ size(n) \in {SegmentSize, d - at(n)}
  <2> SUFFICES ASSUME NEW n \in parts
               PROVE  /\ n \in Nat /\ at(n) \in Nat
                      /\ size(n) \in Nat /\ size(n) <= SegmentSize /\ size(n) \in {SegmentSize, d - at(n)}
    OBVIOUS
  <2>1. n \in Nat /\ at(n) < d /\ SegmentSize \in Nat
    BY SegmentAssumption
  <2>2. at(n) \in Nat
    BY <2>1, NaturalArithmetic
  <2>3. d - at(n) \in Nat
    <3> HIDE DEF at
    <3>1. QED BY <2>1, <2>2, NaturalArithmetic
  <2>4. QED BY <2>1, <2>2, <2>3, MinOfTwo
<1>4. \A m, n \in parts : m < n => at(m) + SegmentSize <= at(n)
  BY <1>3, SegmentAssumption, PartsApart
<1>5. \A b \in 0..(d - 1) : \E n \in parts : at(n) <= b /\ b < at(n) + SegmentSize
  <2> SUFFICES ASSUME NEW b \in 0..(d - 1)
               PROVE  \E n \in parts : at(n) <= b /\ b < at(n) + SegmentSize
    OBVIOUS
  <2>0. b \in Nat
    OBVIOUS
  <2>1. PICK n \in 0..b : at(n) <= b /\ b < at(n) + SegmentSize
    BY <2>0, SegmentAssumption, PartOf
  <2>2. n \in Nat /\ at(n) \in Nat
    BY SegmentAssumption, NaturalArithmetic
  <2> HIDE DEF at
  <2>3. n \in parts
    BY <2>1, <2>2
  <2>4. QED BY <2>1, <2>3
<1> HIDE DEF at, size, parts
<1>6. SegmentSize \in Nat
  BY SegmentAssumption
<1>7. ASSUME NEW m \in parts, NEW n \in parts, m < n
      PROVE  Numbers(part(m)) \cap Numbers(part(n)) = {}
  <2>1. /\ at(m) + SegmentSize <= at(n) /\ at(m) \in Nat /\ at(n) \in Nat
        /\ size(m) \in Nat /\ size(n) \in Nat /\ size(m) <= SegmentSize
    BY <1>3, <1>4, <1>7
  <2>2. QED BY <1>2, <1>6, <2>1 DEF Numbers
<1>8. ASSUME NEW q \in ps, NEW r \in ps, q # r PROVE Numbers(q) \cap Numbers(r) = {}
  <2>1. PICK m \in parts : q = part(m)
    BY <1>1
  <2>2. PICK n \in parts : r = part(n)
    BY <1>1
  <2>3. m < n \/ n < m
    BY <1>3, <1>8, <2>1, <2>2
  <2>4. QED BY <1>7, <2>1, <2>2, <2>3
<1>9. ASSUME NEW i \in seq..(seq + d - 1) PROVE \E q \in ps : q.flags = "PSH" /\ i \in Numbers(q)
  <2>1. PICK n \in parts : at(n) <= i - seq /\ i - seq < at(n) + SegmentSize
    BY <1>5
  <2>2. i \in Numbers(part(n))
    <3>1. at(n) \in Nat /\ size(n) \in {SegmentSize, d - at(n)}
      BY <1>3
    <3>2. QED BY <1>2, <1>6, <2>1, <3>1 DEF Numbers
  <2>3. QED BY <1>1, <1>2, <2>2
<1>10. QED BY <1>8, <1>9 DEF Tiled

\* What a SYN,ACK does: the connection is established, and the data that was left
\* to send is in flight, numbered from the one after the SYN's.
Reply(q, p) == q.from = p.to /\ q.to = p.from /\ q.sp = p.dp /\ q.dp = p.sp

SynAckEffect(p, k, conn) ==
  \E c \in Connection, ps \in SUBSET Segment :
    /\ tcpConnections' = [tcpConnections EXCEPT ![p.to][k] = c]
    /\ wire' = Exchanged(p, ps)
    /\ c.TCPConnectionState = "ESTABLISHED"
    /\ c.sequenceNumber = conn.sequenceNumber + 1 + conn.data
    /\ c.receivedSequenceNumbers = conn.receivedSequenceNumbers
    /\ \A q \in ps : /\ Reply(q, p) /\ q.flags \in {"ACK", "PSH"}
                     /\ q.flags = "PSH" => /\ conn.sequenceNumber + 1 <= q.seq
                                           /\ q.seq + q.len <= c.sequenceNumber
    /\ Tiled(ps, conn.sequenceNumber + 1, c.sequenceNumber)

LEMMA SynAckStep ==
  ASSUME IInv, NEW p \in DOMAIN wire, p.flags = "SYN,ACK", establishTCPConnection(p),
         NEW k, k = createTCPConnectionKeyFromPacket(p),
         NEW conn, conn = tcpConnections[p.to][k]
  PROVE  /\ conn \in Connection /\ panicked' = FALSE /\ receivedBytes' = receivedBytes
         /\ SynAckEffect(p, k, conn)
<1> DEFINE seq == conn.sequenceNumber + 1
           ack == p.seq + 1
           total == seq + conn.data
           c == [conn EXCEPT !.TCPConnectionState = "ESTABLISHED", !.acknowledgementNumber = ack,
                             !.sequenceNumber = total, !.data = 0]
           reply == sendTCPPacket(p, "ACK", seq, ack, 0)
           ps == {reply} \cup sendTCPDataPacket(p, seq, ack, conn.data)
<1>1. conn \in Connection /\ conn # None
  <2>1. Looked(tcpConnections, p) # None
    BY SegmentFacts DEF Registered
  <2>2. QED BY <2>1, SegmentFacts
<1>2. /\ panicked' = FALSE
      /\ tcpConnections' = [tcpConnections EXCEPT ![p.to][k] = c]
      /\ wire' = Exchanged(p, ps)
      /\ receivedBytes' = receivedBytes
  <2>1. panicked' = (conn = None)
    BY DEF establishTCPConnection
  <2>2. tcpConnections \in [Hosts -> [Keys -> Connection \cup {None}]] /\ p.to \in Hosts /\ k \in Keys
    BY SegmentFacts DEF IInv, TypeOK
  <2>3. /\ tcpConnections' = [tcpConnections EXCEPT ![p.to][k] = c]
        /\ wire' = Exchanged(p, ps)
        /\ receivedBytes' = receivedBytes
    BY <1>1, <2>2 DEF establishTCPConnection
  <2>4. QED BY <1>1, <2>1, <2>3
<1>3. seq \in Nat /\ ack \in Nat /\ conn.data \in Nat
  <2>1. conn.sequenceNumber \in Nat /\ conn.data \in Nat
    BY <1>1 DEF Connection
  <2>2. p.seq \in Nat
    BY SegmentFacts
  <2>3. QED BY <2>1, <2>2, NaturalArithmetic
<1>4. seq = conn.sequenceNumber + 1 /\ total = conn.sequenceNumber + 1 + conn.data
  OBVIOUS
<1>5. total \in Nat
  <2> HIDE DEF seq
  <2>1. QED BY <1>3, NaturalArithmetic
<1>6. /\ c \in Connection /\ c.receivedSequenceNumbers = conn.receivedSequenceNumbers
      /\ c.TCPConnectionState = "ESTABLISHED" /\ c.sequenceNumber = total
  <2> HIDE DEF seq, ack, total
  <2>1. QED BY <1>1, <1>3, <1>5 DEF Connection
<1>7. \A q \in ps : /\ q \in Segment /\ Reply(q, p) /\ q.flags \in {"ACK", "PSH"}
                    /\ q.flags = "PSH" => seq <= q.seq /\ q.seq + q.len <= total
  <2>1. p \in Segment
    BY SegmentFacts
  <2>2. reply \in Segment /\ reply.flags = "ACK" /\ Reply(reply, p)
    <3> HIDE DEF seq, ack
    <3>1. QED BY <1>3, <2>1 DEF sendTCPPacket, Segment, Reply
  <2>3. ASSUME NEW q \in sendTCPDataPacket(p, seq, ack, conn.data)
        PROVE  /\ q \in Segment /\ Reply(q, p) /\ q.flags \in {"ACK", "PSH"}
               /\ seq <= q.seq /\ q.seq + q.len <= total
    <3> DEFINE d == conn.data
    <3>1. total = seq + d
      OBVIOUS
    <3> HIDE DEF seq, ack, d, total
    <3>2. PICK n \in 0..d : /\ n * SegmentSize < d
                            /\ q = sendTCPPacket(p, "PSH", seq + n * SegmentSize, ack,
                                                 Min({SegmentSize, d - n * SegmentSize}))
      BY <2>3 DEF sendTCPDataPacket, d
    <3>3. seq \in Nat /\ ack \in Nat /\ d \in Nat
      BY <1>3 DEF d
    <3>4. n \in Nat /\ SegmentSize \in Nat
      BY <3>3, SegmentAssumption, NaturalArithmetic
    <3> DEFINE m == n * SegmentSize
    <3>5. m \in Nat /\ m < d
      BY <3>2, <3>4, NaturalArithmetic
    <3> HIDE DEF m
    <3>6. seq + m \in Nat /\ d - m \in Nat
      BY <3>3, <3>5, NaturalArithmetic
    <3> DEFINE at == seq + m
               len == Min({SegmentSize, d - m})
    <3>7. at \in Nat /\ len \in Nat /\ len <= d - m
      BY <3>4, <3>6, MinOfTwo
    <3>8. q = sendTCPPacket(p, "PSH", at, ack, len)
      BY <3>2 DEF m
    <3>9. at = seq + m
      OBVIOUS
    <3> HIDE DEF at, len
    <3>10. /\ q \in Segment /\ Reply(q, p) /\ q.flags \in {"ACK", "PSH"}
           /\ q.seq = at /\ q.len = len
      BY <2>1, <3>3, <3>7, <3>8 DEF sendTCPPacket, Segment, Reply
    <3>11. seq <= at /\ at + len <= total
      <4>1. seq <= seq + m /\ seq + m + len <= seq + d
        BY <3>3, <3>5, <3>7, PartWithin
      <4>2. QED BY <3>1, <3>9, <4>1
    <3>12. QED BY <3>10, <3>11
  <2> HIDE DEF reply, seq, total
  <2>4. QED BY <2>2, <2>3
<1>8. Tiled(ps, seq, total)
  <2>1. reply.flags = "ACK"
    BY DEF sendTCPPacket
  <2> DEFINE data == sendTCPDataPacket(p, seq, ack, conn.data)
  <2>2. Tiled(data, seq, total)
    <3>1. Tiled(data, seq, seq + conn.data)
      <4> HIDE DEF seq, ack
      <4>1. QED BY <1>3, DataInParts
    <3>2. QED BY <3>1
  <2>3. ps = {reply} \cup data
    OBVIOUS
  <2> HIDE DEF reply, seq, total, ack, data, ps
  <2>4. QED BY <2>1, <2>2, <2>3 DEF Tiled
<1> HIDE DEF ps, c
<1>9. ps \in SUBSET Segment
  BY <1>7
<1>10. QED BY <1>1, <1>2, <1>4, <1>6, <1>7, <1>8, <1>9 DEF SynAckEffect

\* A SYN,ACK: its receiver's connection is there, and the data it sends finds
\* the connection of the SYN,ACK's sender.
LEMMA SynAckInv ==
  ASSUME IInv, NEW p \in DOMAIN wire, p.flags = "SYN,ACK", establishTCPConnection(p),
         UNCHANGED <<unstarted, waitingForArpReply, losses>>
  PROVE  IInv'
<1> DEFINE k == createTCPConnectionKeyFromPacket(p)
           conn == tcpConnections[p.to][k]
<1>1. /\ p.to \in Hosts /\ k \in Keys /\ k = createTCPConnectionKeyFromPacket(p)
      /\ conn = tcpConnections[p.to][k] /\ conn # None
  BY SegmentFacts DEF Registered
<1> HIDE DEF k, conn
<1>2. /\ conn \in Connection /\ panicked' = FALSE /\ receivedBytes' = receivedBytes
      /\ SynAckEffect(p, k, conn)
  BY <1>1, SynAckStep
<1>3. PICK c \in Connection, ps \in SUBSET Segment :
        /\ tcpConnections' = [tcpConnections EXCEPT ![p.to][k] = c]
        /\ wire' = Exchanged(p, ps)
        /\ c.receivedSequenceNumbers = conn.receivedSequenceNumbers
        /\ \A q \in ps : Reply(q, p) /\ q.flags \in {"ACK", "PSH"}
  BY <1>2 DEF SynAckEffect
<1>4. Bounded(c.receivedSequenceNumbers)
  BY <1>1, <1>3 DEF IInv, BoundedReceived
<1>5. /\ tcpConnections' \in [Hosts -> [Keys -> Connection \cup {None}]]
      /\ BoundedReceived' /\ Lasting
  BY <1>1, <1>3, <1>4, ConnectionSet DEF IInv
<1>6. \A q \in ps : Registered(tcpConnections', q)
  <2> SUFFICES ASSUME NEW q \in ps PROVE Registered(tcpConnections', q)
    OBVIOUS
  <2>1. Own(tcpConnections', p) # None
    <3>1. Registered(tcpConnections', p)
      BY <1>5, SegmentFacts, StillRegistered
    <3>2. QED BY <3>1 DEF Registered, Own
  <2>2. Reply(q, p) /\ q.flags # "SYN" /\ q.flags # "SYN,ACK"
    BY <1>3
  <2>3. Looked(tcpConnections', q) = Own(tcpConnections', p)
    BY <2>2 DEF Looked, Own, Reply
  <2>4. PICK g \in Flows : Backward(p, g)
    BY SegmentFacts DEF Registered
  <2>5. Forward(q, g)
    BY <2>2, <2>4 DEF Forward, Backward, Reply
  <2>6. QED BY <2>1, <2>2, <2>3, <2>5 DEF Registered, Looked, Forward
<1>7. receivedBytes' \in [Hosts -> Nat] /\ losses' \in Nat
  BY <1>2, SegmentFacts
<1>8. QED BY <1>2, <1>3, <1>5, <1>6, <1>7, HandledInv

\* Data: the connection is there, and its acknowledgement number goes up.
DataEffect(p, k, conn) ==
  \E c \in Connection, ack \in Nat :
    /\ tcpConnections' = [tcpConnections EXCEPT ![p.to][k] = c]
    /\ Bounded(c.receivedSequenceNumbers)
    /\ c.receivedSequenceNumbers = conn.receivedSequenceNumbers \cup (p.seq..(p.seq + p.len - 1))
    /\ c.acknowledgementNumber >= conn.acknowledgementNumber
    /\ c.acknowledgementNumber \notin c.receivedSequenceNumbers
    /\ conn.acknowledgementNumber..(c.acknowledgementNumber - 1) \subseteq c.receivedSequenceNumbers
    /\ wire' = Exchanged(p, {sendTCPPacket(p, "ACK", conn.sequenceNumber, ack, 0)})

LEMMA DataStep ==
  ASSUME IInv, NEW p \in DOMAIN wire, p.flags = "PSH", updateACKNumber(p),
         NEW k, k = createTCPConnectionKeyFromPacket(p),
         NEW conn, conn = tcpConnections[p.to][k]
  PROVE  /\ conn \in Connection /\ conn # None /\ panicked' = FALSE
         /\ receivedBytes' = [receivedBytes EXCEPT ![p.to] = @ + p.len]
         /\ DataEffect(p, k, conn)
<1> DEFINE received == conn.receivedSequenceNumbers \cup (p.seq..(p.seq + p.len - 1))
           ack == nextExpectedSeq(conn.acknowledgementNumber, received)
           c == [conn EXCEPT !.receivedSequenceNumbers = received, !.acknowledgementNumber = ack]
<1>1. conn \in Connection /\ conn # None
  BY SegmentFacts DEF Registered
<1>2. panicked' = FALSE
  <2>1. panicked' = (conn = None)
    BY DEF updateACKNumber
  <2>2. QED BY <1>1, <2>1
<1>3. /\ tcpConnections' = [tcpConnections EXCEPT ![p.to][k] = c]
      /\ receivedBytes' = [receivedBytes EXCEPT ![p.to] = @ + p.len]
      /\ wire' = Exchanged(p, {sendTCPPacket(p, "ACK", conn.sequenceNumber, ack, 0)})
  <2>1. tcpConnections \in [Hosts -> [Keys -> Connection \cup {None}]] /\ p.to \in Hosts /\ k \in Keys
    BY SegmentFacts DEF IInv, TypeOK
  <2>2. QED BY <1>1, <2>1 DEF updateACKNumber
<1>4. received \in SUBSET Nat /\ Bounded(received)
  <2>1. p.seq \in Nat /\ p.len \in Nat /\ p.to \in Hosts /\ k \in Keys
    BY SegmentFacts
  <2> DEFINE numbers == p.seq..(p.seq + p.len - 1)
  <2>2. numbers \in SUBSET Nat /\ Bounded(numbers)
    <3>1. numbers \in SUBSET Nat /\ p.seq + p.len \in Nat /\ \A m \in numbers : m < p.seq + p.len
      BY <2>1
    <3>2. QED BY <3>1 DEF Bounded
  <2>3. Bounded(conn.receivedSequenceNumbers) /\ conn.receivedSequenceNumbers \in SUBSET Nat
    BY <1>1, <2>1 DEF IInv, BoundedReceived, Connection
  <2> HIDE DEF numbers
  <2>4. /\ conn.receivedSequenceNumbers \cup numbers \in SUBSET Nat
        /\ Bounded(conn.receivedSequenceNumbers \cup numbers)
    BY <2>2, <2>3, BoundedUnion
  <2>5. QED BY <2>4 DEF numbers
<1>5. conn.acknowledgementNumber \in Nat
  BY <1>1 DEF Connection
<1>6. received = conn.receivedSequenceNumbers \cup (p.seq..(p.seq + p.len - 1))
  OBVIOUS
<1> HIDE DEF received
<1>7. /\ ack \in Nat /\ ack >= conn.acknowledgementNumber /\ ack \notin received
      /\ conn.acknowledgementNumber..(ack - 1) \subseteq received
  BY <1>4, <1>5, NextExpected
<1> HIDE DEF ack
<1>8. c \in Connection /\ c.receivedSequenceNumbers = received /\ c.acknowledgementNumber = ack
  BY <1>1, <1>4, <1>7 DEF Connection
<1> HIDE DEF c
<1>9. QED BY <1>1, <1>2, <1>3, <1>4, <1>6, <1>7, <1>8 DEF DataEffect

LEMMA DataInv ==
  ASSUME IInv, NEW p \in DOMAIN wire, p.flags = "PSH", updateACKNumber(p),
         UNCHANGED <<unstarted, waitingForArpReply, losses>>
  PROVE  IInv'
<1> DEFINE k == createTCPConnectionKeyFromPacket(p)
           conn == tcpConnections[p.to][k]
<1>1. p.to \in Hosts /\ k \in Keys /\ p \in Segment /\ p.len \in Nat /\ receivedBytes \in [Hosts -> Nat]
  BY SegmentFacts
<1>2. k = createTCPConnectionKeyFromPacket(p) /\ conn = tcpConnections[p.to][k]
  OBVIOUS
<1> HIDE DEF k, conn
<1>3. /\ conn \in Connection /\ panicked' = FALSE
      /\ receivedBytes' = [receivedBytes EXCEPT ![p.to] = @ + p.len]
      /\ DataEffect(p, k, conn)
  BY <1>2, DataStep
<1>4. PICK c \in Connection, ack \in Nat :
        /\ tcpConnections' = [tcpConnections EXCEPT ![p.to][k] = c]
        /\ Bounded(c.receivedSequenceNumbers)
        /\ wire' = Exchanged(p, {sendTCPPacket(p, "ACK", conn.sequenceNumber, ack, 0)})
  BY <1>3 DEF DataEffect
<1> DEFINE q == sendTCPPacket(p, "ACK", conn.sequenceNumber, ack, 0)
<1>5. q \in Segment /\ q.flags = "ACK"
  <2>1. conn.sequenceNumber \in Nat
    BY <1>3 DEF Connection
  <2>2. QED BY <1>1, <2>1 DEF sendTCPPacket, Segment
<1>6. Registered(tcpConnections', q)
  BY <1>5 DEF Registered
<1>7. /\ tcpConnections' \in [Hosts -> [Keys -> Connection \cup {None}]]
      /\ BoundedReceived' /\ Lasting
  BY <1>1, <1>4, ConnectionSet DEF IInv
<1>8. receivedBytes' \in [Hosts -> Nat] /\ losses' \in Nat
  <2>1. losses' = losses /\ losses \in Nat
    BY DEF IInv, TypeOK
  <2>2. QED BY <1>1, <1>3, <2>1
<1> DEFINE ps == {q}
<1>9. wire' = Exchanged(p, ps)
  BY <1>4
<1> HIDE DEF q
<1>10. ps \in SUBSET Segment /\ \A r \in ps : Registered(tcpConnections', r)
  BY <1>5, <1>6
<1> HIDE DEF ps
<1>11. UNCHANGED <<unstarted, waitingForArpReply>>
  OBVIOUS
<1>12. QED BY <1>3, <1>7, <1>8, <1>9, <1>10, <1>11, HandledInv

\* An ACK, or a segment that is lost, changes nothing but the wire.
LEMMA DroppedInv ==
  ASSUME IInv, NEW p \in DOMAIN wire, handleAcknowledgement(p) \/ lost(p),
         UNCHANGED <<unstarted, waitingForArpReply>>, losses' = losses \/ lost(p)
  PROVE  IInv'
<1>1. /\ wire' = Exchanged(p, {}) /\ tcpConnections' = tcpConnections
      /\ receivedBytes' = receivedBytes /\ panicked' = panicked
  BY DEF handleAcknowledgement, lost
<1>2. receivedBytes' \in [Hosts -> Nat] /\ losses' \in Nat /\ panicked' = FALSE
  <2>1. losses \in Nat /\ receivedBytes \in [Hosts -> Nat] /\ panicked = FALSE
    BY DEF IInv, TypeOK
  <2>2. losses' = losses \/ losses' = losses + 1
    BY DEF lost
  <2>3. QED BY <1>1, <2>1, <2>2
<1>3. /\ tcpConnections' \in [Hosts -> [Keys -> Connection \cup {None}]]
      /\ BoundedReceived' /\ Lasting
  BY <1>1, ConnectionsKept
<1> DEFINE ps == {}
<1>4. ps \in SUBSET Segment /\ (\A q \in ps : Registered(tcpConnections', q)) /\ wire' = Exchanged(p, ps)
  BY <1>1
<1> HIDE DEF ps
<1>5. QED BY <1>1, <1>2, <1>3, <1>4, HandledInv

LEMMA NextInv == IInv /\ [Next]_vars => IInv'
<1> SUFFICES ASSUME IInv, [Next]_vars PROVE IInv'
  OBVIOUS
<1>1. CASE UNCHANGED vars
  BY <1>1 DEF vars, IInv, TypeOK, BoundedReceived, Registered, Own, Looked, Forward, Backward
<1>2. ASSUME NEW f \in Flows, startTCPConnectionAndSendPacket(f) PROVE IInv'
  BY <1>2, StartInv
<1>3. ASSUME NEW p \in DOMAIN wire, processTCPPacket(p) PROVE IInv'
  BY <1>3, SynInv, SynAckInv, DroppedInv, DataInv DEF processTCPPacket
<1>4. ASSUME NEW p \in DOMAIN wire, lost(p) PROVE IInv'
  BY <1>4, DroppedInv DEF lost
<1>5. QED BY <1>1, <1>2, <1>3, <1>4 DEF Next

-----------------------------------------------------------------------------
LEMMA Invariance == Spec => []IInv
<1>1. IInv /\ [Next]_vars => IInv'
  BY NextInv
<1>2. QED BY InitInv, <1>1, PTL DEF Spec

\* Connections and segments stay well formed.
THEOREM TcpTypes == Spec => []TypeOK
<1>1. IInv => TypeOK
  BY DEF IInv
<1>2. QED BY <1>1, Invariance, PTL

\* No handler ever looks for a connection that is not there, in whatever order
\* segments arrive, with colliding ports and losses too.
THEOREM ConnectionsAreThere == Spec => []ConnectionIsThere
<1>1. IInv => ConnectionIsThere
  BY DEF IInv, ConnectionIsThere
<1>2. QED BY <1>1, Invariance, PTL

-----------------------------------------------------------------------------
\* The receiver of a flow that shares no connection never answers a SYN,ACK for it.
LEMMA NotEstablished ==
  ASSUME IInv, NEW f \in Flows, Alone(f), NEW p \in DOMAIN wire, p.flags = "SYN,ACK"
  PROVE  ~(p.to = To[f] /\ createTCPConnectionKeyFromPacket(p) = <<From[f], SrcPort[f]>>)
<1> SUFFICES ASSUME p.to = To[f], createTCPConnectionKeyFromPacket(p) = <<From[f], SrcPort[f]>>
             PROVE  FALSE
  OBVIOUS
<1>1. PICK g \in Flows : Backward(p, g)
  BY SegmentFacts DEF Registered
<1>2. p.from = From[f] /\ p.sp = SrcPort[f]
  BY DEF createTCPConnectionKeyFromPacket
<1>3. From[g] = To[f] /\ To[g] = From[f] /\ DstPort[g] = SrcPort[f]
  BY <1>1, <1>2 DEF Backward
<1>4. g # f
  BY <1>3, FlowsAssumption
<1>5. QED BY <1>3, <1>4 DEF Alone

\* What a host acknowledges of a flow never shrinks.
THEOREM AcksGrow == Spec => AcksNeverRetreat
<1>1. ASSUME IInv, Next, NEW f \in Flows, Alone(f), Receiver(f) # None
      PROVE  Receiver(f)'.acknowledgementNumber >= Receiver(f).acknowledgementNumber
  <2> DEFINE h == To[f]
             k == <<From[f], SrcPort[f]>>
  <2>1. h \in Hosts /\ k \in Keys
    BY FlowsAssumption DEF Keys
  <2>2. tcpConnections \in [Hosts -> [Keys -> Connection \cup {None}]]
    BY <1>1 DEF IInv, TypeOK
  <2>3. Receiver(f) = tcpConnections[h][k] /\ Receiver(f)' = tcpConnections'[h][k]
    BY DEF Receiver
  <2>4. tcpConnections[h][k] \in Connection /\ tcpConnections[h][k].acknowledgementNumber \in Nat
    BY <1>1, <2>1, <2>2, <2>3 DEF Connection
  <2> HIDE DEF h, k
  <2>5. CASE tcpConnections'[h][k] = tcpConnections[h][k]
    BY <2>3, <2>4, <2>5
  <2>6. ASSUME NEW g \in Flows, startTCPConnectionAndSendPacket(g)
        PROVE  tcpConnections'[h][k] = tcpConnections[h][k]
    <3>1. From[g] \in Hosts /\ <<To[g], DstPort[g]>> \in Keys
      BY FlowsAssumption DEF Keys
    <3>2. \/ tcpConnections' = tcpConnections
          \/ /\ tcpConnections[From[g]][<<To[g], DstPort[g]>>] = None
             /\ \E i \in Isns : tcpConnections' = [tcpConnections EXCEPT
                  ![From[g]][<<To[g], DstPort[g]>>] = initiateConnectionInfo(Len[g], "CLOSED", i, 0)]
      BY <2>6 DEF startTCPConnectionAndSendPacket
    <3>3. tcpConnections[h][k] # None
      BY <1>1, <2>3
    <3>4. QED BY <2>1, <2>2, <3>1, <3>2, <3>3
  <2>7. ASSUME NEW p \in DOMAIN wire, p.flags = "SYN", sendTCPSYNACK(p)
        PROVE  tcpConnections'[h][k] = tcpConnections[h][k]
    <3>1. p.to \in Hosts /\ createTCPConnectionKeyFromPacket(p) \in Keys
      BY <1>1, <2>7, SegmentFacts
    <3>2. \/ tcpConnections' = tcpConnections
          \/ /\ tcpConnections[p.to][createTCPConnectionKeyFromPacket(p)] = None
             /\ \E i \in Isns : tcpConnections' = [tcpConnections EXCEPT
                  ![p.to][createTCPConnectionKeyFromPacket(p)] =
                     initiateConnectionInfo(0, "SYN_RECEIVED", i, p.seq + 1)]
      BY <2>7 DEF sendTCPSYNACK
    <3>3. tcpConnections[h][k] # None
      BY <1>1, <2>3
    <3>4. QED BY <2>1, <2>2, <3>1, <3>2, <3>3
  <2>8. ASSUME NEW p \in DOMAIN wire, p.flags = "SYN,ACK", establishTCPConnection(p)
        PROVE  tcpConnections'[h][k] = tcpConnections[h][k]
    <3> DEFINE j == createTCPConnectionKeyFromPacket(p)
    <3>1. p.to \in Hosts /\ j \in Keys
      BY <1>1, <2>8, SegmentFacts
    <3>2. ~(p.to = h /\ j = k)
      BY <1>1, <2>8, NotEstablished DEF h, k
    <3>3. \/ tcpConnections' = tcpConnections
          \/ \E c : tcpConnections' = [tcpConnections EXCEPT ![p.to][j] = c]
      BY <2>2, <2>8, <3>1 DEF establishTCPConnection
    <3> HIDE DEF j
    <3>4. QED BY <2>1, <2>2, <3>1, <3>2, <3>3
  <2>9. ASSUME NEW p \in DOMAIN wire, p.flags = "PSH", updateACKNumber(p)
        PROVE  tcpConnections'[h][k].acknowledgementNumber >= tcpConnections[h][k].acknowledgementNumber
    <3> DEFINE j == createTCPConnectionKeyFromPacket(p)
    <3>1. p.to \in Hosts /\ j \in Keys
      BY <1>1, <2>9, SegmentFacts
    <3> DEFINE conn == tcpConnections[p.to][j]
    <3>2. j = createTCPConnectionKeyFromPacket(p) /\ conn = tcpConnections[p.to][j]
      OBVIOUS
    <3> HIDE DEF j, conn
    <3>3. DataEffect(p, j, conn)
      BY <1>1, <2>9, <3>2, DataStep
    <3>4. PICK c : /\ tcpConnections' = [tcpConnections EXCEPT ![p.to][j] = c]
                   /\ c.acknowledgementNumber >= tcpConnections[p.to][j].acknowledgementNumber
      BY <3>2, <3>3 DEF DataEffect
    <3>5. CASE p.to = h /\ j = k
      <4>1. tcpConnections'[h][k] = c
        BY <2>1, <2>2, <3>4, <3>5
      <4>2. QED BY <3>4, <3>5, <4>1
    <3>6. CASE ~(p.to = h /\ j = k)
      <4>1. tcpConnections'[h][k] = tcpConnections[h][k]
        BY <2>1, <2>2, <3>1, <3>4, <3>6
      <4>2. QED BY <2>4, <4>1
    <3>7. QED BY <3>5, <3>6
  <2>10. ASSUME NEW p \in DOMAIN wire, handleAcknowledgement(p) \/ lost(p)
         PROVE  tcpConnections'[h][k] = tcpConnections[h][k]
    BY <2>10 DEF handleAcknowledgement, lost
  <2>11. QED BY <1>1, <2>3, <2>5, <2>6, <2>7, <2>8, <2>9, <2>10 DEF Next, processTCPPacket
<1>2. IInv /\ [Next]_vars => [\A f \in Flows : Alone(f) /\ Receiver(f) # None =>
        Receiver(f)'.acknowledgementNumber >= Receiver(f).acknowledgementNumber]_vars
  BY <1>1
<1>3. QED BY <1>2, Invariance, PTL DEF Spec, AcksNeverRetreat
-----------------------------------------------------------------------------
(***************************************************************************)
(* A flow that shares no connection with another: one handshake segment of *)
(* it is in flight at most, and the numbers of the data in flight and      *)
(* received are the ones its sender gave to what it sent.                  *)
(***************************************************************************)
\* A segment that opens the connection of flow f, and one that carries its data.
Handshake(p, f) ==
  \/ p.flags = "SYN" /\ Forward(p, f)
  \/ p.flags = "SYN,ACK" /\ Backward(p, f)
Payload(p, f) == p.flags = "PSH" /\ Forward(p, f)

Handshakes(f) == {p \in DOMAIN wire : Handshake(p, f)}
Payloads(f) == {p \in DOMAIN wire : Payload(p, f)}

\* The number of the first byte of an established flow.
Start(f) == Sender(f).sequenceNumber - Len[f]

\* Before the traffic event.
Idle(f) ==
  /\ f \in unstarted /\ Sender(f) = None /\ Receiver(f) = None
  /\ Handshakes(f) = {} /\ Payloads(f) = {}

\* Before the SYN,ACK is handled: of SYN and SYN,ACK there is one at most, and the
\* receiver expects the byte after the number that the SYN had.
Opening(f) ==
  /\ f \notin unstarted
  /\ Sender(f).TCPConnectionState = "CLOSED" /\ Sender(f).data = Len[f]
  /\ Payloads(f) = {}
  /\ f \in waitingForArpReply => Handshakes(f) = {} /\ Receiver(f) = None
  /\ \A p, q \in Handshakes(f) : p = q
  /\ \A p \in Handshakes(f) :
       /\ p.flags = "SYN" => Receiver(f) = None /\ p.seq = Sender(f).sequenceNumber
       /\ p.flags = "SYN,ACK" => Receiver(f) # None
  /\ Receiver(f) # None => /\ Receiver(f).receivedSequenceNumbers = {}
                           /\ Receiver(f).acknowledgementNumber = Sender(f).sequenceNumber + 1

\* Afterwards: data in flight, and data received, is data the sender sent.
Open(f) ==
  /\ f \notin unstarted \cup waitingForArpReply
  /\ Sender(f).TCPConnectionState = "ESTABLISHED"
  /\ Handshakes(f) = {}
  /\ Start(f) \in Nat
  /\ \A p \in Payloads(f) : Start(f) <= p.seq /\ p.seq + p.len <= Sender(f).sequenceNumber
  /\ Receiver(f) # None
  /\ Receiver(f).receivedSequenceNumbers \subseteq Start(f) .. (Sender(f).sequenceNumber - 1)
  /\ Start(f) <= Receiver(f).acknowledgementNumber
  /\ Receiver(f).acknowledgementNumber <= Sender(f).sequenceNumber
  /\ Start(f) .. (Receiver(f).acknowledgementNumber - 1) \subseteq Receiver(f).receivedSequenceNumbers
  /\ Receiver(f).acknowledgementNumber \notin Receiver(f).receivedSequenceNumbers

FlowInv(f) == /\ \A p \in Handshakes(f) : wire[p] = 1
              /\ Idle(f) \/ Opening(f) \/ Open(f)

\* What a delivery of p and the sending of ps do to the number of copies in flight.
LEMMA ExchangeCounts ==
  ASSUME NEW p \in DOMAIN wire, NEW ps, IsABag(wire), wire' = Exchanged(p, ps)
  PROVE  /\ DOMAIN wire' \subseteq DOMAIN wire \cup ps
         /\ \A x \in DOMAIN wire' \ ps : x # p => wire'[x] = wire[x]
         /\ \A x \in ps \ DOMAIN wire : wire'[x] = 1
         /\ wire[p] = 1 /\ p \notin ps => p \notin DOMAIN wire'
         /\ DOMAIN wire \ {p} \subseteq DOMAIN wire' /\ ps \subseteq DOMAIN wire'
<1> DEFINE rest == BagRemove(wire, p)
           new == SetToBag(ps)
<1>1. /\ IsABag(rest) /\ DOMAIN rest \subseteq DOMAIN wire /\ DOMAIN wire \ {p} \subseteq DOMAIN rest
      /\ \A x \in DOMAIN wire \ {p} : rest[x] = wire[x]
      /\ wire[p] = 1 => p \notin DOMAIN rest
  BY BagTake DEF BagRemove, Ext!BagRemove
<1>2. IsABag(new) /\ DOMAIN new = ps /\ \A x \in ps : new[x] = 1
  BY SetIsBag
<1>3. wire' = rest (+) new
  BY DEF Exchanged
<1> HIDE DEF rest, new
<1>4. /\ DOMAIN (rest (+) new) = DOMAIN rest \cup DOMAIN new
      /\ \A x \in DOMAIN rest \ DOMAIN new : (rest (+) new)[x] = rest[x]
      /\ \A x \in DOMAIN new \ DOMAIN rest : (rest (+) new)[x] = new[x]
  BY <1>1, <1>2, BagSum
<1>5. QED BY <1>1, <1>2, <1>3, <1>4

LEMMA SendCounts ==
  ASSUME NEW q, IsABag(wire), wire' = Sent({q})
  PROVE  /\ DOMAIN wire' = DOMAIN wire \cup {q}
         /\ \A x \in DOMAIN wire' \ {q} : wire'[x] = wire[x]
         /\ q \notin DOMAIN wire => wire'[q] = 1
<1> DEFINE new == SetToBag({q})
<1>1. IsABag(new) /\ DOMAIN new = {q} /\ \A x \in {q} : new[x] = 1
  BY SetIsBag
<1>2. wire' = wire (+) new
  BY DEF Sent
<1> HIDE DEF new
<1>3. /\ DOMAIN (wire (+) new) = DOMAIN wire \cup DOMAIN new
      /\ \A x \in DOMAIN wire \ DOMAIN new : (wire (+) new)[x] = wire[x]
      /\ \A x \in DOMAIN new \ DOMAIN wire : (wire (+) new)[x] = new[x]
  BY <1>1, BagSum
<1>4. QED BY <1>1, <1>2, <1>3

\* Only segments of the flow find its connections.
LEMMA OfThisFlow ==
  ASSUME NEW f \in Flows, Alone(f), NEW g \in Flows, NEW p, Forward(p, g) \/ Backward(p, g)
  PROVE  /\ p.to = To[f] /\ p.from = From[f] /\ p.sp = SrcPort[f] => Forward(p, f)
         /\ p.to = From[f] /\ p.from = To[f] /\ p.sp = DstPort[f] => Backward(p, f)
  BY FlowsAssumption DEF Alone, Forward, Backward

\* Where the two connections of a flow are.
LEMMA FlowKeys ==
  ASSUME NEW f \in Flows
  PROVE  /\ From[f] \in Hosts /\ To[f] \in Hosts /\ From[f] # To[f]
         /\ <<To[f], DstPort[f]>> \in Keys /\ <<From[f], SrcPort[f]>> \in Keys
         /\ Len[f] \in Nat /\ Len[f] > 0
  BY FlowsAssumption DEF Keys

\* A connection is set, and what that means to a flow.
LEMMA FlowConnectionSet ==
  ASSUME TypeOK, NEW f \in Flows, NEW h \in Hosts, NEW k \in Keys, NEW c,
         tcpConnections' = [tcpConnections EXCEPT ![h][k] = c]
  PROVE  /\ h = From[f] /\ k = <<To[f], DstPort[f]>> => Sender(f)' = c /\ Receiver(f)' = Receiver(f)
         /\ h = To[f] /\ k = <<From[f], SrcPort[f]>> => Receiver(f)' = c /\ Sender(f)' = Sender(f)
         /\ ~(h = From[f] /\ k = <<To[f], DstPort[f]>>) => Sender(f)' = Sender(f)
         /\ ~(h = To[f] /\ k = <<From[f], SrcPort[f]>>) => Receiver(f)' = Receiver(f)
<1>1. tcpConnections \in [Hosts -> [Keys -> Connection \cup {None}]]
  BY DEF TypeOK
<1>2. /\ tcpConnections'[h][k] = c
      /\ \A g \in Hosts, j \in Keys : g # h \/ j # k => tcpConnections'[g][j] = tcpConnections[g][j]
  BY <1>1
<1>3. QED BY <1>2, FlowKeys DEF Sender, Receiver

LEMMA FlowConnections ==
  ASSUME TypeOK, NEW f \in Flows
  PROVE  Sender(f) \in Connection \cup {None} /\ Receiver(f) \in Connection \cup {None}
  BY FlowKeys DEF TypeOK, Sender, Receiver

\* A step that leaves the flow alone, except that segments of it may get lost.
Undisturbed(f) ==
  /\ Sender(f)' = Sender(f) /\ Receiver(f)' = Receiver(f)
  /\ f \in unstarted' <=> f \in unstarted
  /\ f \in waitingForArpReply' <=> f \in waitingForArpReply
  /\ Handshakes(f)' \subseteq Handshakes(f) /\ Payloads(f)' \subseteq Payloads(f)
  /\ \A p \in Handshakes(f)' : wire'[p] = wire[p]

LEMMA UndisturbedFlow == ASSUME NEW f \in Flows, FlowInv(f), Undisturbed(f) PROVE FlowInv(f)'
<1>1. \A p \in Handshakes(f)' : wire'[p] = 1
  BY DEF Undisturbed, FlowInv
<1>2. CASE Idle(f)
  <2>1. Idle(f)'
    BY <1>2 DEF Idle, Undisturbed
  <2>2. QED BY <1>1, <2>1 DEF FlowInv
<1>3. CASE Opening(f)
  <2>1. Opening(f)'
    BY <1>3 DEF Opening, Undisturbed
  <2>2. QED BY <1>1, <2>1 DEF FlowInv
<1>4. CASE Open(f)
  <2>1. Start(f)' = Start(f)
    BY DEF Start, Undisturbed
  <2>2. Open(f)'
    BY <1>4, <2>1 DEF Open, Undisturbed
  <2>3. QED BY <1>1, <2>2 DEF FlowInv
<1>5. QED BY <1>2, <1>3, <1>4 DEF FlowInv

\* A segment is handled, or lost, and what is sent is not of flow f.
LEMMA UndisturbedByHandling ==
  ASSUME IInv, NEW f \in Flows, FlowInv(f), NEW p \in DOMAIN wire, NEW ps, wire' = Exchanged(p, ps),
         \A q \in ps : ~Handshake(q, f) /\ ~Payload(q, f),
         Sender(f)' = Sender(f), Receiver(f)' = Receiver(f),
         UNCHANGED <<unstarted, waitingForArpReply>>
  PROVE  FlowInv(f)'
<1>1. /\ DOMAIN wire' \subseteq DOMAIN wire \cup ps
      /\ \A x \in DOMAIN wire' \ ps : x # p => wire'[x] = wire[x]
      /\ wire[p] = 1 /\ p \notin ps => p \notin DOMAIN wire'
  BY ExchangeCounts DEF IInv, TypeOK
<1>2. Handshakes(f)' \subseteq Handshakes(f) /\ Payloads(f)' \subseteq Payloads(f)
  BY <1>1 DEF Handshakes, Payloads
<1>3. p \notin Handshakes(f)'
  BY <1>1 DEF Handshakes, FlowInv
<1>4. \A x \in Handshakes(f)' : wire'[x] = wire[x]
  BY <1>1, <1>3 DEF Handshakes
<1>5. Undisturbed(f)
  BY <1>2, <1>4 DEF Undisturbed
<1>6. QED BY <1>5, UndisturbedFlow

-----------------------------------------------------------------------------
\* The traffic event, or the end of the wait for ARP: the one SYN is sent.
LEMMA FlowStart ==
  ASSUME IInv, NEW f \in Flows, Alone(f), FlowInv(f),
         NEW g \in Flows, startTCPConnectionAndSendPacket(g)
  PROVE  FlowInv(f)'
<1> DEFINE h == From[g]
           k == <<To[g], DstPort[g]>>
           conn == tcpConnections'[h][k]
           q == initiateTCPHandshake(g, conn)
<1>1. h \in Hosts /\ k \in Keys /\ TypeOK
  BY FlowKeys DEF IInv
<1>2. \/ tcpConnections[h][k] # None /\ tcpConnections' = tcpConnections
      \/ /\ tcpConnections[h][k] = None
         /\ \E i \in Isns : tcpConnections' = [tcpConnections EXCEPT
              ![h][k] = initiateConnectionInfo(Len[g], "CLOSED", i, 0)]
  BY DEF startTCPConnectionAndSendPacket
<1>3. /\ g \in unstarted \cup waitingForArpReply
      /\ unstarted' = unstarted \ {g}
      /\ \/ /\ g \in unstarted /\ waitingForArpReply' = waitingForArpReply \cup {g} /\ wire' = wire
         \/ /\ waitingForArpReply' = waitingForArpReply \ {g}
            /\ wire' = IF conn.TCPConnectionState = "ESTABLISHED" THEN wire ELSE Sent({q})
  BY DEF startTCPConnectionAndSendPacket
<1>4. /\ q.flags = "SYN" /\ Forward(q, g) /\ q.seq = conn.sequenceNumber
  BY DEF initiateTCPHandshake, Forward
<1> HIDE DEF q
<1>5. /\ DOMAIN wire \subseteq DOMAIN wire' /\ DOMAIN wire' \subseteq DOMAIN wire \cup {q}
      /\ \A x \in DOMAIN wire' \ {q} : wire'[x] = wire[x]
      /\ q \notin DOMAIN wire /\ q \in DOMAIN wire' => wire'[q] = 1
  BY <1>1, <1>3, SendCounts DEF TypeOK
<1>6. CASE g # f
  <2>1. ~(h = From[f] /\ k = <<To[f], DstPort[f]>>) /\ ~(h = To[f] /\ k = <<From[f], SrcPort[f]>>)
    BY <1>6 DEF Alone
  <2> HIDE DEF h, k
  <2>2. Sender(f)' = Sender(f) /\ Receiver(f)' = Receiver(f)
    BY <1>1, <1>2, <2>1, FlowConnectionSet DEF Sender, Receiver
  <2>3. ~Handshake(q, f) /\ ~Payload(q, f)
    BY <1>4, <1>6 DEF Handshake, Payload, Forward, Alone
  <2>4. /\ Handshakes(f)' \subseteq Handshakes(f) /\ Payloads(f)' \subseteq Payloads(f)
        /\ \A x \in Handshakes(f)' : wire'[x] = wire[x]
    BY <1>5, <2>3 DEF Handshakes, Payloads
  <2>5. Undisturbed(f)
    BY <1>3, <1>6, <2>2, <2>4 DEF Undisturbed
  <2>6. QED BY <2>5, UndisturbedFlow
<1>7. CASE g = f
  <2>1. conn = Sender(f)' /\ tcpConnections[h][k] = Sender(f)
    BY <1>7 DEF Sender
  <2>2. Handshakes(f) = {} /\ Payloads(f) = {} /\ Receiver(f) = None
    BY <1>3, <1>7 DEF FlowInv, Idle, Opening, Open
  <2>3. Sender(f)'.TCPConnectionState = "CLOSED" /\ Sender(f)'.data = Len[f] /\ Receiver(f)' = None
    <3>1. CASE Sender(f) # None /\ tcpConnections' = tcpConnections
      <4>1. Sender(f)' = Sender(f) /\ Receiver(f)' = Receiver(f)
        BY <3>1 DEF Sender, Receiver
      <4>2. Opening(f)
        BY <1>3, <1>7, <3>1 DEF FlowInv, Idle, Open
      <4>3. QED BY <2>2, <4>1, <4>2 DEF Opening
    <3>2. ASSUME NEW i \in Isns, tcpConnections' = [tcpConnections EXCEPT
              ![h][k] = initiateConnectionInfo(Len[g], "CLOSED", i, 0)]
          PROVE  <2>3
      <4> DEFINE c == initiateConnectionInfo(Len[g], "CLOSED", i, 0)
      <4>1. c.TCPConnectionState = "CLOSED" /\ c.data = Len[g]
        BY DEF initiateConnectionInfo
      <4>2. tcpConnections' = [tcpConnections EXCEPT ![h][k] = c]
        BY <3>2
      <4>3. h = From[f] /\ k = <<To[f], DstPort[f]>>
        BY <1>7
      <4> HIDE DEF c, h, k
      <4>4. Sender(f)' = c /\ Receiver(f)' = Receiver(f)
        BY <1>1, <4>2, <4>3, FlowConnectionSet
      <4>5. QED BY <1>7, <2>2, <4>1, <4>4
    <3>3. QED BY <1>2, <2>1, <3>1, <3>2
  <2> HIDE DEF conn
  <2>4. \A x \in Handshakes(f)' : x = q /\ wire'[x] = 1
    BY <1>5, <2>2 DEF Handshakes
  <2>5. Payloads(f)' = {}
    BY <1>4, <1>5, <2>2 DEF Payloads, Payload
  <2>6. f \notin unstarted'
    BY <1>3, <1>7
  <2>7. f \in waitingForArpReply' => Handshakes(f)' = {}
    <3>1. f \in waitingForArpReply' => wire' = wire
      BY <1>3, <1>7
    <3>2. QED BY <2>2, <3>1 DEF Handshakes
  <2>8. Opening(f)'
    BY <1>4, <2>1, <2>3, <2>4, <2>5, <2>6, <2>7 DEF Opening
  <2>9. QED BY <2>4, <2>8 DEF FlowInv
<1>8. QED BY <1>6, <1>7

\* A SYN: the receiver's connection is made, and the SYN,ACK takes the SYN's place.
LEMMA FlowSyn ==
  ASSUME IInv, NEW f \in Flows, Alone(f), FlowInv(f),
         NEW p \in DOMAIN wire, p.flags = "SYN", sendTCPSYNACK(p),
         UNCHANGED <<unstarted, waitingForArpReply, losses>>
  PROVE  FlowInv(f)'
<1> DEFINE h == p.to
           k == createTCPConnectionKeyFromPacket(p)
<1>1. PICK i \in Isns :
        /\ tcpConnections' = IF tcpConnections[h][k] # None THEN tcpConnections
             ELSE [tcpConnections EXCEPT
                     ![h][k] = initiateConnectionInfo(0, "SYN_RECEIVED", i, p.seq + 1)]
        /\ wire' = Exchanged(p, {sendTCPPacket(p, "SYN,ACK", i, p.seq + 1, 0)})
  BY DEF sendTCPSYNACK
<1> DEFINE q == sendTCPPacket(p, "SYN,ACK", i, p.seq + 1, 0)
           c == initiateConnectionInfo(0, "SYN_RECEIVED", i, p.seq + 1)
           ps == {q}
<1>2. /\ q.flags = "SYN,ACK" /\ Reply(q, p) /\ wire' = Exchanged(p, ps)
      /\ c.receivedSequenceNumbers = {} /\ c.acknowledgementNumber = p.seq + 1
  BY <1>1 DEF sendTCPPacket, Reply, initiateConnectionInfo
<1>3. \/ tcpConnections[h][k] # None /\ tcpConnections' = tcpConnections
      \/ tcpConnections[h][k] = None /\ tcpConnections' = [tcpConnections EXCEPT ![h][k] = c]
  BY <1>1
<1>4. /\ h \in Hosts /\ k \in Keys /\ k = <<p.from, p.sp>> /\ TypeOK
      /\ c \in Connection
  <2>1. i \in Nat /\ p.seq + 1 \in Nat
    BY SegmentFacts, IsnsAssumption, NaturalArithmetic
  <2>2. c \in Connection
    BY <2>1, Initiated
  <2> HIDE DEF c
  <2>3. QED BY <2>2, SegmentFacts DEF IInv
<1>5. PICK g \in Flows : Forward(p, g)
  BY SegmentFacts DEF Registered
<1>6. q.flags = "SYN,ACK" /\ (Backward(q, f) <=> Forward(p, f))
  BY <1>2 DEF Backward, Forward, Reply
<1>7. ~(h = From[f] /\ k = <<To[f], DstPort[f]>>)
  <2>1. ~Backward(p, f)
    BY <1>5, FlowsAssumption DEF Alone, Forward, Backward
  <2>2. QED BY <1>4, <1>5, <2>1, OfThisFlow
<1> HIDE DEF q, c
<1>8. CASE ~Forward(p, f)
  <2>1. ~(h = To[f] /\ k = <<From[f], SrcPort[f]>>)
    BY <1>4, <1>5, <1>8, OfThisFlow
  <2> HIDE DEF h, k
  <2>2. Sender(f)' = Sender(f) /\ Receiver(f)' = Receiver(f)
    BY <1>3, <1>4, <1>7, <2>1, FlowConnectionSet DEF Sender, Receiver
  <2>3. \A x \in ps : ~Handshake(x, f) /\ ~Payload(x, f)
    BY <1>6, <1>8 DEF Handshake, Payload
  <2> HIDE DEF ps
  <2>4. QED BY <1>2, <2>2, <2>3, UndisturbedByHandling
<1>9. CASE Forward(p, f)
  <2>1. p \in Handshakes(f)
    BY <1>9 DEF Handshakes, Handshake
  <2>2. Opening(f) /\ wire[p] = 1
    BY <2>1 DEF FlowInv, Idle, Open
  <2>3. Receiver(f) = None /\ p.seq = Sender(f).sequenceNumber /\ Handshakes(f) = {p}
    BY <2>1, <2>2 DEF Opening
  <2>4. h = To[f] /\ k = <<From[f], SrcPort[f]>>
    BY <1>4, <1>9 DEF Forward
  <2>5. tcpConnections' = [tcpConnections EXCEPT ![h][k] = c]
    BY <1>3, <2>3, <2>4 DEF Receiver
  <2> HIDE DEF h, k
  <2>6. Receiver(f)' = c /\ Sender(f)' = Sender(f) /\ c # None
    BY <1>4, <2>4, <2>5, FlowConnectionSet, NoneIsNoConnection
  <2>7. q \notin DOMAIN wire
    <3>1. q # p /\ Handshake(q, f)
      BY <1>6, <1>9 DEF Handshake
    <3>2. QED BY <2>3, <3>1 DEF Handshakes
  <2>8. p \notin DOMAIN wire' /\ DOMAIN wire' \subseteq DOMAIN wire \cup {q} /\ wire'[q] = 1
    <3>1. p \notin ps /\ q \in ps \ DOMAIN wire
      BY <1>6, <2>7
    <3> HIDE DEF ps
    <3>2. /\ p \notin DOMAIN wire' /\ DOMAIN wire' \subseteq DOMAIN wire \cup ps /\ wire'[q] = 1
      BY <1>2, <2>2, <3>1, ExchangeCounts DEF IInv, TypeOK
    <3>3. QED BY <3>2 DEF ps
  <2>9. \A x \in Handshakes(f)' : x = q /\ wire'[x] = 1
    BY <2>3, <2>8 DEF Handshakes
  <2>10. Payloads(f)' = {}
    BY <1>6, <2>2, <2>8 DEF Opening, Payloads, Payload
  <2>11. f \notin unstarted' /\ f \notin waitingForArpReply'
    BY <2>1, <2>2 DEF Opening
  <2>12. Opening(f)'
    BY <1>2, <1>6, <2>2, <2>3, <2>6, <2>9, <2>10, <2>11 DEF Opening
  <2>13. QED BY <2>9, <2>12 DEF FlowInv
<1>10. QED BY <1>8, <1>9

\* A SYN,ACK: the sender's numbers from here on are those of its data.
LEMMA FlowSynAck ==
  ASSUME IInv, NEW f \in Flows, Alone(f), FlowInv(f),
         NEW p \in DOMAIN wire, p.flags = "SYN,ACK", establishTCPConnection(p),
         UNCHANGED <<unstarted, waitingForArpReply, losses>>
  PROVE  FlowInv(f)'
<1> DEFINE h == p.to
           k == createTCPConnectionKeyFromPacket(p)
           conn == tcpConnections[h][k]
<1>1. /\ h \in Hosts /\ k \in Keys /\ k = <<p.from, p.sp>> /\ TypeOK
      /\ k = createTCPConnectionKeyFromPacket(p) /\ conn = tcpConnections[p.to][k]
  BY SegmentFacts DEF IInv
<1>2. conn \in Connection /\ SynAckEffect(p, k, conn)
  <2> HIDE DEF k, conn
  <2>1. QED BY <1>1, SynAckStep
<1>3. PICK c \in Connection, ps \in SUBSET Segment :
        /\ tcpConnections' = [tcpConnections EXCEPT ![p.to][k] = c]
        /\ wire' = Exchanged(p, ps)
        /\ c.TCPConnectionState = "ESTABLISHED"
        /\ c.sequenceNumber = conn.sequenceNumber + 1 + conn.data
        /\ c.receivedSequenceNumbers = conn.receivedSequenceNumbers
        /\ \A q \in ps : /\ Reply(q, p) /\ q.flags \in {"ACK", "PSH"}
                         /\ q.flags = "PSH" => /\ conn.sequenceNumber + 1 <= q.seq
                                               /\ q.seq + q.len <= c.sequenceNumber
  BY <1>2 DEF SynAckEffect
<1>4. PICK g \in Flows : Backward(p, g)
  BY SegmentFacts DEF Registered
<1>5. \A q \in ps : ~Handshake(q, f) /\ (Payload(q, f) => Backward(p, f) /\ q.flags = "PSH")
  BY <1>3 DEF Handshake, Payload, Reply, Forward, Backward
<1>6. ~(h = To[f] /\ k = <<From[f], SrcPort[f]>>)
  BY NotEstablished
<1>7. tcpConnections' = [tcpConnections EXCEPT ![h][k] = c]
  BY <1>3
<1>8. CASE ~Backward(p, f)
  <2>1. ~(h = From[f] /\ k = <<To[f], DstPort[f]>>)
    <3>1. h = From[f] /\ k = <<To[f], DstPort[f]>> =>
            p.to = From[f] /\ p.from = To[f] /\ p.sp = DstPort[f]
      <4>1. k = <<p.from, p.sp>>
        BY <1>1
      <4> HIDE DEF k
      <4>2. QED BY <4>1
    <3> HIDE DEF h, k
    <3>2. QED BY <3>1, <1>4, <1>8, OfThisFlow
  <2> HIDE DEF h, k
  <2>2. Sender(f)' = Sender(f) /\ Receiver(f)' = Receiver(f)
    BY <1>1, <1>6, <1>7, <2>1, FlowConnectionSet
  <2>3. QED BY <1>3, <1>5, <1>8, <2>2, UndisturbedByHandling
<1>9. CASE Backward(p, f)
  <2>1. h = From[f] /\ k = <<To[f], DstPort[f]>> /\ conn = Sender(f)
    BY <1>1, <1>9 DEF Backward, Sender
  <2>2. p \in Handshakes(f)
    BY <1>9 DEF Handshakes, Handshake
  <2>3. Opening(f) /\ wire[p] = 1
    BY <2>2 DEF FlowInv, Idle, Open
  <2>4. /\ Handshakes(f) = {p} /\ Payloads(f) = {} /\ Receiver(f) # None
        /\ f \notin unstarted /\ f \notin waitingForArpReply
        /\ Sender(f).data = Len[f] /\ Receiver(f).receivedSequenceNumbers = {}
        /\ Receiver(f).acknowledgementNumber = Sender(f).sequenceNumber + 1
    BY <2>2, <2>3 DEF Opening
  <2> HIDE DEF h, k, conn
  <2>5. Sender(f)' = c /\ Receiver(f)' = Receiver(f)
    BY <1>1, <1>6, <1>7, <2>1, FlowConnectionSet
  <2> DEFINE first == Sender(f).sequenceNumber + 1
  <2>6. first \in Nat /\ c.sequenceNumber = first + Len[f] /\ Len[f] \in Nat
    <3>1. conn.sequenceNumber \in Nat
      BY <1>2 DEF Connection
    <3>2. conn.data = Len[f] /\ conn = Sender(f)
      BY <2>1, <2>4
    <3>3. QED BY <1>3, <3>1, <3>2, FlowKeys, NaturalArithmetic
  <2>7. Start(f)' = first
    <3>1. Start(f)' = (first + Len[f]) - Len[f]
      BY <2>5, <2>6 DEF Start
    <3> HIDE DEF first
    <3>2. QED BY <2>6, <3>1, NothingReceived
  <2>8. p \notin DOMAIN wire' /\ DOMAIN wire' \subseteq DOMAIN wire \cup ps
    <3>1. p \notin ps
      BY <1>3
    <3>2. QED BY <1>3, <2>3, <3>1, ExchangeCounts DEF IInv, TypeOK
  <2>9. Handshakes(f)' = {}
    <3>1. \A x \in DOMAIN wire' : Handshake(x, f) => x \in DOMAIN wire /\ x # p
      BY <1>5, <2>8
    <3>2. \A x \in DOMAIN wire : Handshake(x, f) => x = p
      BY <2>4 DEF Handshakes
    <3>3. QED BY <3>1, <3>2 DEF Handshakes
  <2>10. \A q \in Payloads(f)' : first <= q.seq /\ q.seq + q.len <= c.sequenceNumber
    <3>1. \A q \in Payloads(f)' : q \in ps /\ q.flags = "PSH"
      BY <1>5, <2>4, <2>8 DEF Payloads
    <3>2. QED BY <1>3, <2>1, <3>1
  <2>11. Receiver(f)'.receivedSequenceNumbers = {} /\ Receiver(f)'.acknowledgementNumber = first
    BY <2>4, <2>5
  <2> HIDE DEF first
  <2>12. first..(first - 1) = {} /\ first <= first + Len[f]
    BY <2>6, NothingReceived
  <2>13. Open(f)'
    <3>1. /\ f \notin unstarted' \cup waitingForArpReply' /\ Handshakes(f)' = {}
          /\ Sender(f)'.TCPConnectionState = "ESTABLISHED" /\ Receiver(f)' # None
      BY <1>3, <2>4, <2>5, <2>9
    <3>2. Start(f)' = first /\ Sender(f)'.sequenceNumber = first + Len[f]
      BY <2>5, <2>6, <2>7
    <3>3. \A q \in Payloads(f)' : first <= q.seq /\ q.seq + q.len <= Sender(f)'.sequenceNumber
      BY <2>5, <2>10
    <3>4. /\ first <= first /\ first <= Sender(f)'.sequenceNumber
          /\ first..(first - 1) \subseteq {}
      BY <2>6, <2>12, <3>2, NothingReceived
    <3> DEFINE r == Receiver(f)'.receivedSequenceNumbers
               a == Receiver(f)'.acknowledgementNumber
    <3>5. r = {} /\ a = first
      BY <2>11
    <3> HIDE DEF r, a
    <3>6. /\ r \subseteq Start(f)'..(Sender(f)'.sequenceNumber - 1)
          /\ Start(f)' <= a /\ a <= Sender(f)'.sequenceNumber
          /\ Start(f)'..(a - 1) \subseteq r /\ a \notin r
      BY <3>2, <3>4, <3>5
    <3>7. QED BY <2>6, <3>1, <3>2, <3>3, <3>6 DEF Open, r, a
  <2>14. QED BY <2>9, <2>13 DEF FlowInv
<1>10. QED BY <1>8, <1>9

\* Data: what is received lies among what was sent, so the first number that is
\* missing is the one after the last byte sent at most.
LEMMA FlowData ==
  ASSUME IInv, NEW f \in Flows, Alone(f), FlowInv(f),
         NEW p \in DOMAIN wire, p.flags = "PSH", updateACKNumber(p),
         UNCHANGED <<unstarted, waitingForArpReply, losses>>
  PROVE  FlowInv(f)'
<1> DEFINE h == p.to
           k == createTCPConnectionKeyFromPacket(p)
           conn == tcpConnections[h][k]
           numbers == p.seq..(p.seq + p.len - 1)
<1>1. /\ h \in Hosts /\ k \in Keys /\ k = <<p.from, p.sp>> /\ TypeOK
      /\ k = createTCPConnectionKeyFromPacket(p) /\ conn = tcpConnections[p.to][k]
  BY SegmentFacts DEF IInv
<1>2. conn \in Connection /\ DataEffect(p, k, conn)
  <2> HIDE DEF k, conn
  <2>1. QED BY <1>1, DataStep
<1>3. PICK c \in Connection, ack \in Nat :
        /\ tcpConnections' = [tcpConnections EXCEPT ![p.to][k] = c]
        /\ c.receivedSequenceNumbers = conn.receivedSequenceNumbers \cup numbers
        /\ c.acknowledgementNumber >= conn.acknowledgementNumber
        /\ c.acknowledgementNumber \notin c.receivedSequenceNumbers
        /\ conn.acknowledgementNumber..(c.acknowledgementNumber - 1) \subseteq c.receivedSequenceNumbers
        /\ wire' = Exchanged(p, {sendTCPPacket(p, "ACK", conn.sequenceNumber, ack, 0)})
  BY <1>2 DEF DataEffect
<1> DEFINE ps == {sendTCPPacket(p, "ACK", conn.sequenceNumber, ack, 0)}
<1>4. wire' = Exchanged(p, ps) /\ \A q \in ps : ~Handshake(q, f) /\ ~Payload(q, f)
  BY <1>3 DEF sendTCPPacket, Handshake, Payload
<1> HIDE DEF ps
<1>5. PICK g \in Flows : Forward(p, g)
  BY SegmentFacts DEF Registered
<1>6. ~(h = From[f] /\ k = <<To[f], DstPort[f]>>)
  <2>1. ~Backward(p, f)
    BY <1>5, FlowsAssumption DEF Alone, Forward, Backward
  <2>2. QED BY <1>1, <1>5, <2>1, OfThisFlow
<1>7. tcpConnections' = [tcpConnections EXCEPT ![h][k] = c]
  BY <1>3
<1>8. CASE ~Forward(p, f)
  <2>1. ~(h = To[f] /\ k = <<From[f], SrcPort[f]>>)
    BY <1>1, <1>5, <1>8, OfThisFlow
  <2> HIDE DEF h, k
  <2>2. Sender(f)' = Sender(f) /\ Receiver(f)' = Receiver(f)
    BY <1>1, <1>6, <1>7, <2>1, FlowConnectionSet
  <2>3. QED BY <1>4, <2>2, UndisturbedByHandling
<1>9. CASE Forward(p, f)
  <2>1. h = To[f] /\ k = <<From[f], SrcPort[f]>> /\ conn = Receiver(f)
    BY <1>1, <1>9 DEF Forward, Receiver
  <2>2. p \in Payloads(f)
    BY <1>9 DEF Payloads, Payload
  <2>3. Open(f)
    BY <2>2 DEF FlowInv, Idle, Opening
  <2> HIDE DEF h, k, conn
  <2>4. Receiver(f)' = c /\ Sender(f)' = Sender(f) /\ c # None
    BY <1>1, <1>6, <1>7, <2>1, FlowConnectionSet, NoneIsNoConnection
  <2> DEFINE s == Start(f)
             e == Sender(f).sequenceNumber
             old == conn.acknowledgementNumber
             new == c.acknowledgementNumber
  <2>5. s \in Nat /\ e \in Nat /\ old \in Nat /\ new \in Nat /\ p.seq \in Nat /\ p.len \in Nat
    <3>1. Sender(f) # None
      BY <2>3 DEF Open, None
    <3>2. Sender(f) \in Connection
      BY <1>1, <3>1, FlowConnections
    <3>3. QED BY <1>2, <2>3, <3>2, SegmentFacts DEF Open, Connection
  <2>6. /\ s <= p.seq /\ p.seq + p.len <= e
        /\ conn.receivedSequenceNumbers \subseteq s..(e - 1)
        /\ s <= old /\ old <= e /\ s..(old - 1) \subseteq conn.receivedSequenceNumbers
    BY <2>1, <2>2, <2>3 DEF Open
  <2>7. Start(f)' = s
    BY <2>4 DEF Start
  <2>8. /\ Handshakes(f)' = {} /\ Payloads(f)' \subseteq Payloads(f)
    <3>1. DOMAIN wire' \subseteq DOMAIN wire \cup ps
      BY <1>4, ExchangeCounts DEF IInv, TypeOK
    <3>2. Handshakes(f) = {}
      BY <2>3 DEF Open
    <3>3. QED BY <1>4, <3>1, <3>2 DEF Handshakes, Payloads
  <2> HIDE DEF s, e, old, new
  <2>9. numbers \subseteq s..(e - 1)
    BY <2>5, <2>6
  <2> DEFINE had == conn.receivedSequenceNumbers
             has == c.receivedSequenceNumbers
  <2>10. /\ has = had \cup numbers /\ new >= old /\ new \notin has /\ old..(new - 1) \subseteq has
         /\ had \subseteq s..(e - 1) /\ s..(old - 1) \subseteq had
    BY <1>3, <2>6 DEF new, old
  <2> HIDE DEF had, has, numbers
  <2>11. has \subseteq s..(e - 1)
    BY <2>9, <2>10
  <2>12. s..(new - 1) \subseteq has
    <3>1. \A n \in s..(new - 1) : n \in s..(old - 1) \/ n \in old..(new - 1)
      BY <2>5, <2>6, <2>10
    <3>2. QED BY <2>10, <3>1
  <2>13. s <= new /\ new <= e
    <3>1. s <= new
      BY <2>5, <2>6, <2>10
    <3>2. ASSUME new > e PROVE FALSE
      <4>1. e \in s..(new - 1) /\ e \notin s..(e - 1)
        BY <2>5, <2>6, <3>2
      <4>2. QED BY <2>11, <2>12, <4>1
    <3>3. QED BY <2>5, <3>1, <3>2
  <2>14. Open(f)'
    <3>1. /\ Start(f)' \in Nat /\ Receiver(f)' # None
          /\ f \notin unstarted' /\ f \notin waitingForArpReply'
          /\ Sender(f)'.TCPConnectionState = "ESTABLISHED"
      BY <2>3, <2>4, <2>5, <2>7 DEF Open
    <3>2. \A q \in Payloads(f)' : Start(f)' <= q.seq /\ q.seq + q.len <= Sender(f)'.sequenceNumber
      BY <2>3, <2>4, <2>7, <2>8 DEF Open, s
    <3>3. /\ Receiver(f)'.receivedSequenceNumbers \subseteq Start(f)'..(Sender(f)'.sequenceNumber - 1)
          /\ Start(f)' <= Receiver(f)'.acknowledgementNumber
          /\ Receiver(f)'.acknowledgementNumber <= Sender(f)'.sequenceNumber
          /\ Start(f)'..(Receiver(f)'.acknowledgementNumber - 1) \subseteq Receiver(f)'.receivedSequenceNumbers
          /\ Receiver(f)'.acknowledgementNumber \notin Receiver(f)'.receivedSequenceNumbers
      BY <2>4, <2>7, <2>10, <2>11, <2>12, <2>13 DEF e, new, has
    <3>4. QED BY <2>8, <3>1, <3>2, <3>3 DEF Open
  <2>15. QED BY <2>8, <2>14 DEF FlowInv
<1>10. QED BY <1>8, <1>9

\* The invariant of the flows that share no connection.
FlowsInv == \A f \in Flows : Alone(f) => FlowInv(f)

LEMMA FlowsStep == ASSUME IInv, FlowsInv, [Next]_vars PROVE FlowsInv'
<1> SUFFICES ASSUME NEW f \in Flows, Alone(f), FlowInv(f) PROVE FlowInv(f)'
  BY DEF FlowsInv, Alone
<1>1. CASE UNCHANGED vars
  <2>1. Undisturbed(f)
    BY <1>1 DEF vars, Undisturbed, Sender, Receiver, Handshakes, Payloads
  <2>2. QED BY <2>1, UndisturbedFlow
<1>2. ASSUME NEW p \in DOMAIN wire, handleAcknowledgement(p) \/ lost(p),
             UNCHANGED <<unstarted, waitingForArpReply>>
      PROVE  FlowInv(f)'
  <2> DEFINE ps == {}
  <2>1. wire' = Exchanged(p, ps) /\ tcpConnections' = tcpConnections
    BY <1>2 DEF handleAcknowledgement, lost
  <2>2. Sender(f)' = Sender(f) /\ Receiver(f)' = Receiver(f)
    BY <2>1 DEF Sender, Receiver
  <2>3. \A q \in ps : ~Handshake(q, f) /\ ~Payload(q, f)
    OBVIOUS
  <2> HIDE DEF ps
  <2>4. QED BY <1>2, <2>1, <2>2, <2>3, UndisturbedByHandling
<1>3. ASSUME NEW p \in DOMAIN wire, processTCPPacket(p) PROVE FlowInv(f)'
  BY <1>2, <1>3, FlowSyn, FlowSynAck, FlowData DEF processTCPPacket
<1>4. ASSUME NEW p \in DOMAIN wire, lost(p) PROVE FlowInv(f)'
  BY <1>2, <1>4 DEF lost
<1>5. QED BY <1>1, <1>3, <1>4, FlowStart DEF Next

LEMMA FlowsInvariance == Spec => []FlowsInv
<1>1. Init => FlowsInv
  <2> SUFFICES ASSUME Init, NEW f \in Flows PROVE FlowInv(f)
    BY DEF FlowsInv
  <2>1. f \in unstarted /\ DOMAIN wire = {} /\ Sender(f) = None /\ Receiver(f) = None
    BY EmptyIsBag, FlowKeys DEF Init, Sender, Receiver
  <2>2. QED BY <2>1 DEF FlowInv, Idle, Handshakes, Payloads
<1>2. IInv /\ FlowsInv /\ [Next]_vars => FlowsInv'
  BY FlowsStep
<1>3. QED BY <1>1, <1>2, Invariance, PTL DEF Spec

\* Of a flow that shares no connection the receiver acknowledges what it received
\* without a gap, no less and no more, and nothing that was not sent, for any
\* payload, segment size, order of arrival and loss (handleTCP.go:23, 137-162).
THEOREM AcksAreExact == Spec => []AcknowledgesExactly
<1>1. IInv /\ FlowsInv => AcknowledgesExactly
  <2> SUFFICES ASSUME IInv, NEW f \in Flows, FlowInv(f), Sender(f).TCPConnectionState = "ESTABLISHED"
               PROVE  Open(f)
    BY DEF FlowsInv, AcknowledgesExactly, Open, Start
  <2>1. ~Idle(f) /\ ~Opening(f)
    BY DEF Idle, Opening, None
  <2>2. QED BY <2>1 DEF FlowInv
<1>2. QED BY <1>1, Invariance, FlowsInvariance, PTL

-----------------------------------------------------------------------------
(***************************************************************************)
(* As long as nothing is lost: what has been received, and what is in      *)
(* flight, are the numbers of the flow's bytes, each once, and a host has  *)
(* counted as many bytes as it has numbers.                                *)
(***************************************************************************)
Got(h, k) == IF tcpConnections[h][k] = None THEN {} ELSE tcpConnections[h][k].receivedSequenceNumbers
FlowGot(f) == Got(To[f], <<From[f], SrcPort[f]>>)

\* The handshake goes on; afterwards every byte has been received or is in flight.
Whole(f) ==
  /\ Sender(f).TCPConnectionState = "CLOSED" => f \in waitingForArpReply \/ Handshakes(f) # {}
  /\ Sender(f).TCPConnectionState = "ESTABLISHED" =>
       /\ \A p \in Payloads(f) : wire[p] = 1 /\ Numbers(p) \cap FlowGot(f) = {}
       /\ \A p, q \in Payloads(f) : p # q => Numbers(p) \cap Numbers(q) = {}
       /\ \A n \in Start(f)..(Sender(f).sequenceNumber - 1) :
            n \in FlowGot(f) \/ \E p \in Payloads(f) : n \in Numbers(p)

HowMany == [f \in Flows |-> Cardinality(FlowGot(f))]
Counted(h) == receivedBytes[h] = SumFunctionOnSet(HowMany, FlowsTo(h))

\* Flows do not share connections.
Separate == \A f \in Flows : Alone(f)

WholeInv == losses = 0 => /\ \A f \in Flows : Whole(f)
                          /\ \A h \in Hosts : Counted(h)

LEMMA FlowGotIs ==
  ASSUME NEW f \in Flows
  PROVE  FlowGot(f) = IF Receiver(f) = None THEN {} ELSE Receiver(f).receivedSequenceNumbers
  BY DEF FlowGot, Got, Receiver

LEMMA GotFinite ==
  ASSUME TypeOK, NEW f \in Flows, FlowInv(f)
  PROVE  IsFiniteSet(FlowGot(f)) /\ Cardinality(FlowGot(f)) \in Nat
<1> SUFFICES IsFiniteSet(FlowGot(f))
  BY Counting
<1>1. CASE FlowGot(f) = {}
  BY <1>1, FiniteParts
<1>2. CASE Open(f)
  <2>1. FlowGot(f) \subseteq Start(f)..(Sender(f).sequenceNumber - 1) /\ Start(f) \in Nat
    BY <1>2, FlowGotIs DEF Open
  <2>2. Sender(f).sequenceNumber \in Nat
    <3>1. Sender(f) # None
      BY <1>2 DEF Open, None
    <3>2. QED BY <3>1, FlowConnections DEF Connection
  <2> DEFINE s == Start(f)
             e == Sender(f).sequenceNumber - 1
  <2>3. s \in Int /\ e \in Int /\ FlowGot(f) \subseteq s..e
    BY <2>1, <2>2
  <2> HIDE DEF s, e
  <2>4. IsFiniteSet(s..e)
    BY <2>3, IntervalCount
  <2>5. QED BY <2>3, <2>4, FiniteParts
<1>3. Idle(f) \/ Opening(f) => FlowGot(f) = {}
  BY FlowGotIs DEF Idle, Opening
<1>4. QED BY <1>1, <1>2, <1>3 DEF FlowInv

LEMMA WholeKept ==
  ASSUME NEW f \in Flows, Whole(f), Sender(f)' = Sender(f), FlowGot(f)' = FlowGot(f),
         Payloads(f)' = Payloads(f), Handshakes(f) \subseteq Handshakes(f)',
         f \in waitingForArpReply => f \in waitingForArpReply',
         \A p \in Payloads(f) : wire'[p] = wire[p]
  PROVE  Whole(f)'
  BY DEF Whole, Start

\* A segment is handled that is not of flow f, as what is sent is not.
LEMMA WholeAside ==
  ASSUME IInv, NEW f \in Flows, Whole(f), NEW p \in DOMAIN wire, NEW ps, wire' = Exchanged(p, ps),
         ~Handshake(p, f), ~Payload(p, f),
         \A q \in ps : ~Handshake(q, f) /\ ~Payload(q, f),
         Sender(f)' = Sender(f), FlowGot(f)' = FlowGot(f), UNCHANGED waitingForArpReply
  PROVE  Whole(f)'
<1>1. /\ DOMAIN wire' \subseteq DOMAIN wire \cup ps
      /\ \A x \in DOMAIN wire' \ ps : x # p => wire'[x] = wire[x]
      /\ DOMAIN wire \ {p} \subseteq DOMAIN wire'
  BY ExchangeCounts DEF IInv, TypeOK
<1>2. Payloads(f)' = Payloads(f) /\ Handshakes(f)' = Handshakes(f)
  BY <1>1 DEF Payloads, Handshakes
<1>3. \A x \in Payloads(f) : wire'[x] = wire[x]
  BY <1>1, <1>2 DEF Payloads
<1>4. QED BY <1>2, <1>3, WholeKept

LEMMA CountKept ==
  ASSUME NEW h \in Hosts, Counted(h), receivedBytes' = receivedBytes,
         \A f \in Flows : FlowGot(f)' = FlowGot(f)
  PROVE  Counted(h)'
<1>1. HowMany' = HowMany
  BY DEF HowMany
<1>2. FlowsTo(h)' = FlowsTo(h)
  BY DEF FlowsTo
<1>3. QED BY <1>1, <1>2 DEF Counted

\* The numbers that a connection has received when it is made or changed.
LEMMA GotSet ==
  ASSUME TypeOK, NEW h \in Hosts, NEW k \in Keys, NEW c \in Connection,
         tcpConnections' = [tcpConnections EXCEPT ![h][k] = c]
  PROVE  /\ Got(h, k)' = c.receivedSequenceNumbers
         /\ \A g \in Hosts, j \in Keys : g # h \/ j # k => Got(g, j)' = Got(g, j)
<1>1. /\ tcpConnections'[h][k] = c
      /\ \A g \in Hosts, j \in Keys : g # h \/ j # k => tcpConnections'[g][j] = tcpConnections[g][j]
  BY DEF TypeOK
<1>2. QED BY <1>1, NoneIsNoConnection DEF Got

LEMMA GotUnchanged ==
  ASSUME TypeOK, NEW h \in Hosts, NEW k \in Keys, NEW c \in Connection,
         tcpConnections' = [tcpConnections EXCEPT ![h][k] = c], c.receivedSequenceNumbers = Got(h, k)
  PROVE  \A f \in Flows : FlowGot(f)' = FlowGot(f)
<1>1. /\ Got(h, k)' = c.receivedSequenceNumbers
      /\ \A g \in Hosts, j \in Keys : g # h \/ j # k => Got(g, j)' = Got(g, j)
  BY GotSet
<1>2. \A g \in Hosts, j \in Keys : Got(g, j)' = Got(g, j)
  BY <1>1
<1>3. QED BY <1>2, FlowKeys DEF FlowGot

-----------------------------------------------------------------------------
LEMMA WholeStart ==
  ASSUME IInv, FlowsInv, Separate, \A f \in Flows : Whole(f),
         NEW g \in Flows, startTCPConnectionAndSendPacket(g)
  PROVE  \A f \in Flows : Whole(f)' /\ FlowGot(f)' = FlowGot(f)
<1> DEFINE h == From[g]
           k == <<To[g], DstPort[g]>>
           conn == tcpConnections'[h][k]
           q == initiateTCPHandshake(g, conn)
<1>1. h \in Hosts /\ k \in Keys /\ TypeOK
  BY FlowKeys DEF IInv
<1>2. \/ tcpConnections' = tcpConnections
      \/ /\ tcpConnections[h][k] = None
         /\ \E i \in Isns : tcpConnections' = [tcpConnections EXCEPT
              ![h][k] = initiateConnectionInfo(Len[g], "CLOSED", i, 0)]
  BY DEF startTCPConnectionAndSendPacket
<1>3. /\ g \in unstarted \cup waitingForArpReply
      /\ \/ /\ g \in unstarted /\ waitingForArpReply' = waitingForArpReply \cup {g} /\ wire' = wire
         \/ /\ waitingForArpReply' = waitingForArpReply \ {g}
            /\ wire' = IF conn.TCPConnectionState = "ESTABLISHED" THEN wire ELSE Sent({q})
  BY DEF startTCPConnectionAndSendPacket
<1>4. q.flags = "SYN" /\ Forward(q, g)
  BY DEF initiateTCPHandshake, Forward
<1>5. ASSUME NEW f \in Flows PROVE FlowGot(f)' = FlowGot(f) /\ (f # g => Sender(f)' = Sender(f))
  <2>1. CASE tcpConnections' = tcpConnections
    BY <2>1 DEF FlowGot, Got, Sender
  <2>2. ASSUME NEW i \in Isns, tcpConnections[h][k] = None, tcpConnections' = [tcpConnections EXCEPT
              ![h][k] = initiateConnectionInfo(Len[g], "CLOSED", i, 0)]
        PROVE  <1>5!2
    <3> DEFINE c == initiateConnectionInfo(Len[g], "CLOSED", i, 0)
    <3>1. c \in Connection /\ c.receivedSequenceNumbers = {}
      BY FlowKeys, IsnsAssumption DEF initiateConnectionInfo, Connection
    <3>2. tcpConnections' = [tcpConnections EXCEPT ![h][k] = c]
      BY <2>2
    <3>3. Got(h, k) = {}
      BY <2>2 DEF Got
    <3>4. f # g => ~(h = From[f] /\ k = <<To[f], DstPort[f]>>)
      BY DEF Separate, Alone
    <3> HIDE DEF c, h, k, conn, q
    <3>5. FlowGot(f)' = FlowGot(f)
      BY <1>1, <3>1, <3>2, <3>3, GotUnchanged
    <3>6. QED BY <1>1, <3>2, <3>4, <3>5, FlowConnectionSet
  <2>3. QED BY <1>2, <2>1, <2>2
<1>6. conn.TCPConnectionState # "ESTABLISHED"
  <2>1. FlowInv(g)' /\ conn = Sender(g)'
    BY FlowStart DEF FlowsInv, Separate, Sender
  <2> HIDE DEF conn, q
  <2>2. g \notin unstarted'
    BY DEF startTCPConnectionAndSendPacket
  <2>3. Sender(g) = None \/ Sender(g).TCPConnectionState = "CLOSED"
    BY <1>3 DEF FlowsInv, Separate, FlowInv, Idle, Opening, Open
  <2>4. QED
    <3>1. CASE tcpConnections' = tcpConnections
      BY <2>1, <2>3, <3>1 DEF Sender, None
    <3>2. ASSUME NEW i \in Isns, tcpConnections' = [tcpConnections EXCEPT
                ![h][k] = initiateConnectionInfo(Len[g], "CLOSED", i, 0)]
          PROVE  conn.TCPConnectionState # "ESTABLISHED"
      <4> DEFINE c == initiateConnectionInfo(Len[g], "CLOSED", i, 0)
      <4>1. c.TCPConnectionState = "CLOSED"
        BY DEF initiateConnectionInfo
      <4>2. tcpConnections' = [tcpConnections EXCEPT ![h][k] = c] /\ h = From[g] /\ k = <<To[g], DstPort[g]>>
        BY <3>2
      <4> HIDE DEF c, h, k
      <4>3. QED BY <1>1, <2>1, <4>1, <4>2, FlowConnectionSet
    <3>3. QED BY <1>2, <3>1, <3>2
<1> HIDE DEF q, conn
<1>7. /\ DOMAIN wire \subseteq DOMAIN wire' /\ DOMAIN wire' \subseteq DOMAIN wire \cup {q}
      /\ \A x \in DOMAIN wire' \ {q} : wire'[x] = wire[x]
      /\ g \in waitingForArpReply' \/ q \in DOMAIN wire'
      /\ waitingForArpReply \ {g} \subseteq waitingForArpReply'
  <2>1. wire' = wire \/ wire' = Sent({q})
    BY <1>3
  <2>2. /\ DOMAIN wire \subseteq DOMAIN wire' /\ DOMAIN wire' \subseteq DOMAIN wire \cup {q}
        /\ \A x \in DOMAIN wire' \ {q} : wire'[x] = wire[x]
        /\ wire' = Sent({q}) => q \in DOMAIN wire'
    <3>1. IsABag(wire)
      BY <1>1 DEF TypeOK
    <3>2. CASE wire' = Sent({q})
      BY <3>1, <3>2, SendCounts
    <3>3. CASE wire' = wire /\ wire' # Sent({q})
      BY <3>3
    <3>4. QED BY <2>1, <3>2, <3>3
  <2>3. g \in waitingForArpReply' \/ q \in DOMAIN wire'
    BY <1>3, <1>6, <2>2
  <2>4. waitingForArpReply \ {g} \subseteq waitingForArpReply'
    BY <1>3
  <2>5. QED BY <2>2, <2>3, <2>4
<1>8. ASSUME NEW f \in Flows PROVE Whole(f)'
  <2>1. ~Payload(q, f)
    BY <1>4 DEF Payload
  <2>2. Payloads(f)' = Payloads(f) /\ \A x \in Payloads(f) : wire'[x] = wire[x]
    BY <1>7, <2>1 DEF Payloads
  <2>3. Handshakes(f) \subseteq Handshakes(f)'
    BY <1>7 DEF Handshakes
  <2>4. CASE f # g
    BY <1>5, <1>7, <2>2, <2>3, <2>4, WholeKept
  <2>5. CASE f = g
    <3>1. Sender(f)'.TCPConnectionState # "ESTABLISHED"
      BY <1>6, <2>5 DEF conn, Sender
    <3>2. q \in DOMAIN wire' => Handshakes(f)' # {}
      BY <1>4, <2>5 DEF Handshakes, Handshake
    <3>3. f \in waitingForArpReply' \/ Handshakes(f)' # {}
      BY <1>7, <2>5, <3>2
    <3>4. QED BY <3>1, <3>3 DEF Whole
  <2>6. QED BY <2>4, <2>5
<1>9. QED BY <1>5, <1>8

LEMMA WholeSyn ==
  ASSUME IInv, FlowsInv, Separate, \A f \in Flows : Whole(f),
         NEW p \in DOMAIN wire, p.flags = "SYN", sendTCPSYNACK(p),
         UNCHANGED <<unstarted, waitingForArpReply, losses>>
  PROVE  \A f \in Flows : Whole(f)' /\ FlowGot(f)' = FlowGot(f)
<1> DEFINE h == p.to
           k == createTCPConnectionKeyFromPacket(p)
<1>1. PICK i \in Isns :
        /\ tcpConnections' = IF tcpConnections[h][k] # None THEN tcpConnections
             ELSE [tcpConnections EXCEPT
                     ![h][k] = initiateConnectionInfo(0, "SYN_RECEIVED", i, p.seq + 1)]
        /\ wire' = Exchanged(p, {sendTCPPacket(p, "SYN,ACK", i, p.seq + 1, 0)})
  BY DEF sendTCPSYNACK
<1> DEFINE q == sendTCPPacket(p, "SYN,ACK", i, p.seq + 1, 0)
           c == initiateConnectionInfo(0, "SYN_RECEIVED", i, p.seq + 1)
           ps == {q}
<1>2. /\ q.flags = "SYN,ACK" /\ Reply(q, p) /\ wire' = Exchanged(p, ps)
      /\ c.receivedSequenceNumbers = {}
  BY <1>1 DEF sendTCPPacket, Reply, initiateConnectionInfo
<1>3. \/ tcpConnections' = tcpConnections
      \/ tcpConnections[h][k] = None /\ tcpConnections' = [tcpConnections EXCEPT ![h][k] = c]
  BY <1>1
<1>4. /\ h \in Hosts /\ k \in Keys /\ k = <<p.from, p.sp>> /\ TypeOK
      /\ c \in Connection
  <2>1. i \in Nat /\ p.seq + 1 \in Nat
    BY SegmentFacts, IsnsAssumption, NaturalArithmetic
  <2>2. c \in Connection
    BY <2>1, Initiated
  <2> HIDE DEF c
  <2>3. QED BY <2>2, SegmentFacts DEF IInv
<1>5. PICK g \in Flows : Forward(p, g)
  BY SegmentFacts DEF Registered
<1> HIDE DEF q, c
<1>6. ASSUME NEW f \in Flows PROVE FlowGot(f)' = FlowGot(f) /\ Sender(f)' = Sender(f)
  <2>1. CASE tcpConnections' = tcpConnections
    BY <2>1 DEF FlowGot, Got, Sender
  <2>2. CASE tcpConnections[h][k] = None /\ tcpConnections' = [tcpConnections EXCEPT ![h][k] = c]
    <3>1. ~(h = From[f] /\ k = <<To[f], DstPort[f]>>)
      <4>1. ~Backward(p, f)
        BY <1>5, FlowsAssumption DEF Separate, Alone, Forward, Backward
      <4>2. QED BY <1>4, <1>5, <4>1, OfThisFlow DEF Separate
    <3>2. Got(h, k) = {}
      BY <2>2 DEF Got
    <3> HIDE DEF h, k
    <3>3. FlowGot(f)' = FlowGot(f)
      BY <1>2, <1>4, <2>2, <3>2, GotUnchanged
    <3>4. QED BY <1>4, <2>2, <3>1, <3>3, FlowConnectionSet
  <2>3. QED BY <1>3, <2>1, <2>2
<1>7. ASSUME NEW f \in Flows PROVE Whole(f)'
  <2>1. Handshake(q, f) <=> Forward(p, f)
    BY <1>2 DEF Handshake, Backward, Forward, Reply
  <2>2. \A x \in ps : ~Payload(x, f)
    BY <1>2 DEF Payload
  <2>3. CASE ~Forward(p, f)
    <3>1. ~Handshake(p, f) /\ ~Payload(p, f) /\ \A x \in ps : ~Handshake(x, f)
      BY <2>1, <2>3 DEF Handshake, Payload
    <3> HIDE DEF ps
    <3>2. QED BY <1>2, <1>6, <2>2, <3>1, WholeAside
  <2>4. CASE Forward(p, f)
    <3>1. p \in Handshakes(f)
      BY <2>4 DEF Handshakes, Handshake
    <3>2. Opening(f)
      BY <3>1 DEF FlowsInv, Separate, FlowInv, Idle, Open
    <3>3. Sender(f)'.TCPConnectionState = "CLOSED"
      BY <1>6, <3>2 DEF Opening
    <3>4. q \in DOMAIN wire'
      <4>1. q \in ps
        OBVIOUS
      <4> HIDE DEF ps
      <4>2. QED BY <1>2, <4>1, ExchangeCounts DEF IInv, TypeOK
    <3>5. Handshakes(f)' # {}
      BY <2>1, <2>4, <3>4 DEF Handshakes
    <3>6. QED BY <3>3, <3>5 DEF Whole
  <2>5. QED BY <2>3, <2>4
<1>8. QED BY <1>6, <1>7

\* A SYN,ACK: the bytes are in flight, each once, and none has been received.
LEMMA WholeSynAck ==
  ASSUME IInv, FlowsInv, Separate, \A f \in Flows : Whole(f),
         NEW p \in DOMAIN wire, p.flags = "SYN,ACK", establishTCPConnection(p),
         UNCHANGED <<unstarted, waitingForArpReply, losses>>
  PROVE  /\ receivedBytes' = receivedBytes
         /\ \A f \in Flows : Whole(f)' /\ FlowGot(f)' = FlowGot(f)
<1> DEFINE h == p.to
           k == createTCPConnectionKeyFromPacket(p)
           conn == tcpConnections[h][k]
<1>1. /\ h \in Hosts /\ k \in Keys /\ k = <<p.from, p.sp>> /\ TypeOK
      /\ k = createTCPConnectionKeyFromPacket(p) /\ conn = tcpConnections[p.to][k]
  BY SegmentFacts DEF IInv
<1>2. conn \in Connection /\ SynAckEffect(p, k, conn) /\ receivedBytes' = receivedBytes
  <2> HIDE DEF k, conn
  <2>1. QED BY <1>1, SynAckStep
<1>3. PICK c \in Connection, ps \in SUBSET Segment :
        /\ tcpConnections' = [tcpConnections EXCEPT ![p.to][k] = c]
        /\ wire' = Exchanged(p, ps)
        /\ c.TCPConnectionState = "ESTABLISHED"
        /\ c.sequenceNumber = conn.sequenceNumber + 1 + conn.data
        /\ c.receivedSequenceNumbers = conn.receivedSequenceNumbers
        /\ \A q \in ps : Reply(q, p) /\ q.flags \in {"ACK", "PSH"}
        /\ Tiled(ps, conn.sequenceNumber + 1, c.sequenceNumber)
  BY <1>2 DEF SynAckEffect
<1>4. PICK g \in Flows : Backward(p, g)
  BY SegmentFacts DEF Registered
<1>5. \A f \in Flows, q \in ps : /\ ~Handshake(q, f)
                                 /\ Payload(q, f) <=> Backward(p, f) /\ q.flags = "PSH"
  BY <1>3 DEF Handshake, Payload, Reply, Forward, Backward
<1>6. tcpConnections' = [tcpConnections EXCEPT ![h][k] = c]
  BY <1>3
<1>7. c.receivedSequenceNumbers = Got(h, k)
  <2>1. conn # None
    BY <1>2, NoneIsNoConnection
  <2>2. QED BY <1>3, <2>1 DEF Got
<1>8. \A f \in Flows : FlowGot(f)' = FlowGot(f)
  <2> HIDE DEF h, k
  <2>1. QED BY <1>1, <1>6, <1>7, GotUnchanged
<1>9. ASSUME NEW f \in Flows, ~Backward(p, f) PROVE Whole(f)'
  <2>1. ~(h = From[f] /\ k = <<To[f], DstPort[f]>>)
    <3>1. h = From[f] /\ k = <<To[f], DstPort[f]>> =>
            p.to = From[f] /\ p.from = To[f] /\ p.sp = DstPort[f]
      <4>1. k = <<p.from, p.sp>>
        BY <1>1
      <4> HIDE DEF k
      <4>2. QED BY <4>1
    <3> HIDE DEF h, k
    <3>2. QED BY <3>1, <1>4, <1>9, OfThisFlow DEF Separate
  <2> HIDE DEF h, k
  <2>2. Sender(f)' = Sender(f)
    BY <1>1, <1>6, <2>1, FlowConnectionSet
  <2>3. ~Handshake(p, f) /\ ~Payload(p, f)
    BY <1>9 DEF Handshake, Payload
  <2>4. \A q \in ps : ~Handshake(q, f) /\ ~Payload(q, f)
    BY <1>5, <1>9
  <2>5. QED BY <1>3, <1>8, <2>2, <2>3, <2>4, WholeAside
<1>10. ASSUME NEW f \in Flows, Backward(p, f) PROVE Whole(f)'
  <2>1. h = From[f] /\ k = <<To[f], DstPort[f]>> /\ conn = Sender(f)
    BY <1>1, <1>10 DEF Backward, Sender
  <2>2. p \in Handshakes(f)
    BY <1>10 DEF Handshakes, Handshake
  <2>3. Opening(f)
    BY <2>2 DEF FlowsInv, Separate, FlowInv, Idle, Open
  <2>4. /\ Payloads(f) = {} /\ Receiver(f) # None
        /\ Sender(f).data = Len[f] /\ Receiver(f).receivedSequenceNumbers = {}
    BY <2>2, <2>3 DEF Opening
  <2> HIDE DEF h, k, conn
  <2>5. Sender(f)' = c
    BY <1>1, <1>6, <2>1, FlowConnectionSet
  <2> DEFINE first == Sender(f).sequenceNumber + 1
  <2>6. first \in Nat /\ c.sequenceNumber = first + Len[f] /\ Len[f] \in Nat
    <3>1. conn.sequenceNumber \in Nat
      BY <1>2 DEF Connection
    <3>2. conn.data = Len[f] /\ conn = Sender(f)
      BY <2>1, <2>4
    <3>3. QED BY <1>3, <3>1, <3>2, FlowKeys, NaturalArithmetic
  <2>7. Start(f)' = first
    <3>1. Start(f)' = (first + Len[f]) - Len[f]
      BY <2>5, <2>6 DEF Start
    <3> HIDE DEF first
    <3>2. QED BY <2>6, <3>1, NothingReceived
  <2>8. Tiled(ps, first, c.sequenceNumber)
    BY <1>3, <2>1
  <2> HIDE DEF first
  <2>9. FlowGot(f)' = {}
    BY <1>8, <2>4, FlowGotIs
  <2>10. /\ DOMAIN wire' \subseteq DOMAIN wire \cup ps /\ ps \subseteq DOMAIN wire'
         /\ \A x \in ps \ DOMAIN wire : wire'[x] = 1
    BY <1>3, ExchangeCounts DEF IInv, TypeOK
  <2>11. \A x : x \in Payloads(f)' <=> x \in ps /\ x.flags = "PSH"
    BY <1>5, <1>10, <2>4, <2>10 DEF Payloads
  <2>12. \A x \in Payloads(f)' : wire'[x] = 1
    <3>1. \A x \in ps : x.flags = "PSH" => x \notin DOMAIN wire
      BY <1>5, <1>10, <2>4 DEF Payloads
    <3>2. QED BY <2>10, <2>11, <3>1
  <2>13. \A x, y \in Payloads(f)' : x # y => Numbers(x) \cap Numbers(y) = {}
    BY <2>8, <2>11 DEF Tiled
  <2>14. \A n \in first..(c.sequenceNumber - 1) : \E x \in Payloads(f)' : n \in Numbers(x)
    BY <2>8, <2>11 DEF Tiled
  <2>15. Sender(f)'.TCPConnectionState = "ESTABLISHED"
    BY <1>3, <2>5
  <2> DEFINE start == Start(f)'
             end == Sender(f)'.sequenceNumber
             flying == Payloads(f)'
             got == FlowGot(f)'
  <2>16. /\ \A x \in flying : wire'[x] = 1 /\ Numbers(x) \cap got = {}
         /\ \A x, y \in flying : x # y => Numbers(x) \cap Numbers(y) = {}
         /\ \A n \in start..(end - 1) : n \in got \/ \E x \in flying : n \in Numbers(x)
    BY <2>5, <2>7, <2>9, <2>12, <2>13, <2>14
  <2>17. QED BY <2>15, <2>16 DEF Whole, Numbers
<1>11. QED BY <1>2, <1>8, <1>9, <1>10

\* Data: its bytes have been received now, and no longer are in flight.
LEMMA WholeData ==
  ASSUME IInv, FlowsInv, Separate, \A f \in Flows : Whole(f),
         NEW p \in DOMAIN wire, p.flags = "PSH", updateACKNumber(p),
         UNCHANGED <<unstarted, waitingForArpReply, losses>>
  PROVE  /\ receivedBytes' = [receivedBytes EXCEPT ![p.to] = @ + p.len]
         /\ \A f \in Flows : Whole(f)'
         /\ \A f \in Flows : ~Forward(p, f) => FlowGot(f)' = FlowGot(f)
         /\ \E g \in Flows : /\ Forward(p, g)
                             /\ FlowGot(g)' = FlowGot(g) \cup Numbers(p)
                             /\ FlowGot(g) \cap Numbers(p) = {}
<1> DEFINE h == p.to
           k == createTCPConnectionKeyFromPacket(p)
           conn == tcpConnections[h][k]
<1>1. /\ h \in Hosts /\ k \in Keys /\ k = <<p.from, p.sp>> /\ TypeOK
      /\ k = createTCPConnectionKeyFromPacket(p) /\ conn = tcpConnections[p.to][k]
  BY SegmentFacts DEF IInv
<1>2. /\ conn \in Connection /\ conn # None /\ DataEffect(p, k, conn)
      /\ receivedBytes' = [receivedBytes EXCEPT ![p.to] = @ + p.len]
  <2> HIDE DEF k, conn
  <2>1. QED BY <1>1, DataStep
<1>3. PICK c \in Connection, ack \in Nat :
        /\ tcpConnections' = [tcpConnections EXCEPT ![p.to][k] = c]
        /\ c.receivedSequenceNumbers = conn.receivedSequenceNumbers \cup Numbers(p)
        /\ wire' = Exchanged(p, {sendTCPPacket(p, "ACK", conn.sequenceNumber, ack, 0)})
  BY <1>2 DEF DataEffect, Numbers
<1> DEFINE ps == {sendTCPPacket(p, "ACK", conn.sequenceNumber, ack, 0)}
<1>4. /\ wire' = Exchanged(p, ps) /\ p \notin ps
      /\ \A f \in Flows, q \in ps : ~Handshake(q, f) /\ ~Payload(q, f)
  BY <1>3 DEF sendTCPPacket, Handshake, Payload
<1> HIDE DEF ps
<1>5. PICK g \in Flows : Forward(p, g)
  BY SegmentFacts DEF Registered
<1>6. tcpConnections' = [tcpConnections EXCEPT ![h][k] = c]
  BY <1>3
<1>7. ASSUME NEW f \in Flows PROVE Sender(f)' = Sender(f)
  <2>1. ~Backward(p, f)
    BY <1>5, FlowsAssumption DEF Separate, Alone, Forward, Backward
  <2>2. ~(h = From[f] /\ k = <<To[f], DstPort[f]>>)
    BY <1>1, <1>5, <2>1, OfThisFlow DEF Separate
  <2> HIDE DEF h, k
  <2>3. QED BY <1>1, <1>6, <2>2, FlowConnectionSet
<1>8. /\ Got(h, k)' = c.receivedSequenceNumbers
      /\ \A b \in Hosts, j \in Keys : b # h \/ j # k => Got(b, j)' = Got(b, j)
  <2> HIDE DEF h, k
  <2>1. QED BY <1>1, <1>6, GotSet
<1>9. ASSUME NEW f \in Flows, ~Forward(p, f) PROVE FlowGot(f)' = FlowGot(f)
  <2>1. ~(To[f] = h /\ <<From[f], SrcPort[f]>> = k)
    BY <1>1, <1>5, <1>9, OfThisFlow DEF Separate
  <2> HIDE DEF h, k
  <2>2. QED BY <1>8, <2>1, FlowKeys DEF FlowGot
<1>10. ASSUME NEW f \in Flows, Forward(p, f)
       PROVE  FlowGot(f)' = FlowGot(f) \cup Numbers(p)
  <2>1. To[f] = h /\ <<From[f], SrcPort[f]>> = k
    BY <1>1, <1>10 DEF Forward
  <2>2. FlowGot(f) = conn.receivedSequenceNumbers /\ FlowGot(f)' = Got(h, k)'
    BY <1>1, <1>2, <2>1 DEF FlowGot, Got
  <2> HIDE DEF h, k, conn
  <2>3. QED BY <1>3, <1>8, <2>2
<1>11. ASSUME NEW f \in Flows, Forward(p, f)
       PROVE  p \in Payloads(f) /\ Sender(f).TCPConnectionState = "ESTABLISHED"
  <2>1. p \in Payloads(f)
    BY <1>11 DEF Payloads, Payload
  <2>2. Open(f)
    BY <2>1 DEF FlowsInv, Separate, FlowInv, Idle, Opening
  <2>3. QED BY <2>1, <2>2 DEF Open
<1>12. ASSUME NEW f \in Flows, ~Forward(p, f) PROVE Whole(f)'
  <2>1. ~Handshake(p, f) /\ ~Payload(p, f)
    BY <1>12 DEF Handshake, Payload
  <2>2. \A q \in ps : ~Handshake(q, f) /\ ~Payload(q, f)
    BY <1>4
  <2> HIDE DEF h, k, conn
  <2>3. FlowGot(f)' = FlowGot(f) /\ Sender(f)' = Sender(f)
    BY <1>7, <1>9, <1>12
  <2>4. QED BY <1>4, <2>1, <2>2, <2>3, WholeAside
<1>13. ASSUME NEW f \in Flows, Forward(p, f) PROVE Whole(f)'
  <2> HIDE DEF h, k, conn
  <2> DEFINE flying == Payloads(f)
             had == FlowGot(f)
             start == Start(f)
             end == Sender(f).sequenceNumber
  <2>1. /\ \A x \in flying : wire[x] = 1 /\ Numbers(x) \cap had = {}
        /\ \A x, y \in flying : x # y => Numbers(x) \cap Numbers(y) = {}
        /\ \A n \in start..(end - 1) : n \in had \/ \E x \in flying : n \in Numbers(x)
        /\ p \in flying
    BY <1>11, <1>13 DEF Whole
  <2>2. /\ DOMAIN wire' \subseteq DOMAIN wire \cup ps
        /\ \A x \in DOMAIN wire' \ ps : x # p => wire'[x] = wire[x]
        /\ p \notin DOMAIN wire'
        /\ DOMAIN wire \ {p} \subseteq DOMAIN wire'
    BY <1>4, <2>1, ExchangeCounts DEF IInv, TypeOK
  <2>3. Payloads(f)' = flying \ {p}
    BY <1>4, <2>2 DEF Payloads
  <2>4. \A x \in flying \ {p} : x \notin ps /\ x \in DOMAIN wire'
    BY <1>4, <2>2 DEF Payloads
  <2>5. Sender(f)' = Sender(f) /\ Start(f)' = start /\ FlowGot(f)' = had \cup Numbers(p)
    BY <1>7, <1>10, <1>13 DEF Start
  <2>6. Sender(f)'.TCPConnectionState = "ESTABLISHED" /\ Sender(f)'.sequenceNumber = end
    BY <1>11, <1>13, <2>5
  <2> HIDE DEF flying, had, start, end
  <2> DEFINE rest == flying \ {p}
             has == had \cup Numbers(p)
  <2>7. \A x \in rest : wire'[x] = 1
    BY <2>1, <2>2, <2>4
  <2>8. /\ \A x \in rest : Numbers(x) \cap has = {}
        /\ \A x, y \in rest : x # y => Numbers(x) \cap Numbers(y) = {}
        /\ \A n \in start..(end - 1) : n \in has \/ \E x \in rest : n \in Numbers(x)
    BY <2>1
  <2> HIDE DEF rest, has
  <2>9. Payloads(f)' = rest /\ FlowGot(f)' = has
    BY <2>3, <2>5 DEF rest, has
  <2>10. QED BY <2>5, <2>6, <2>7, <2>8, <2>9 DEF Whole, Numbers
<1>14. FlowGot(g) \cap Numbers(p) = {}
  BY <1>5, <1>11 DEF Whole
<1>15. QED BY <1>2, <1>5, <1>9, <1>10, <1>12, <1>13, <1>14

\* The bytes of a segment are counted once, at the host that it reaches.
LEMMA DataCounted ==
  ASSUME IInv, FlowsInv, Separate, NEW p \in DOMAIN wire, NEW g \in Flows, Forward(p, g),
         receivedBytes' = [receivedBytes EXCEPT ![p.to] = @ + p.len],
         \A f \in Flows : ~Forward(p, f) => FlowGot(f)' = FlowGot(f),
         FlowGot(g)' = FlowGot(g) \cup Numbers(p), FlowGot(g) \cap Numbers(p) = {},
         NEW h \in Hosts, Counted(h)
  PROVE  Counted(h)'
<1>1. TypeOK /\ p.to = To[g] /\ p.seq \in Nat /\ p.len \in Nat /\ receivedBytes \in [Hosts -> Nat]
  BY SegmentFacts DEF IInv, Forward
<1>2. \A f \in Flows \ {g} : FlowGot(f)' = FlowGot(f)
  BY DEF Separate, Alone, Forward
<1> DEFINE had == HowMany
           has == HowMany'
           flows == FlowsTo(h)
<1>3. /\ IsFiniteSet(flows) /\ flows \subseteq Flows /\ (g \in flows <=> h = To[g])
      /\ flows = FlowsTo(h)'
  BY FiniteAssumption, FiniteParts DEF FlowsTo
<1>4. \A f \in Flows : had[f] \in Nat /\ IsFiniteSet(FlowGot(f))
  BY <1>1, GotFinite DEF HowMany, FlowsInv, Separate
<1>5. \A f \in Flows \ {g} : has[f] = had[f]
  BY <1>2 DEF HowMany
<1>6. has[g] = had[g] + p.len
  <2>1. IsFiniteSet(Numbers(p)) /\ Cardinality(Numbers(p)) = p.len
    <3> DEFINE a == p.seq
               b == p.seq + p.len - 1
    <3>1. a \in Int /\ b \in Int /\ a <= b + 1 /\ b - a + 1 = p.len /\ Numbers(p) = a..b
      BY <1>1 DEF Numbers
    <3> HIDE DEF a, b
    <3>2. QED BY <3>1, IntervalCount
  <2>2. Cardinality(FlowGot(g) \cup Numbers(p)) = Cardinality(FlowGot(g)) + Cardinality(Numbers(p))
    BY <1>4, <2>1, DisjointCount
  <2>3. has[g] = Cardinality(FlowGot(g) \cup Numbers(p)) /\ had[g] = Cardinality(FlowGot(g))
    BY DEF HowMany
  <2>4. QED BY <2>1, <2>2, <2>3
<1>7. receivedBytes[h] = SumFunctionOnSet(had, flows)
  BY DEF Counted
<1> HIDE DEF had, has, flows
<1>8. receivedBytes'[h] = SumFunctionOnSet(has, flows)
  <2>1. CASE g \in flows
    <3>1. receivedBytes'[h] = receivedBytes[h] + p.len
      BY <1>1, <1>3, <2>1
    <3>2. \A f \in flows : had[f] \in Int /\ has[f] \in Int
      BY <1>1, <1>3, <1>4, <1>5, <1>6
    <3>3. SumFunctionOnSet(has, flows) = SumFunctionOnSet(had, flows) + (has[g] - had[g])
      BY <1>3, <1>5, <2>1, <3>2, SumChange
    <3>4. has[g] - had[g] = p.len
      BY <1>1, <1>4, <1>6
    <3>5. QED BY <1>7, <3>1, <3>3, <3>4
  <2>2. CASE g \notin flows
    <3>1. receivedBytes'[h] = receivedBytes[h]
      BY <1>1, <1>3, <2>2
    <3>2. SumFunctionOnSet(had, flows) = SumFunctionOnSet(has, flows)
      BY <1>3, <1>5, <2>2, SumSame
    <3>3. QED BY <1>7, <3>1, <3>2
  <2>3. QED BY <2>1, <2>2
<1>9. QED BY <1>3, <1>8 DEF Counted, has, flows

LEMMA WholeStep == ASSUME IInv, FlowsInv, Separate, WholeInv, [Next]_vars PROVE WholeInv'
<1> SUFFICES ASSUME losses' = 0
             PROVE  (\A f \in Flows : Whole(f)') /\ \A h \in Hosts : Counted(h)'
  BY DEF WholeInv
<1>1. CASE UNCHANGED vars
  <2>1. losses = 0
    BY <1>1 DEF vars
  <2>2. \A f \in Flows : Whole(f) /\ FlowGot(f)' = FlowGot(f)
    BY <1>1, <2>1 DEF vars, WholeInv, FlowGot, Got
  <2>3. \A f \in Flows : Whole(f)'
    BY <1>1, <2>2, WholeKept DEF vars, Sender, Payloads, Handshakes
  <2>4. \A h \in Hosts : Counted(h)'
    BY <1>1, <2>1, <2>2, CountKept DEF vars, WholeInv
  <2>5. QED BY <2>3, <2>4
<1>2. ASSUME NEW p \in DOMAIN wire, lost(p) PROVE FALSE
  BY <1>2 DEF lost, IInv, TypeOK
<1> SUFFICES ASSUME Next PROVE (\A f \in Flows : Whole(f)') /\ \A h \in Hosts : Counted(h)'
  BY <1>1
<1>3. losses = 0
  BY <1>2 DEF Next, startTCPConnectionAndSendPacket, processTCPPacket
<1>4. (\A f \in Flows : Whole(f)) /\ \A h \in Hosts : Counted(h)
  BY <1>3 DEF WholeInv
<1>5. ASSUME receivedBytes' = receivedBytes, \A f \in Flows : Whole(f)' /\ FlowGot(f)' = FlowGot(f)
      PROVE  (\A f \in Flows : Whole(f)') /\ \A h \in Hosts : Counted(h)'
  BY <1>4, <1>5, CountKept
<1>6. ASSUME NEW g \in Flows, startTCPConnectionAndSendPacket(g)
      PROVE  (\A f \in Flows : Whole(f)') /\ \A h \in Hosts : Counted(h)'
  <2>1. receivedBytes' = receivedBytes
    BY <1>6 DEF startTCPConnectionAndSendPacket
  <2>2. \A f \in Flows : Whole(f)' /\ FlowGot(f)' = FlowGot(f)
    BY <1>4, <1>6, WholeStart
  <2>3. QED BY <1>5, <2>1, <2>2
<1>7. ASSUME NEW p \in DOMAIN wire, processTCPPacket(p)
      PROVE  (\A f \in Flows : Whole(f)') /\ \A h \in Hosts : Counted(h)'
  <2>1. UNCHANGED <<unstarted, waitingForArpReply, losses>>
    BY <1>7 DEF processTCPPacket
  <2>2. CASE p.flags = "SYN" /\ sendTCPSYNACK(p)
    <3>1. receivedBytes' = receivedBytes
      BY <2>2 DEF sendTCPSYNACK
    <3>2. \A f \in Flows : Whole(f)' /\ FlowGot(f)' = FlowGot(f)
      BY <1>4, <2>1, <2>2, WholeSyn
    <3>3. QED BY <1>5, <3>1, <3>2
  <2>3. CASE p.flags = "SYN,ACK" /\ establishTCPConnection(p)
    <3>1. receivedBytes' = receivedBytes /\ \A f \in Flows : Whole(f)' /\ FlowGot(f)' = FlowGot(f)
      BY <1>4, <2>1, <2>3, WholeSynAck
    <3>2. QED BY <1>5, <3>1
  <2>4. CASE p.flags = "ACK" /\ handleAcknowledgement(p)
    <3>1. tcpConnections' = tcpConnections /\ receivedBytes' = receivedBytes
      BY <2>4 DEF handleAcknowledgement
    <3> DEFINE none == {}
    <3>2. wire' = Exchanged(p, none)
      BY <2>4 DEF handleAcknowledgement
    <3>3. ASSUME NEW f \in Flows PROVE Whole(f)' /\ FlowGot(f)' = FlowGot(f)
      <4>1. Sender(f)' = Sender(f) /\ FlowGot(f)' = FlowGot(f)
        BY <3>1 DEF Sender, FlowGot, Got
      <4>2. ~Handshake(p, f) /\ ~Payload(p, f) /\ \A q \in none : ~Handshake(q, f) /\ ~Payload(q, f)
        BY <2>4 DEF Handshake, Payload
      <4> HIDE DEF none
      <4>3. QED BY <1>4, <2>1, <3>2, <4>1, <4>2, WholeAside
    <3>4. QED BY <1>5, <3>1, <3>3
  <2>5. CASE p.flags = "PSH" /\ updateACKNumber(p)
    <3>1. /\ receivedBytes' = [receivedBytes EXCEPT ![p.to] = @ + p.len]
          /\ \A f \in Flows : Whole(f)'
          /\ \A f \in Flows : ~Forward(p, f) => FlowGot(f)' = FlowGot(f)
          /\ \E g \in Flows : /\ Forward(p, g)
                              /\ FlowGot(g)' = FlowGot(g) \cup Numbers(p)
                              /\ FlowGot(g) \cap Numbers(p) = {}
      BY <1>4, <2>1, <2>5, WholeData
    <3>2. PICK g \in Flows : /\ Forward(p, g)
                             /\ FlowGot(g)' = FlowGot(g) \cup Numbers(p)
                             /\ FlowGot(g) \cap Numbers(p) = {}
      BY <3>1
    <3>3. \A h \in Hosts : Counted(h)'
      BY <1>4, <3>1, <3>2, DataCounted
    <3>4. QED BY <3>1, <3>3
  <2>6. QED BY <1>7, <2>2, <2>3, <2>4, <2>5 DEF processTCPPacket
<1>8. QED BY <1>2, <1>6, <1>7 DEF Next

LEMMA WholeInit == Init => WholeInv
<1> SUFFICES ASSUME Init PROVE (\A f \in Flows : Whole(f)) /\ \A h \in Hosts : Counted(h)
  BY DEF WholeInv
<1>1. \A h \in Hosts, k \in Keys : tcpConnections[h][k] = None
  BY DEF Init
<1>2. \A f \in Flows : Sender(f) = None /\ FlowGot(f) = {}
  BY <1>1, FlowKeys DEF Sender, FlowGot, Got
<1>3. \A f \in Flows : Whole(f)
  BY <1>2 DEF Whole, None
<1>4. ASSUME NEW h \in Hosts PROVE Counted(h)
  <2> DEFINE flows == FlowsTo(h)
  <2>1. IsFiniteSet(flows) /\ flows \subseteq Flows
    BY FiniteAssumption, FiniteParts DEF FlowsTo
  <2>2. Cardinality({}) = 0
    BY Counting, FiniteParts
  <2>3. \A f \in flows : HowMany[f] = 0
    BY <1>2, <2>1, <2>2 DEF HowMany
  <2>4. SumFunctionOnSet(HowMany, flows) = 0
    BY <2>1, <2>3, SumZero
  <2>5. receivedBytes[h] = 0
    BY DEF Init
  <2>6. QED BY <2>4, <2>5 DEF Counted
<1>5. QED BY <1>3, <1>4

\* If flows share no connection and nothing is lost, then all bytes of all flows
\* have been received once nothing is left to do, each byte once, for any number
\* of flows, payloads and segment size, and in any order of arrival
\* (handleTCP.go:63-84, 176-201): the flows of AllBytesAtRest are all FlowsTo(h).
THEOREM BytesArrive == Spec /\ Separate => []AllBytesAtRest
<1> SUFFICES ASSUME Separate PROVE Spec => []AllBytesAtRest
  BY DEF Separate, Alone
<1>1. ASSUME IInv, FlowsInv, WholeInv, losses = 0, wire = EmptyBag, unstarted = {},
             waitingForArpReply = {}, NEW h \in Hosts
      PROVE  receivedBytes[h] = SumFunctionOnSet(Len, FlowsTo(h))
  <2>1. \A f \in Flows : Payloads(f) = {} /\ Handshakes(f) = {}
    BY <1>1, EmptyIsBag DEF Payloads, Handshakes
  <2>2. ASSUME NEW f \in Flows PROVE Cardinality(FlowGot(f)) = Len[f]
    <3>1. Whole(f) /\ FlowInv(f)
      BY <1>1 DEF WholeInv, FlowsInv, Separate
    <3>2. Open(f)
      BY <1>1, <2>1, <3>1 DEF FlowInv, Idle, Opening, Whole
    <3> DEFINE s == Start(f)
               e == Sender(f).sequenceNumber
    <3>3. FlowGot(f) \subseteq s..(e - 1) /\ s \in Nat /\ s..(e - 1) \subseteq FlowGot(f)
      BY <2>1, <3>1, <3>2, FlowGotIs DEF Open, Whole
    <3>4. e \in Nat /\ s = e - Len[f] /\ Len[f] \in Nat
      <4>1. Sender(f) # None
        BY <3>2 DEF Open, None
      <4>2. QED BY <1>1, <4>1, FlowConnections, FlowKeys DEF IInv, Connection, Start
    <3> HIDE DEF s, e
    <3>5. FlowGot(f) = s..(e - 1)
      BY <3>3
    <3> DEFINE b == e - 1
    <3>6. s \in Int /\ b \in Int /\ s <= b + 1 /\ b - s + 1 = Len[f]
      BY <3>3, <3>4
    <3>7. FlowGot(f) = s..b
      BY <3>5
    <3> HIDE DEF b
    <3>8. Cardinality(s..b) = b - s + 1
      BY <3>6, IntervalCount
    <3>9. QED BY <3>6, <3>7, <3>8
  <2> DEFINE flows == FlowsTo(h)
  <2>3. IsFiniteSet(flows) /\ flows \subseteq Flows
    BY FiniteAssumption, FiniteParts DEF FlowsTo
  <2>4. \A f \in flows : HowMany[f] = Len[f]
    BY <2>2, <2>3 DEF HowMany
  <2>5. receivedBytes[h] = SumFunctionOnSet(HowMany, flows)
    BY <1>1 DEF WholeInv, Counted
  <2> HIDE DEF flows
  <2>6. SumFunctionOnSet(HowMany, flows) = SumFunctionOnSet(Len, flows)
    BY <2>3, <2>4, SumSame
  <2>7. QED BY <2>5, <2>6 DEF flows
<1>2. ASSUME NEW h \in Hosts
      PROVE  \A f, g \in FlowsTo(h) : SenderKey(f) = SenderKey(g) => f = g
  BY DEF Separate, Alone, FlowsTo, SenderKey
<1>3. IInv /\ FlowsInv /\ WholeInv => AllBytesAtRest
  <2> SUFFICES ASSUME IInv, FlowsInv, WholeInv, losses = 0, wire = EmptyBag, unstarted = {},
                      waitingForArpReply = {}, NEW h \in Hosts
               PROVE  \E sent \in SUBSET FlowsTo(h) :
                        /\ \A f \in FlowsTo(h) : \E g \in sent : SenderKey(f) = SenderKey(g)
                        /\ \A f, g \in sent : SenderKey(f) = SenderKey(g) => f = g
                        /\ receivedBytes[h] = SumFunctionOnSet(Len, sent)
    BY DEF AllBytesAtRest
  <2>1. receivedBytes[h] = SumFunctionOnSet(Len, FlowsTo(h))
    BY <1>1
  <2> WITNESS FlowsTo(h) \in SUBSET FlowsTo(h)
  <2>2. QED BY <1>2, <2>1
<1>4. IInv /\ FlowsInv /\ WholeInv /\ [Next]_vars => WholeInv'
  BY WholeStep
<1>5. QED BY <1>3, <1>4, WholeInit, Invariance, FlowsInvariance, PTL DEF Spec
=============================================================================
