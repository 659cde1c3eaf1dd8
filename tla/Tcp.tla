-------------------------------- MODULE Tcp --------------------------------
(***************************************************************************)
(* TCP between hosts: src/node/host/startTCP.go, handleTCP.go and          *)
(* tcpHelper.go.  A host stands for its IP and MAC address; when ARP knows *)
(* the MAC is left open, as LanTraffic models how it is found.  The        *)
(* network is Channel: a segment is lost or arrives once, in any order.    *)
(* Payloads are their lengths, and a segment fits the MTU, so that         *)
(* fragmentAndSendTCP sends it in one piece.  No FIN is ever sent, and     *)
(* windows[] stays 0, so nothing holds data back.                          *)
(***************************************************************************)
EXTENDS Integers, FiniteSets, FiniteSetsExt, Functions, Bags, BagsExt

CONSTANTS Hosts, Ports,
          Flows,          \* a flow is one StartTraffic with protocol "TCP"
          From, To, SrcPort, DstPort,   \* of each flow
          Len,            \* the payload size of each flow
          SegmentSize,    \* mtu - 40
          Isns,           \* 1 + rand.Intn(10000)
          MaxLost         \* bound: how many segments the links lose

ASSUME FlowsAssumption ==
  /\ From \in [Flows -> Hosts] /\ To \in [Flows -> Hosts] /\ \A f \in Flows : From[f] # To[f]
  /\ SrcPort \in [Flows -> Ports] /\ DstPort \in [Flows -> Ports]
  /\ Len \in [Flows -> Nat \ {0}]
ASSUME SegmentAssumption == SegmentSize \in Nat \ {0}
ASSUME IsnsAssumption == Isns \subseteq Nat \ {0} /\ Isns # {}
ASSUME BoundAssumption == MaxLost \in Nat
ASSUME FiniteAssumption == IsFiniteSet(Flows)

VARIABLES tcpConnections,   \* tcpConnections[h][k], k a tcpConnectionKey
          unstarted,        \* flows whose traffic event is still scheduled
          waitingForArpReply,
          receivedBytes,    \* of each host
          wire,             \* segments in flight
          losses,           \* how many have been lost
          panicked

vars == <<tcpConnections, unstarted, waitingForArpReply, receivedBytes, wire, losses, panicked>>

Keys == Hosts \X Ports     \* destinationIP, destinationPort
None == [TCPConnectionState |-> "none"]

Connection ==
  [data : Nat,                           \* what is left to send
   TCPConnectionState : {"CLOSED", "SYN_RECEIVED", "ESTABLISHED"},
   sequenceNumber : Nat,
   receivedSequenceNumbers : SUBSET Nat,
   acknowledgementNumber : Nat]

Segment ==
  [flags : {"SYN", "SYN,ACK", "ACK", "PSH"}, from : Hosts, to : Hosts, sp : Ports, dp : Ports,
   seq : Nat, ack : Nat, len : Nat]

Sent(ps) == wire (+) SetToBag(ps)
Exchanged(p, ps) == BagRemove(wire, p) (+) SetToBag(ps)

initiateConnectionInfo(data, state, seq, ack) ==
  [data |-> data, TCPConnectionState |-> state, sequenceNumber |-> seq,
   receivedSequenceNumbers |-> {}, acknowledgementNumber |-> ack]

initiateTCPHandshake(f, conn) ==
  [flags |-> "SYN", from |-> From[f], to |-> To[f], sp |-> SrcPort[f], dp |-> DstPort[f],
   seq |-> conn.sequenceNumber, ack |-> conn.acknowledgementNumber, len |-> 0]

\* Sent back to where the segment p came from.
sendTCPPacket(p, flags, seq, ack, len) ==
  [flags |-> flags, from |-> p.to, to |-> p.from, sp |-> p.dp, dp |-> p.sp,
   seq |-> seq, ack |-> ack, len |-> len]

Init ==
  /\ tcpConnections = [h \in Hosts |-> [k \in Keys |-> None]]
  /\ unstarted = Flows
  /\ waitingForArpReply = {}
  /\ receivedBytes = [h \in Hosts |-> 0]
  /\ wire = EmptyBag
  /\ losses = 0
  /\ panicked = FALSE

-----------------------------------------------------------------------------
\* Called by the traffic event, and again when ARP knows the address: only the
\* first call finds no connection, unless another flow has the same key.
startTCPConnectionAndSendPacket(f) ==
  LET h == From[f]
      k == <<To[f], DstPort[f]>>
  IN /\ f \in unstarted \cup waitingForArpReply /\ ~panicked
     /\ unstarted' = unstarted \ {f}
     /\ \/ tcpConnections[h][k] # None /\ UNCHANGED tcpConnections
        \/ /\ tcpConnections[h][k] = None
           /\ \E i \in Isns : tcpConnections' = [tcpConnections EXCEPT
                ![h][k] = initiateConnectionInfo(Len[f], "CLOSED", i, 0)]
     /\ LET conn == tcpConnections'[h][k]
        IN \/ /\ f \in unstarted    \* the MAC address is not known yet
              /\ waitingForArpReply' = waitingForArpReply \cup {f}
              /\ UNCHANGED wire
           \/ /\ waitingForArpReply' = waitingForArpReply \ {f}
              /\ wire' = IF conn.TCPConnectionState = "ESTABLISHED" THEN wire
                         ELSE Sent({initiateTCPHandshake(f, conn)})
     /\ UNCHANGED <<receivedBytes, losses, panicked>>

createTCPConnectionKeyFromPacket_ownPort(p) == <<p.from, p.dp>>
createTCPConnectionKeyFromPacket(p) == <<p.from, p.sp>>

\* A SYN.  A connection that exists keeps its numbers; the answer has new ones.
sendTCPSYNACK_ackSeq(p) ==
  LET k == createTCPConnectionKeyFromPacket(p)
  IN \E i \in Isns :
       /\ tcpConnections' = IF tcpConnections[p.to][k] # None THEN tcpConnections
            ELSE [tcpConnections EXCEPT
                    ![p.to][k] = initiateConnectionInfo(0, "SYN_RECEIVED", i, p.seq)]
       /\ wire' = Exchanged(p, {sendTCPPacket(p, "SYN,ACK", i, p.seq, 0)})
       /\ UNCHANGED <<receivedBytes, panicked>>

sendTCPSYNACK(p) ==
  LET k == createTCPConnectionKeyFromPacket(p)
  IN \E i \in Isns :
       /\ tcpConnections' = IF tcpConnections[p.to][k] # None THEN tcpConnections
            ELSE [tcpConnections EXCEPT
                    ![p.to][k] = initiateConnectionInfo(0, "SYN_RECEIVED", i, p.seq + 1)]
       /\ wire' = Exchanged(p, {sendTCPPacket(p, "SYN,ACK", i, p.seq + 1, 0)})
       /\ UNCHANGED <<receivedBytes, panicked>>

\* The segments of data bytes from number seq on: all of them, at once.
sendTCPDataPacket_dropsTail(p, seq, ack, data) ==
  {sendTCPPacket(p, "PSH", seq + n * SegmentSize, ack, SegmentSize) :
     n \in 0..((data \div SegmentSize) - 1)}

sendTCPDataPacket(p, seq, ack, data) ==
  {sendTCPPacket(p, "PSH", seq + n * SegmentSize, ack,
                 Min({SegmentSize, data - n * SegmentSize})) :
     n \in {n \in 0..data : n * SegmentSize < data}}

\* A SYN,ACK, long before the connection's endTime: the connection is established, acknowledged, and its data is sent.
establishTCPConnection(p) ==
  LET h == p.to
      k == createTCPConnectionKeyFromPacket(p)
      conn == tcpConnections[h][k]
      seq == conn.sequenceNumber + 1
      ack == p.seq + 1
  IN /\ panicked' = (conn = None)
     /\ IF conn = None THEN UNCHANGED <<tcpConnections, wire>>
        ELSE /\ tcpConnections' = [tcpConnections EXCEPT ![h][k] =
                  [@ EXCEPT !.TCPConnectionState = "ESTABLISHED", !.acknowledgementNumber = ack,
                            !.sequenceNumber = seq + conn.data, !.data = 0]]
             /\ wire' = Exchanged(p, {sendTCPPacket(p, "ACK", seq, ack, 0)}
                                     \cup sendTCPDataPacket(p, seq, ack, conn.data))
     /\ UNCHANGED receivedBytes

\* The first number from ack on that is not in received.
nextExpectedSeq_lastOnly(ack, received) == IF ack \in received THEN ack + 1 ELSE ack

nextExpectedSeq(ack, received) ==
  CHOOSE n \in {ack} \cup {m + 1 : m \in received} :
    n >= ack /\ n \notin received /\ ack..(n - 1) \subseteq received

\* Data: updateACKNumber, sendTCPACK and processDataPacket.
updateACKNumber(p) ==
  LET h == p.to
      k == createTCPConnectionKeyFromPacket(p)
      conn == tcpConnections[h][k]
      received == conn.receivedSequenceNumbers \cup (p.seq..(p.seq + p.len - 1))
      ack == nextExpectedSeq(conn.acknowledgementNumber, received)
  IN /\ panicked' = (conn = None)
     /\ IF conn = None THEN UNCHANGED <<tcpConnections, receivedBytes, wire>>
        ELSE /\ tcpConnections' = [tcpConnections EXCEPT ![h][k] =
                  [@ EXCEPT !.receivedSequenceNumbers = received, !.acknowledgementNumber = ack]]
             /\ receivedBytes' = [receivedBytes EXCEPT ![h] = @ + p.len]
             /\ wire' = Exchanged(p, {sendTCPPacket(p, "ACK", conn.sequenceNumber, ack, 0)})

\* An ACK sets windows[] to 0, which it was.
handleAcknowledgement(p) ==
  wire' = Exchanged(p, {}) /\ UNCHANGED <<tcpConnections, receivedBytes, panicked>>

processTCPPacket(p) ==
  /\ ~panicked
  /\ \/ p.flags = "SYN" /\ sendTCPSYNACK(p)
     \/ p.flags = "SYN,ACK" /\ establishTCPConnection(p)
     \/ p.flags = "ACK" /\ handleAcknowledgement(p)
     \/ p.flags = "PSH" /\ updateACKNumber(p)
  /\ UNCHANGED <<unstarted, waitingForArpReply, losses>>

lost(p) ==
  /\ losses < MaxLost /\ ~panicked
  /\ losses' = losses + 1
  /\ wire' = Exchanged(p, {})
  /\ UNCHANGED <<tcpConnections, unstarted, waitingForArpReply, receivedBytes, panicked>>

Next ==
  \/ \E f \in Flows : startTCPConnectionAndSendPacket(f)
  \/ \E p \in DOMAIN wire : processTCPPacket(p) \/ lost(p)

Spec == Init /\ [][Next]_vars
\* The scheduler runs on while an event is scheduled.
FairSpec == Spec /\ WF_vars(Next)

-----------------------------------------------------------------------------
\* Connections and segments are well formed.
TypeOK ==
  /\ tcpConnections \in [Hosts -> [Keys -> Connection \cup {None}]]
  /\ unstarted \subseteq Flows /\ waitingForArpReply \subseteq Flows \ unstarted
  /\ receivedBytes \in [Hosts -> Nat]
  /\ IsABag(wire) /\ DOMAIN wire \subseteq Segment
  /\ losses \in Nat
  /\ panicked \in BOOLEAN

Sender(f) == tcpConnections[From[f]][<<To[f], DstPort[f]>>]
Receiver(f) == tcpConnections[To[f]][<<From[f], SrcPort[f]>>]
\* Flows that share a key share a connection.
Alone(f) == \A g \in Flows \ {f} :
  /\ <<From[f], To[f], DstPort[f]>> # <<From[g], To[g], DstPort[g]>>
  /\ <<From[f], To[f], SrcPort[f]>> # <<From[g], To[g], SrcPort[g]>>
  /\ <<From[f], To[f], DstPort[f]>> # <<To[g], From[g], SrcPort[g]>>
  /\ <<To[f], From[f], SrcPort[f]>> # <<From[g], To[g], DstPort[g]>>

\* No handler looks for a connection that is not there: data and SYN,ACKs reach
\* hosts that have registered one, in whatever order segments arrive.
ConnectionIsThere == ~panicked

\* The receiver acknowledges what it has received without a gap, no less and no
\* more, and never what the sender has not sent, however segments overtake each
\* other (handleTCP.go:23, 137-162).
AcknowledgesExactly ==
  \A f \in Flows : Alone(f) /\ Sender(f).TCPConnectionState = "ESTABLISHED" =>
    LET start == Sender(f).sequenceNumber - Len[f]
        ack == Receiver(f).acknowledgementNumber
    IN /\ Receiver(f) # None
       /\ start <= ack /\ ack <= Sender(f).sequenceNumber
       /\ start..(ack - 1) \subseteq Receiver(f).receivedSequenceNumbers
       /\ ack \notin Receiver(f).receivedSequenceNumbers

\* What a host acknowledges never shrinks.
AcksNeverRetreat ==
  [][\A f \in Flows : Alone(f) /\ Receiver(f) # None =>
       Receiver(f)'.acknowledgementNumber >= Receiver(f).acknowledgementNumber]_vars

\* handleTCP.go:189: once a connection is established its data is sent, and the data
\* is that of the flow that registered the connection (startTCP.go:13); a flow that
\* shares the key never sends its own.  So without loss, when nothing is left to do,
\* each host has received all bytes of one flow for each connection, and each byte
\* once, however the flows' handshakes cross.
FlowsTo(h) == {f \in Flows : To[f] = h}
SenderKey(f) == <<From[f], To[f], DstPort[f]>>
AllBytesAtRest ==
  losses = 0 /\ wire = EmptyBag /\ unstarted = {} /\ waitingForArpReply = {} =>
    \A h \in Hosts : \E sent \in SUBSET FlowsTo(h) :
      /\ \A f \in FlowsTo(h) : \E g \in sent : SenderKey(f) = SenderKey(g)
      /\ \A f, g \in sent : SenderKey(f) = SenderKey(g) => f = g
      /\ receivedBytes[h] = SumFunctionOnSet(Len, sent)

\* Unless a segment is lost, every byte of every flow that shares no connection is
\* acknowledged in the end.
Acknowledged(f) == /\ Sender(f) # None /\ Receiver(f) # None
                   /\ Sender(f).TCPConnectionState = "ESTABLISHED"
                   /\ Receiver(f).acknowledgementNumber = Sender(f).sequenceNumber
AllAcknowledged == <>(losses > 0 \/ \A f \in Flows : Alone(f) => Acknowledged(f))
=============================================================================
