----------------------------- MODULE Forwarding -----------------------------
(***************************************************************************)
(* How UDP packets cross switches and routers: nswitch.go learns and       *)
(* floods, router.go answers ARP requests, forwards, and translates        *)
(* addresses, and hosts (handleUDP.go, handleARP.go, main.go) split data   *)
(* and assemble it.  A packet is one object: whoever rewrites its header   *)
(* rewrites the header of all copies of it that a switch has flooded.      *)
(* Ports are decided (SpanningTree) and routing tables complete            *)
(* (LinkState); each direction of a link is Channel.                       *)
(***************************************************************************)
EXTENDS Integers, Sequences, FiniteSets, Bags, BagsExt, TLC

CONSTANTS Hosts, Switches, Routers,
          Links,         \* a link is the set of its two nodes
          ip,            \* ip[i]: the address of interface i
          linkStates,    \* linkStates[s][l]: "forwarding" or not
          routes,        \* routes[r][n]: the links of r's entries for network n
          externalIP,    \* externalIP[r]: NoIp on a router without NAT
          Datagrams,     \* [source, destIp, fragments]: what StartTraffic is called for
          Awaited,       \* Awaited[d]: how much has come to d's source by its start time
          InsideHosts,   \* the hosts behind routers with NAT
          InitialTTL,
          MaxLosses,     \* bound: how many packets the links lose
          NoIp, NoMac

LinksOf(x) == {l \in Links : x \in l}
\* A host has one MAC address, a router one on each of its links.
Interface(x, l) == IF x \in Routers THEN <<x, l>> ELSE <<x>>
Ips == {ip[i] : i \in DOMAIN ip} \cup {d.destIp : d \in Datagrams}

OwnIps(x) == {ip[Interface(x, l)] : l \in LinksOf(x)}

\* A MAC address is a pointer: to the owner's address, or to a copy of it that
\* was made from a payload.  Tables of switches are keyed by the pointer.
MacAddress(i) == [interface |-> i, copy |-> FALSE]
Copy(mac) == [mac EXCEPT !.copy = TRUE]
Broadcast == MacAddress(<<>>)
Mac == [interface : DOMAIN ip \cup {<<>>}, copy : BOOLEAN]

isSameNetwork(a, b) == a.network = b.network
InternalNetworkIP == [network |-> "192.168.0.0/16", host |-> 0]
isInternalIp(a) == isSameNetwork(a, InternalNetworkIP)

Packets == UNION {{[data |-> d, fragment |-> k] : k \in 1 .. d.fragments} : d \in Datagrams}

\* f, but g where g is defined.
Overridden(f, g) == [x \in DOMAIN f \cup DOMAIN g |-> IF x \in DOMAIN g THEN g[x] ELSE f[x]]

VARIABLES wire,             \* the bag of packets on their way over links
          header,           \* header[p]: of each data packet that has been sent
          forwardingTable,  \* of each switch: source MAC -> link
          arpTable, waitingForArpReply,
          natTable,         \* of each router: the inside addresses that are mapped
          started,          \* the datagrams whose StartTraffic event is over
          arrived,          \* of each host: the packets counted, in their order
          fragmentedPackets,
          reassembled,      \* reassembled[d]: how often d was put together
          losses, panicked

vars == <<wire, header, forwardingTable, arpTable, waitingForArpReply, natTable, started,
          arrived, fragmentedPackets, reassembled, losses, panicked>>
arpVars == <<arpTable, waitingForArpReply>>
dataVars == <<arrived, fragmentedPackets, reassembled>>
rest == <<started, losses>>

\* A node is one of the three, links join nodes, interfaces have addresses, routes
\* begin at their router.
ASSUME NetworkAssumption ==
  /\ Hosts \cap Routers = {} /\ Switches \cap (Hosts \cup Routers) = {}
  /\ UNION Links \subseteq Hosts \cup Switches \cup Routers
  /\ \A h \in Hosts : <<h>> \in DOMAIN ip
  /\ \A r \in Routers : \A l \in LinksOf(r) : <<r, l>> \in DOMAIN ip
  /\ \A r \in Routers : \A n \in DOMAIN routes[r] : routes[r][n] \subseteq LinksOf(r)
  /\ InitialTTL \in Nat /\ MaxLosses \in Nat /\ NoIp \notin Ips /\ NoMac \notin Mac
\* The address that stands for the inside is one of the network's, and outside.
ASSUME NatAssumption ==
  \A r \in Routers : externalIP[r] # NoIp => externalIP[r] \in Ips /\ ~isInternalIp(externalIP[r])
ASSUME DatagramAssumption ==
  /\ Awaited \in [Datagrams -> Nat]
  /\ \A d \in Datagrams : d.source \in Hosts /\ d.fragments \in Nat \ {0} /\ d.destIp # ip[<<d.source>>]
\* Each interface is in a network of its own, so that at most one of a router's is in
\* the network that a packet is for.
ASSUME InterfaceAssumption ==
  \A r \in Routers : \A k, l \in LinksOf(r) :
    k # l => ~isSameNetwork(ip[<<r, k>>], ip[<<r, l>>])

Init ==
  /\ wire = EmptyBag
  /\ header = <<>>
  /\ forwardingTable = [s \in Switches |-> <<>>]
  /\ arpTable = [x \in Hosts \cup Routers |-> [a \in Ips |-> NoMac]]
  /\ waitingForArpReply = [x \in Hosts \cup Routers |-> [a \in Ips |-> {}]]
  /\ natTable = [r \in Routers |-> {}]
  /\ started = {}
  /\ arrived = [h \in Hosts |-> <<>>]
  /\ fragmentedPackets = [h \in Hosts |-> {}]
  /\ reassembled = [d \in Datagrams |-> 0]
  /\ losses = 0
  /\ panicked = FALSE

-----------------------------------------------------------------------------
Frame(x, l, p) == [from |-> x, on |-> l, packet |-> p]
\* p is enqueued on each of the links ls of x.
Enqueued(x, ls, p) == SetToBag({Frame(x, l, p) : l \in ls})
Arp(operation, sourceMac, destinationMac, sourceIp, destIp) ==
  [operation |-> operation, sourceMac |-> sourceMac, destinationMac |-> destinationMac,
   sourceIp |-> sourceIp, destIp |-> destIp, lost |-> FALSE]
ArpRequest_swapped(x, l, a) ==
  Arp("request", MacAddress(Interface(x, l)), Broadcast, a, ip[Interface(x, l)])

ArpRequest(x, l, a) ==
  Arp("request", MacAddress(Interface(x, l)), Broadcast, ip[Interface(x, l)], a)

IsArp(p) == "operation" \in DOMAIN p
\* The header of a packet as a node sees it.
HeaderOf(p) == IF IsArp(p) THEN p ELSE header[p]

\* The link marks a packet that it loses.  The mark is on all copies; equal ARP
\* packets may be copies or not.
transferPacket(f) ==
  /\ ~panicked /\ losses < MaxLosses /\ ~HeaderOf(f.packet).lost
  /\ losses' = losses + 1
  /\ IF IsArp(f.packet)
     THEN /\ \E copies \in SUBSET {g \in DOMAIN wire : g.packet = f.packet} :
               /\ f \in copies
               /\ wire' = (wire (-) SetToBag(copies)) (+)
                    SetToBag({Frame(g.from, g.on, [f.packet EXCEPT !.lost = TRUE]) : g \in copies})
          /\ UNCHANGED header
     ELSE /\ header' = [header EXCEPT ![f.packet].lost = TRUE]
          /\ UNCHANGED wire
  /\ UNCHANGED <<forwardingTable, arpVars, natTable, started, dataVars, panicked>>

-----------------------------------------------------------------------------
Learned_destination(s, f) ==
  Overridden(forwardingTable[s], [m \in {HeaderOf(f.packet).destinationMac} |-> f.on])

\* A switch learns where the source is and forwards the packet: on the link
\* of its destination, or, if that is not known, on all others.
Learned(s, f) ==
  Overridden(forwardingTable[s], [m \in {HeaderOf(f.packet).sourceMac} |-> f.on])

forwardPacket(s, f, table) ==
  LET destinationMac == HeaderOf(f.packet).destinationMac
      out == IF destinationMac \in DOMAIN table THEN {table[destinationMac]}
             ELSE LinksOf(s) \ {f.on}
  IN Enqueued(s, {l \in out : linkStates[s][l] = "forwarding"}, f.packet)

SwitchReceivesPacket(s, f) ==
  /\ \/ HeaderOf(f.packet).lost /\ wire' = BagRemove(wire, f) /\ UNCHANGED forwardingTable
     \/ /\ ~HeaderOf(f.packet).lost
        /\ forwardingTable' = [forwardingTable EXCEPT ![s] = Learned(s, f)]
        /\ wire' = BagRemove(wire, f) (+) forwardPacket(s, f, Learned(s, f))
  /\ UNCHANGED <<header, arpVars, natTable, dataVars, rest, panicked>>

-----------------------------------------------------------------------------
\* Hosts.  What waits for an ARP reply at a host is data, which is split when
\* it is sent.
Fragments(D) == {p \in Packets : p.data \in D}
NewHeader(p, destinationMac) ==
  [sourceMac |-> MacAddress(<<p.data.source>>), destinationMac |-> destinationMac,
   sourceIp |-> ip[<<p.data.source>>], destIp |-> p.data.destIp,
   ttl |-> InitialTTL, lost |-> FALSE]

\* Copies of MAC addresses never equal the host's own pointer, so nothing is
\* handed back to the sender (main.go:194).
sendUDPPacket(h, D, destinationMac, base) ==
  /\ header' = Overridden(header, [p \in Fragments(D) |-> NewHeader(p, destinationMac)])
  /\ wire' = base (+) SetToBag({Frame(h, l, p) : l \in LinksOf(h), p \in Fragments(D)})

StartTraffic(d) ==
  LET h == d.source
      destinationMac == arpTable[h][d.destIp]
  IN /\ ~panicked /\ d \notin started
     /\ Len(arrived[h]) >= Awaited[d]
     /\ started' = started \cup {d}
     /\ \/ /\ destinationMac # NoMac
           /\ sendUDPPacket(h, {d}, destinationMac, wire)
           /\ UNCHANGED waitingForArpReply
        \/ /\ destinationMac = NoMac
           /\ wire' = wire (+) SetToBag({Frame(h, l, ArpRequest(h, l, d.destIp)) : l \in LinksOf(h)})
           /\ waitingForArpReply' = [waitingForArpReply EXCEPT ![h][d.destIp] = @ \cup {d}]
           /\ UNCHANGED header
     /\ UNCHANGED <<forwardingTable, arpTable, natTable, dataVars, losses, panicked>>

\* A reply is taken only if it is for the host; its MAC address is a copy.
processARPPacket(h, f) ==
  LET p == f.packet
      taken == BagRemove(wire, f)
      asked == p.operation = "request" /\ p.destIp = ip[<<h>>]
      answered == /\ p.operation = "reply" /\ p.destIp = ip[<<h>>]
                  /\ p.destinationMac.interface = <<h>>
  IN /\ \/ /\ asked
           /\ wire' = taken (+) Enqueued(h, LinksOf(h),
                        Arp("reply", MacAddress(<<h>>), p.sourceMac, ip[<<h>>], p.sourceIp))
           /\ UNCHANGED <<header, arpVars>>
        \/ /\ answered
           /\ arpTable' = [arpTable EXCEPT ![h][p.sourceIp] = Copy(p.sourceMac)]
           /\ sendUDPPacket(h, waitingForArpReply[h][p.sourceIp], Copy(p.sourceMac), taken)
           /\ waitingForArpReply' = [waitingForArpReply EXCEPT ![h][p.sourceIp] = {}]
        \/ /\ ~asked /\ ~answered
           /\ wire' = taken /\ UNCHANGED <<header, arpVars>>
     /\ UNCHANGED <<dataVars, panicked>>

processDataPacket_unchecked(h, p) ==
  LET d == p.data
      last == p.fragment = d.fragments
  IN /\ arrived' = [arrived EXCEPT ![h] = Append(@, p)]
     /\ fragmentedPackets' =
          IF last THEN fragmentedPackets ELSE [fragmentedPackets EXCEPT ![h] = @ \cup {p}]
     /\ reassembled' = IF last THEN [reassembled EXCEPT ![d] = @ + 1] ELSE reassembled

\* A fragment with more to come is stored; the last one is put together with
\* what is there by then, and is not stored itself.
processDataPacket(h, p) ==
  LET d == p.data
      stored == {q \in fragmentedPackets[h] : q.data = d}
      last == p.fragment = d.fragments
  IN /\ arrived' = [arrived EXCEPT ![h] = Append(@, p)]
     /\ fragmentedPackets' =
          IF last THEN fragmentedPackets ELSE [fragmentedPackets EXCEPT ![h] = @ \cup {p}]
     /\ reassembled' =
          IF last /\ Cardinality(stored) = d.fragments - 1
          THEN [reassembled EXCEPT ![d] = @ + 1] ELSE reassembled

processUDPPacket(h, f) ==
  LET g == header[f.packet]
      mine == g.destinationMac # NoMac /\ g.destinationMac.interface = <<h>> /\ g.destIp = ip[<<h>>]
  IN /\ wire' = BagRemove(wire, f)
     /\ panicked' = (g.destinationMac = NoMac)   \* String() of a nil pointer
     /\ IF mine THEN processDataPacket(h, f.packet) ELSE UNCHANGED dataVars
     /\ UNCHANGED <<header, arpVars>>

HostReceivesPacket(h, f) ==
  /\ \/ /\ HeaderOf(f.packet).lost /\ wire' = BagRemove(wire, f)
        /\ UNCHANGED <<header, arpVars, dataVars, panicked>>
     \/ ~HeaderOf(f.packet).lost /\ IsArp(f.packet) /\ processARPPacket(h, f)
     \/ ~HeaderOf(f.packet).lost /\ ~IsArp(f.packet) /\ processUDPPacket(h, f)
  /\ UNCHANGED <<forwardingTable, natTable, rest>>

-----------------------------------------------------------------------------
\* Routers.  The loss mark is not looked at.  ARP packets have no TTL
\* (packet.go:57-60), so they are dropped after they have been handled.
natEnabled(r) == externalIP[r] # NoIp

Inbound_ignored(r, g) == {g}

\* applyNAT "inbound": any inside address that is mapped, if there is one.
Inbound(r, g) ==
  IF natTable[r] = {} THEN {g} ELSE {[g EXCEPT !.destIp = a] : a \in natTable[r]}

Outward(r, g) == natEnabled(r) /\ isInternalIp(g.sourceIp) /\ ~isInternalIp(g.destIp)

Recorded_destination(r, G) == {g.destIp : g \in {h \in G : Outward(r, h)}}

\* applyNAT "outbound" records the inside addresses in the headers G.
Recorded(r, G) == {g.sourceIp : g \in {h \in G : Outward(r, h)}}

Translated_inboundOnly(r, g) ==
  IF natEnabled(r) /\ ~isInternalIp(g.sourceIp) /\ g.destIp = externalIP[r] THEN Inbound(r, g)
  ELSE {g}

\* What NAT may make of header g.
Translated(r, g) ==
  IF Outward(r, g) THEN {[g EXCEPT !.sourceIp = externalIP[r]]}
  ELSE IF natEnabled(r) /\ ~isInternalIp(g.sourceIp) /\ g.destIp = externalIP[r] THEN Inbound(r, g)
  ELSE {g}

getRoute(r, a) == IF a.network \in DOMAIN routes[r] THEN routes[r][a.network] ELSE {}

AddMacHeader_sourceOnly(r, l, g, destinationMac) == [g EXCEPT !.sourceMac = MacAddress(<<r, l>>)]

\* The MAC header for link l of router r.
AddMacHeader(r, l, g, destinationMac) ==
  [g EXCEPT !.sourceMac = MacAddress(<<r, l>>), !.destinationMac = destinationMac]

\* forwardPacket for each packet p with header g[p].  One whose next MAC address
\* is not known waits for the reply to a request of its own.
proceedAndEnqueuePacket(r, g, table, lists, base) ==
  LET Routed == {p \in DOMAIN g : getRoute(r, g[p].destIp) # {}}
  IN \E via \in [Routed -> Links], to \in [Routed -> UNION {Translated(r, g[p]) : p \in Routed}] :
       LET known == {p \in Routed : table[to[p].destIp] # NoMac}
           Out(p) == Frame(r, via[p], IF p \in known THEN p ELSE ArpRequest(r, via[p], to[p].destIp))
           NextHeader(p) == IF p \in known THEN AddMacHeader(r, via[p], to[p], table[to[p].destIp])
                            ELSE to[p]
       IN /\ \A p \in Routed : via[p] \in getRoute(r, g[p].destIp) /\ to[p] \in Translated(r, g[p])
          /\ wire' = base (+) [m \in {Out(p) : p \in Routed} |-> Cardinality({p \in Routed : Out(p) = m})]
          /\ header' = Overridden(Overridden(header, g), [p \in Routed |-> NextHeader(p)])
          /\ waitingForArpReply' = [waitingForArpReply EXCEPT ![r] =
               [a \in Ips |-> lists[a] \cup {p \in Routed \ known : to[p].destIp = a}]]
          /\ natTable' = [natTable EXCEPT ![r] = @ \cup Recorded(r, {g[p] : p \in Routed})]

\* A request is answered whatever address it is for.
onArpRequestPacketReceived(r, f) ==
  LET p == f.packet
  IN /\ wire' = BagRemove(wire, f) (+) Enqueued(r, {f.on},
                  Arp("reply", MacAddress(<<r, f.on>>), p.sourceMac, p.destIp, p.sourceIp))
     /\ UNCHANGED <<header, arpVars, natTable>>

onArpReplyPacketReceived_keepsWaiting(r, f) ==
  LET a == f.packet.sourceIp
      waiting == waitingForArpReply[r]
      table == [arpTable[r] EXCEPT ![a] = f.packet.sourceMac]
  IN /\ arpTable' = [arpTable EXCEPT ![r] = table]
     /\ proceedAndEnqueuePacket(r, [p \in waiting[a] |-> header[p]], table, waiting,
                                BagRemove(wire, f))

onArpReplyPacketReceived_ownMac(r, f) ==
  LET a == f.packet.sourceIp
      waiting == waitingForArpReply[r]
      table == [arpTable[r] EXCEPT ![a] = f.packet.destinationMac]
  IN /\ arpTable' = [arpTable EXCEPT ![r] = table]
     /\ proceedAndEnqueuePacket(r, [p \in waiting[a] |-> header[p]], table,
                                [waiting EXCEPT ![a] = {}], BagRemove(wire, f))

onArpReplyPacketReceived(r, f) ==
  LET a == f.packet.sourceIp
      waiting == waitingForArpReply[r]
      table == [arpTable[r] EXCEPT ![a] = f.packet.sourceMac]
  IN /\ arpTable' = [arpTable EXCEPT ![r] = table]
     /\ proceedAndEnqueuePacket(r, [p \in waiting[a] |-> header[p]], table,
                                [waiting EXCEPT ![a] = {}], BagRemove(wire, f))

DecrementTTL_not(g) == g

DecrementTTL(g) == [g EXCEPT !.ttl = @ - 1]

\* A data packet is forwarded if its TTL and MAC address allow it and it is not
\* for the router, or for the address that stands for the inside.
forwardData(r, f) ==
  LET p == f.packet
      taken == BagRemove(wire, f)
      g == DecrementTTL(header[p])
      bare == [g EXCEPT !.sourceMac = NoMac, !.destinationMac = NoMac]
      matches == /\ g.ttl > 0 /\ g.destinationMac # NoMac
                 /\ g.destinationMac.interface = <<r, f.on>>
      own == g.destIp \in OwnIps(r)
      Forward(h) == 
        proceedAndEnqueuePacket(r, [q \in {p} |-> h], arpTable[r], waitingForArpReply[r], taken)
  IN /\ \/ matches /\ ~own /\ Forward(bare)
        \/ /\ matches /\ own /\ g.destIp = externalIP[r]
           /\ \E h \in Inbound(r, bare) : Forward(h)
        \/ /\ ~matches \/ (own /\ g.destIp # externalIP[r])
           /\ header' = [header EXCEPT ![p] = IF matches THEN bare ELSE g]
           /\ wire' = taken
           /\ UNCHANGED <<waitingForArpReply, natTable>>
     /\ panicked' = (g.ttl > 0 /\ g.destinationMac = NoMac)   \* String() of a nil pointer
     /\ UNCHANGED arpTable

RouterReceivesPacket(r, f) ==
  /\ IF ~IsArp(f.packet) THEN forwardData(r, f)
     ELSE /\ IF f.packet.operation = "request" THEN onArpRequestPacketReceived(r, f)
             ELSE onArpReplyPacketReceived(r, f)
          /\ UNCHANGED panicked
  /\ UNCHANGED <<forwardingTable, dataVars, rest>>

-----------------------------------------------------------------------------
Receives(x, f) ==
  /\ ~panicked /\ x # f.from
  /\ \/ x \in Switches /\ SwitchReceivesPacket(x, f)
     \/ x \in Hosts /\ HostReceivesPacket(x, f)
     \/ x \in Routers /\ RouterReceivesPacket(x, f)

Next == \/ \E d \in Datagrams : StartTraffic(d)
        \/ \E f \in DOMAIN wire : transferPacket(f) \/ \E x \in f.on : Receives(x, f)

Spec == Init /\ [][Next]_vars
FairSpec == Spec /\ WF_vars(Next)

-----------------------------------------------------------------------------
\* Networks of which more can be said than of any network.  Nodes without NAT are
\* inside or outside with all their links, inside hosts have internal addresses
\* and no other hosts do, and what is for an internal address stays inside.
Divided(inner) ==
  /\ \A x \in Switches \cup {r \in Routers : ~natEnabled(r)} :
       LinksOf(x) \subseteq inner \/ LinksOf(x) \cap inner = {}
  /\ \A h \in InsideHosts : isInternalIp(ip[<<h>>]) /\ LinksOf(h) \subseteq inner
  /\ \A h \in Hosts \ InsideHosts : ~isInternalIp(ip[<<h>>]) /\ LinksOf(h) \cap inner = {}
  /\ \A r \in Routers : \A a \in Ips : natEnabled(r) /\ isInternalIp(a) => getRoute(r, a) \subseteq inner

Forwards(x, l) == x \in Switches => linkStates[x][l] = "forwarding"

\* There are no loops of switches: Side[x][l] is what lies on x's side of link l,
\* the interfaces of the stations nearest to it.  Routers are between segments, and
\* have no two links to the same one.
LoopFree(Side) ==
  /\ \A l \in Links : \A x \in l : \E y \in l : x # y /\ l = {x, y}
  /\ \A x \in Hosts \cup Routers : \A l \in LinksOf(x) : Side[x][l] = {Interface(x, l)}
  /\ \A l \in Links : \A x \in l :
       Side[x][l] \subseteq {Interface(y, k) : y \in Hosts \cup Routers, k \in Links}
  /\ \A s \in Switches : \A k, l \in LinksOf(s) : \A y \in k \ {s} :
       k # l /\ Forwards(y, k) /\ Forwards(s, l) => Side[y][k] \subseteq Side[s][l]
  /\ \A l \in Links : \A x \in l : \A y \in l \ {x} : Forwards(x, l) => Side[x][l] \cap Side[y][l] = {}
  /\ \A r \in Routers : \A k, l \in LinksOf(r) : \A y \in k \ {r} :
       Forwards(y, k) => <<r, l>> \notin Side[y][k]

\* Nothing is copied.  Data comes to the switches in Calm from routers without NAT
\* only, so that they have learned where it goes; the other switches have one link to
\* forward on, and hosts and such routers one link to send on.
Uncopied(Side, Calm) ==
  /\ Calm \subseteq Switches
  /\ \A s \in Calm : \A l \in LinksOf(s) : \A x \in l \ {s} :
       \/ x \in Calm
       \/ x \in Routers /\ ~natEnabled(x)
       \/ x \in Hosts /\ \A d \in Datagrams : d.source # x
  /\ \A s \in Switches \ Calm : \A k, l \in LinksOf(s) : k # l /\ Forwards(s, l) =>
       /\ \A j \in LinksOf(s) \ {k} : Forwards(s, j) => j = l
       /\ \A y \in l \ {s} : Side[s][k] \subseteq Side[y][l]
       /\ \A y \in k \ {s} : Side[s][l] \subseteq Side[y][k]
  /\ \A h \in Hosts : \E l \in Links : LinksOf(h) = {l}
  /\ \A r \in Routers : \A a \in Ips : ~natEnabled(r) => \A k, l \in getRoute(r, a) : k = l

\* Near(Side, i, j): interfaces i and j are on the two sides of a link.
Near(Side, i, j) ==
  \E l \in Links : \E x \in l : \E y \in l \ {x} : j \in Side[x][l] /\ i \in Side[y][l]
\* What interface j may ask for: what its router has a route for over it, or what its
\* host has data for.
Asks(j, a) ==
  \/ \E r \in Routers : \E l \in getRoute(r, a) : j = <<r, l>>
  \/ \E d \in Datagrams : j = <<d.source>> /\ d.destIp = a

\* Interfaces near to each other are in one network; routers have one route for an
\* address, and those that are asked for another node's lead on, not back.
Addressed(Side) ==
  /\ \A i, j \in DOMAIN ip : Near(Side, i, j) => isSameNetwork(ip[i], ip[j])
  /\ \A r \in Routers : \A a \in Ips : \A k, l \in getRoute(r, a) : k = l
  /\ \A i, j \in DOMAIN ip : \A a \in Ips \ OwnIps(j[1]) :
       Near(Side, i, j) /\ Asks(j, a) /\ Len(i) = 2 =>
         ip[i] = a \/ (getRoute(i[1], a) # {} /\ i[2] \notin getRoute(i[1], a))

\* One router has NAT, its outside address is its own, and what is sent to it answers
\* what came from inside.
OnlyAnswers ==
  \A r \in Routers : natEnabled(r) =>
    /\ \A q \in Routers : natEnabled(q) => q = r
    /\ externalIP[r] \in OwnIps(r)
    /\ \A d \in Datagrams : d.destIp = externalIP[r] =>
         /\ Awaited[d] > 0 /\ d.source \notin InsideHosts
         /\ \A e \in Datagrams : e.destIp = ip[<<d.source>>] => e.source \in InsideHosts

-----------------------------------------------------------------------------
Fragment == [data : Datagrams, fragment : Nat]
Header == [sourceMac : Mac \cup {NoMac}, destinationMac : Mac \cup {NoMac},
           sourceIp : Ips, destIp : Ips, ttl : Int, lost : BOOLEAN]
ArpPacket == [operation : {"request", "reply"}, sourceMac : Mac, destinationMac : Mac,
              sourceIp : Ips, destIp : Ips, lost : BOOLEAN]

\* Tables, lists and headers are well formed; what is on a link was put there
\* by one of its nodes, and TTLs do not grow.
TypeOK ==
  /\ IsABag(wire)
  /\ \A f \in DOMAIN wire :
       f.on \in Links /\ f.from \in f.on /\ f.packet \in DOMAIN header \cup ArpPacket
  /\ DOMAIN header \subseteq Packets
  /\ \A p \in DOMAIN header : header[p] \in Header /\ header[p].ttl <= InitialTTL
  /\ DOMAIN forwardingTable = Switches
  /\ \A s \in Switches : \A m \in DOMAIN forwardingTable[s] :
       m \in Mac \cup {NoMac} /\ forwardingTable[s][m] \in LinksOf(s)
  /\ arpTable \in [Hosts \cup Routers -> [Ips -> Mac \cup {NoMac}]]
  /\ waitingForArpReply \in [Hosts \cup Routers -> [Ips -> SUBSET (started \cup DOMAIN header)]]
  /\ \A a \in Ips : /\ \A h \in Hosts : waitingForArpReply[h][a] \subseteq started
                    /\ \A r \in Routers : waitingForArpReply[r][a] \subseteq DOMAIN header
  /\ natTable \in [Routers -> SUBSET Ips]
  /\ started \subseteq Datagrams /\ losses \in 0 .. MaxLosses /\ panicked \in BOOLEAN
  /\ arrived \in [Hosts -> Seq(DOMAIN header)]
  /\ fragmentedPackets \in [Hosts -> SUBSET DOMAIN header]
  /\ reassembled \in [Datagrams -> Nat]

\* The whole network keeps what Internet promises.
Carried == {f.packet : f \in DOMAIN wire} \cup UNION {waitingForArpReply[r][a] : r \in Routers, a \in Ips}
Counted == UNION {{arrived[h][k] : k \in DOMAIN arrived[h]} : h \in Hosts}
Home == [p \in Packets |->
           {h \in Hosts : \/ ip[<<h>>] = p.data.destIp
                          \/ /\ p.data.destIp \in {externalIP[r] : r \in Routers}
                             /\ h \in InsideHosts}]
Service == INSTANCE Internet WITH
  sent <- DOMAIN header, inTransit <- (DOMAIN header \cap Carried) \ Counted, arrived <- arrived
InternetService == Service!Spec

\* What a switch has learned leads on: the station is at the other end of the
\* link, or the switch there has learned it, and not on the same link.
SwitchesAgree ==
  \A s \in Switches : \A m \in DOMAIN forwardingTable[s] : \A x \in forwardingTable[s][m] \ {s} :
    IF x \in Switches
    THEN m \in DOMAIN forwardingTable[x] /\ forwardingTable[x][m] # forwardingTable[s][m]
    ELSE m = MacAddress(Interface(x, forwardingTable[s][m]))

\* The MAC address known for a foreign address is that of the address or of a
\* router that sends on what is for it, and not back over the same link.
ArpLeadsOn ==
  \A x \in Hosts \cup Routers : \A a \in Ips \ OwnIps(x) :
    LET i == arpTable[x][a].interface
    IN \/ arpTable[x][a] = NoMac
       \/ ip[i] = a
       \/ Len(i) = 2 /\ getRoute(i[1], a) # {} /\ i[2] \notin getRoute(i[1], a)

\* A packet that comes to a station has a destination of that station's network
\* in its MAC header: headers are replaced between segments (router.go:297).
MacsOfThisSegment ==
  \A f \in DOMAIN wire : \A x \in (Hosts \cup Routers) \cap (f.on \ {f.from}) :
    ~IsArp(f.packet) =>
      LET destinationMac == header[f.packet].destinationMac
      IN destinationMac # NoMac /\ isSameNetwork(ip[destinationMac.interface], ip[Interface(x, f.on)])

\* As long as nothing is lost, an answer or a question is under way for whatever
\* waits for another node's address.
NobodyWaitsInVain ==
  losses = 0 =>
    \A x \in Hosts \cup Routers : \A a \in Ips \ OwnIps(x) :
      waitingForArpReply[x][a] # {} =>
        \E f \in DOMAIN wire : /\ IsArp(f.packet)
                               /\ \/ /\ f.packet.operation = "request" /\ f.packet.destIp = a
                                     /\ f.packet.sourceIp \in OwnIps(x)
                                  \/ /\ f.packet.operation = "reply" /\ f.packet.sourceIp = a
                                     /\ f.packet.destIp \in OwnIps(x)

\* What comes from inside shows a router's outside address when it arrives
\* outside, and that router remembers whom it stands for.
NatHidesInside ==
  \A h \in Hosts \ InsideHosts : \A k \in DOMAIN arrived[h] :
    LET p == arrived[h][k]
    IN p.data.source \in InsideHosts =>
         \E r \in Routers : /\ natEnabled(r) /\ header[p].sourceIp = externalIP[r]
                            /\ ip[<<p.data.source>>] \in natTable[r]

\* A packet that has come from behind NAT shows the outside address of a router
\* exactly if its sender is in the network 192.168.0.0/16 itself: one in a smaller
\* network of that range is seen as it is (router.go:393), whatever ways packets take.
HiddenExactlyIfInternal ==
  \A h \in Hosts \ InsideHosts : \A k \in DOMAIN arrived[h] :
    LET p == arrived[h][k]
        source == ip[<<p.data.source>>]
    IN /\ header[p].sourceIp # source => isInternalIp(source)
       /\ isInternalIp(source) => header[p].sourceIp \in {externalIP[r] : r \in Routers}

\* NAT rewrites consistently: an address in a header, or of the host where the
\* packet has arrived, is what it was sent with, or a router's outside address
\* stands for an inside address that this router has recorded.
StandsFor(outside, inside) ==
  \E r \in Routers : natEnabled(r) /\ outside = externalIP[r] /\ inside \in natTable[r]
TranslationsAreRecorded ==
  /\ \A p \in DOMAIN header :
       LET source == ip[<<p.data.source>>]
       IN /\ header[p].sourceIp = source \/ StandsFor(header[p].sourceIp, source)
          /\ header[p].destIp = p.data.destIp \/ StandsFor(p.data.destIp, header[p].destIp)
  /\ \A h \in Hosts : \A k \in DOMAIN arrived[h] :
       LET d == arrived[h][k].data
       IN d.destIp = ip[<<h>>] \/ StandsFor(d.destIp, ip[<<h>>])

\* Data is put together, once, exactly if all of it has arrived and its last
\* fragment came last.
Places(d, h) == {k \in DOMAIN arrived[h] : arrived[h][k].data = d}
LastCameLast(d, h) ==
  \E k \in Places(d, h) : arrived[h][k].fragment = d.fragments /\ \A j \in Places(d, h) : j <= k
AssembledIfLastCameLast ==
  \A d \in Datagrams :
    reassembled[d] = Cardinality({h \in Hosts : Cardinality(Places(d, h)) = d.fragments /\ LastCameLast(d, h)})

\* If nothing is lost, all that is sent to a host's address arrives, and so does
\* what is sent to a router's outside address in answer to what came from there.
Promised == {d \in Datagrams : \/ \E h \in Hosts : ip[<<h>>] = d.destIp
                               \/ Awaited[d] > 0 /\ \E r \in Routers : d.destIp = externalIP[r]}
AllArrive == <>(losses > 0 \/ Fragments(Promised) \subseteq Counted)

\* Traffic comes to an end, although a packet may be sent back where it came from
\* by a route that leads the wrong way (router.go:272), or because it was routed by the
\* outside address and nothing stands behind that yet (router.go:305): only the TTL
\* ends that.
ComesToRest == <>[](wire = EmptyBag)
=============================================================================
