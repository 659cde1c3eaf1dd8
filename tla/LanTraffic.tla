----------------------------- MODULE LanTraffic -----------------------------
(***************************************************************************)
(* Hosts of one LAN, which has a DHCP and a DNS server and no router (one  *)
(* would answer every ARP request): how a host gets its address            *)
(* (handleDHCP.go, dhcpserver.go), finds the address of a name             *)
(* (handleDNS.go, dnsserver.go), the MAC of an address (handleARP.go) and  *)
(* sends UDP traffic (main.go, handleUDP.go). The LAN is Channel: every    *)
(* packet is lost or arrives once, in any order. A node is its MAC; a      *)
(* broadcast is a copy for each node that may act on it. A traffic job's   *)
(* payload is one packet: fragmentation is left out.                       *)
(***************************************************************************)
EXTENDS Integers, FiniteSets, FiniteSetsExt, Bags, BagsExt

CONSTANTS Hosts,
          StaticIp,      \* StaticIp[h]: the address given to NewHost, Unset for a network address
          Pool,          \* the addresses in startCIDR
          Reserved,      \* those passed to ReserveIP
          DnsIp,         \* the DNS server's address, which DHCP hands out
          DefaultDnsIp,  \* the address NewHost puts into dnsServerIp
          Records,       \* AddDNSRecord: url -> address
          Jobs, JobHost, JobUrl,   \* StartTraffic(JobUrl[j], ...) of JobHost[j]
          EarlyJobs,     \* jobs whose start time may come before the host's address
          Lossy,         \* links may lose packets
          Unset          \* a network address: every host without an address has this one

Urls == DOMAIN Records
Static == {StaticIp[h] : h \in Hosts} \ {Unset}
\* A destination is a url or, in CIDR form, an address.
Destinations == {JobUrl[j] : j \in Jobs} \ Urls
Addresses == Pool \cup Static \cup {DnsIp} \cup {Records[u] : u \in Urls} \cup Destinations

NoIp == "no address"
NoMac == "nil"

ASSUME StaticAssumption == StaticIp \in [Hosts -> Addresses \cup {Unset}] /\ Unset \notin Addresses
ASSUME DistinctAssumption ==
  /\ DnsIp \notin Static
  /\ \A h, g \in Hosts : h # g /\ StaticIp[h] # Unset => StaticIp[h] # StaticIp[g]
\* What a configuration with a DHCP server has to do, as e2e/dhcp_test.go does it.
ASSUME ReservedAssumption == (Static \cup {DnsIp}) \cap Pool \subseteq Reserved
ASSUME JobsAssumption ==
  /\ JobHost \in [Jobs -> Hosts]
  /\ EarlyJobs \subseteq Jobs /\ Lossy \in BOOLEAN
  /\ \A a \in Addresses : a \notin Urls
  /\ DnsIp \notin Destinations \cup {Records[u] : u \in Urls}   \* no traffic to the server

ASSUME NilAssumption == NoIp \notin Addresses /\ NoMac \notin Hosts
ASSUME FiniteAssumption == IsFiniteSet(Hosts) /\ IsFiniteSet(Pool)

VARIABLES ip, dnsServerIp,          \* of each host
          ipPoolUsed,               \* the keys of ipPoolUsedMap that are true
          undiscovered,             \* hosts whose DISCOVER is still scheduled
          urlToIpMapping, waitingForDNSReply, arpTable, waitingForArpReply,
          unstarted,                \* jobs whose StartTraffic event is still scheduled
          traffic,                  \* the events of setTraffic that are scheduled
          arrived,                  \* arrived[j]: how often j's payload was processed
          wire,                     \* packets in flight
          panicked

vars == <<ip, dnsServerIp, ipPoolUsed, undiscovered, urlToIpMapping, waitingForDNSReply,
          arpTable, waitingForArpReply, unstarted, traffic, arrived, wire, panicked>>
dhcpVars == <<ip, dnsServerIp, ipPoolUsed, undiscovered>>
dnsVars == <<urlToIpMapping, waitingForDNSReply>>
arpVars == <<arpTable, waitingForArpReply>>
jobVars == <<unstarted, traffic, arrived>>

Message ==
  [type : {"DISCOVER"}, from : Hosts]
  \cup [type : {"OFFER", "ACK"}, to : Hosts, ip : Addresses]
  \cup [type : {"REQUEST"}, from : Hosts, ip : Addresses]
  \cup [type : {"QUERY"}, from : Hosts, dnsIp : {DnsIp, DefaultDnsIp}, url : Urls]
  \cup [type : {"ANSWER"}, to : Hosts, url : Urls, ip : Addresses]
  \cup [type : {"ARP REQUEST"}, to : Hosts, from : Hosts, sourceIp : Addresses \cup {Unset},
        ip : Addresses]
  \cup [type : {"ARP REPLY"}, to : Hosts, destIp : Addresses \cup {Unset}, ip : Addresses,
        mac : Hosts]
  \cup [type : {"DATA"}, to : Hosts, ip : Addresses, job : Jobs]

\* Whoever waits is served in one step, so the order of a list does not matter.
IsWaitingList(b) == IsABag(b) /\ DOMAIN b \subseteq Jobs

InFlight(type) == {p \in DOMAIN wire : p.type = type}
\* The wire once p has been taken and the packets ps have been sent.
Exchanged(p, ps) == BagRemove(wire, p) (+) SetToBag(ps)
Sent(ps) == wire (+) SetToBag(ps)

\* NewHost, with scheduleDHCPPacket; ReserveIP; AddDNSRecord.
Init ==
  /\ ip = StaticIp
  /\ dnsServerIp = [h \in Hosts |-> DefaultDnsIp]
  /\ ipPoolUsed = Reserved \cap Pool
  /\ undiscovered = {h \in Hosts : StaticIp[h] = Unset}
  /\ urlToIpMapping = [h \in Hosts |-> [u \in Urls |-> NoIp]]
  /\ waitingForDNSReply = [h \in Hosts |-> [u \in Urls |-> EmptyBag]]
  /\ arpTable = [h \in Hosts |-> [a \in Addresses |-> NoMac]]
  /\ waitingForArpReply = [h \in Hosts |-> [a \in Addresses |-> EmptyBag]]
  /\ unstarted = Jobs
  /\ traffic = EmptyBag
  /\ arrived = [j \in Jobs |-> 0]
  /\ wire = EmptyBag
  /\ panicked = FALSE

-----------------------------------------------------------------------------
\* DHCP.
sendDHCPDiscover(h) ==
  /\ h \in undiscovered /\ ~panicked
  /\ undiscovered' = undiscovered \ {h}
  /\ wire' = Sent({[type |-> "DISCOVER", from |-> h]})
  /\ UNCHANGED <<ip, dnsServerIp, ipPoolUsed, dnsVars, arpVars, jobVars, panicked>>

\* getAvailableIp ranges over a map: any unused address.
handleDHCPDiscover_notMarked(p) ==
  /\ \E a \in Pool \ ipPoolUsed :
       wire' = Exchanged(p, {[type |-> "OFFER", to |-> p.from, ip |-> a]})
  /\ UNCHANGED <<ipPoolUsed, panicked>>

handleDHCPDiscover(p) ==
  \/ /\ \E a \in Pool \ ipPoolUsed :
          /\ ipPoolUsed' = ipPoolUsed \cup {a}
          /\ wire' = Exchanged(p, {[type |-> "OFFER", to |-> p.from, ip |-> a]})
     /\ UNCHANGED panicked
  \/ /\ Pool \subseteq ipPoolUsed
     /\ panicked' = TRUE
     /\ UNCHANGED <<ipPoolUsed, wire>>

\* The address asked for is not looked up in the pool again.
handleDHCPRequest_anotherAddress(p) ==
  \/ /\ \E a \in Pool \ ipPoolUsed :
          /\ ipPoolUsed' = ipPoolUsed \cup {a}
          /\ wire' = Exchanged(p, {[type |-> "ACK", to |-> p.from, ip |-> a]})
     /\ UNCHANGED panicked
  \/ /\ Pool \subseteq ipPoolUsed
     /\ panicked' = TRUE
     /\ UNCHANGED <<ipPoolUsed, wire>>

handleDHCPRequest(p) ==
  /\ wire' = Exchanged(p, {[type |-> "ACK", to |-> p.from, ip |-> p.ip]})
  /\ UNCHANGED <<ipPoolUsed, panicked>>

DhcpServerReceives(p) ==
  /\ \/ p.type = "DISCOVER" /\ handleDHCPDiscover(p)
     \/ p.type = "REQUEST" /\ handleDHCPRequest(p)
  /\ UNCHANGED <<ip, dnsServerIp, undiscovered, dnsVars, arpVars, jobVars>>

processDHCPPacket(p) ==
  /\ \/ /\ p.type = "OFFER"
        /\ wire' = Exchanged(p, {[type |-> "REQUEST", from |-> p.to, ip |-> p.ip]})
        /\ UNCHANGED <<ip, dnsServerIp>>
     \/ /\ p.type = "ACK"
        /\ ip' = [ip EXCEPT ![p.to] = p.ip]
        /\ dnsServerIp' = [dnsServerIp EXCEPT ![p.to] = DnsIp]
        /\ wire' = Exchanged(p, {})
  /\ UNCHANGED <<ipPoolUsed, undiscovered, dnsVars, arpVars, jobVars, panicked>>

-----------------------------------------------------------------------------
\* The start of a job, and DNS.
resolveDestinationIp(h, u) == IF u \in Urls THEN urlToIpMapping[h][u] ELSE u

attemptToStartTraffic(j) ==
  LET h == JobHost[j]
      u == JobUrl[j]
      a == resolveDestinationIp(h, u)
  IN /\ j \in unstarted /\ ~panicked
     /\ j \in EarlyJobs \/ ip[h] # Unset
     /\ unstarted' = unstarted \ {j}
     /\ \/ /\ a # NoIp
           /\ traffic' = traffic (+) SetToBag({[job |-> j, ip |-> a]})
           /\ UNCHANGED <<waitingForDNSReply, wire>>
        \/ /\ a = NoIp
           /\ waitingForDNSReply' = [waitingForDNSReply EXCEPT ![h][u] = @ (+) SetToBag({j})]
           /\ wire' = Sent({[type |-> "QUERY", from |-> h, dnsIp |-> dnsServerIp[h], url |-> u]})
           /\ UNCHANGED traffic
     /\ UNCHANGED <<dhcpVars, urlToIpMapping, arpVars, arrived, panicked>>

\* Every url of a job has a record here; handleDNSQuery panics for any other.
handleDNSQuery(p) ==
  /\ p.type = "QUERY"
  /\ wire' = Exchanged(p, IF p.dnsIp # DnsIp THEN {}
                          ELSE {[type |-> "ANSWER", to |-> p.from, url |-> p.url,
                                 ip |-> Records[p.url]]})
  /\ UNCHANGED <<dhcpVars, dnsVars, arpVars, jobVars, panicked>>

\* The waiting jobs b, scheduled for the address a.
Scheduled(b, a) == [e \in {[job |-> j, ip |-> a] : j \in DOMAIN b} |-> b[e.job]]

onDNSReplyPacketReceived_keepsWaiting(p) ==
  /\ p.type = "ANSWER"
  /\ urlToIpMapping' = [urlToIpMapping EXCEPT ![p.to][p.url] = p.ip]
  /\ traffic' = traffic (+) Scheduled(waitingForDNSReply[p.to][p.url], p.ip)
  /\ wire' = Exchanged(p, {})
  /\ UNCHANGED <<waitingForDNSReply, dhcpVars, arpVars, unstarted, arrived, panicked>>

onDNSReplyPacketReceived(p) ==
  /\ p.type = "ANSWER"
  /\ urlToIpMapping' = [urlToIpMapping EXCEPT ![p.to][p.url] = p.ip]
  /\ traffic' = traffic (+) Scheduled(waitingForDNSReply[p.to][p.url], p.ip)
  /\ waitingForDNSReply' = [waitingForDNSReply EXCEPT ![p.to][p.url] = EmptyBag]
  /\ wire' = Exchanged(p, {})
  /\ UNCHANGED <<dhcpVars, arpVars, unstarted, arrived, panicked>>

-----------------------------------------------------------------------------
\* UDP traffic and ARP.
\* Who may answer for the address a: its owner, and who may become its owner.
sendArpRequest(h, a) ==
  {[type |-> "ARP REQUEST", to |-> g, from |-> h, sourceIp |-> ip[h], ip |-> a] :
     g \in {g \in Hosts \ {h} : ip[g] \in {a, Unset}}}

sendUDPPacket_overwrites(h, a, j) ==
  LET mac == arpTable[h][a]
  IN \/ /\ mac # NoMac
        /\ wire' = Sent({[type |-> "DATA", to |-> mac, ip |-> a, job |-> j]})
        /\ UNCHANGED waitingForArpReply
     \/ /\ mac = NoMac
        /\ wire' = Sent(sendArpRequest(h, a))
        /\ waitingForArpReply' = [waitingForArpReply EXCEPT ![h][a] = SetToBag({j})]

sendUDPPacket(h, a, j) ==
  LET mac == arpTable[h][a]
  IN \/ /\ mac # NoMac
        /\ wire' = Sent({[type |-> "DATA", to |-> mac, ip |-> a, job |-> j]})
        /\ UNCHANGED waitingForArpReply
     \/ /\ mac = NoMac
        /\ wire' = Sent(sendArpRequest(h, a))
        /\ waitingForArpReply' = [waitingForArpReply EXCEPT ![h][a] = @ (+) SetToBag({j})]

\* The event that setTraffic has scheduled.
setTraffic(e) ==
  /\ ~panicked
  /\ traffic' = BagRemove(traffic, e)
  /\ sendUDPPacket(JobHost[e.job], e.ip, e.job)
  /\ UNCHANGED <<dhcpVars, dnsVars, arpTable, unstarted, arrived, panicked>>

\* A request for another node's address is ignored.
sendArpReply_forAnyone(p) ==
  {[type |-> "ARP REPLY", to |-> p.from, destIp |-> p.sourceIp, ip |-> p.ip, mac |-> p.to]}

sendArpReply(p) ==
  IF ip[p.to] # p.ip THEN {}
  ELSE {[type |-> "ARP REPLY", to |-> p.from, destIp |-> p.sourceIp, ip |-> p.ip, mac |-> p.to]}

\* The packets of the jobs b, to the node mac.
Payloads(b, a, mac) ==
  [d \in {[type |-> "DATA", to |-> mac, ip |-> a, job |-> j] : j \in DOMAIN b} |-> b[d.job]]

onArpReplyPacketReceived(p) ==
  /\ wire' = Exchanged(p, {}) (+) Payloads(waitingForArpReply[p.to][p.ip], p.ip, p.mac)
  /\ waitingForArpReply' = [waitingForArpReply EXCEPT ![p.to][p.ip] = EmptyBag]

\* A reply to another address than the host's present one is ignored.
processARPPacket(p) ==
  /\ \/ /\ p.type = "ARP REQUEST"
        /\ wire' = Exchanged(p, sendArpReply(p))
        /\ UNCHANGED arpVars
     \/ /\ p.type = "ARP REPLY" /\ p.destIp = ip[p.to]
        /\ arpTable' = [arpTable EXCEPT ![p.to][p.ip] = p.mac]
        /\ onArpReplyPacketReceived(p)
     \/ /\ p.type = "ARP REPLY" /\ p.destIp # ip[p.to]
        /\ wire' = Exchanged(p, {})
        /\ UNCHANGED arpVars
  /\ UNCHANGED <<dhcpVars, dnsVars, jobVars, panicked>>

processUDPPacket(p) ==
  /\ p.type = "DATA"
  /\ wire' = Exchanged(p, {})
  /\ arrived' = IF p.ip = ip[p.to] THEN [arrived EXCEPT ![p.job] = @ + 1] ELSE arrived
  /\ UNCHANGED <<dhcpVars, dnsVars, arpVars, unstarted, traffic, panicked>>

\* Marked by the link, and dropped by whoever receives it.
lost(p) ==
  /\ Lossy
  /\ wire' = Exchanged(p, {})
  /\ UNCHANGED <<dhcpVars, dnsVars, arpVars, jobVars, panicked>>

ReceivePacket(p) ==
  /\ ~panicked
  /\ \/ DhcpServerReceives(p)
     \/ processDHCPPacket(p)
     \/ handleDNSQuery(p)
     \/ onDNSReplyPacketReceived(p)
     \/ processARPPacket(p)
     \/ processUDPPacket(p)
     \/ lost(p)

Next ==
  \/ \E h \in Hosts : sendDHCPDiscover(h)
  \/ \E j \in Jobs : attemptToStartTraffic(j)
  \/ \E e \in DOMAIN traffic : setTraffic(e)
  \/ \E p \in DOMAIN wire : ReceivePacket(p)

Spec == Init /\ [][Next]_vars
\* The scheduler runs on while an event is scheduled.
FairSpec == Spec /\ WF_vars(Next)

-----------------------------------------------------------------------------
\* The state of hosts, servers and LAN is well formed.
TypeOK ==
  /\ ip \in [Hosts -> Addresses \cup {Unset}]
  /\ dnsServerIp \in [Hosts -> {DnsIp, DefaultDnsIp}]
  /\ ipPoolUsed \subseteq Pool
  /\ undiscovered \subseteq {h \in Hosts : ip[h] = Unset}
  /\ urlToIpMapping \in [Hosts -> [Urls -> Addresses \cup {NoIp}]]
  /\ \A h \in Hosts, u \in Urls : IsWaitingList(waitingForDNSReply[h][u])
  /\ arpTable \in [Hosts -> [Addresses -> Hosts \cup {NoMac}]]
  /\ \A h \in Hosts, a \in Addresses : IsWaitingList(waitingForArpReply[h][a])
  /\ unstarted \subseteq Jobs
  /\ IsABag(traffic) /\ DOMAIN traffic \subseteq [job : Jobs, ip : Addresses]
  /\ arrived \in [Jobs -> Nat]
  /\ IsABag(wire) /\ DOMAIN wire \subseteq Message
  /\ panicked \in BOOLEAN

\* DHCP never gives a host an address that another host or the DNS server has,
\* although offers, requests and acknowledgements of several hosts interleave
\* and the server does not check what a host asks for.
UniqueAddresses ==
  \A h \in Hosts : ip[h] # Unset =>
    ip[h] # DnsIp /\ \A g \in Hosts \ {h} : ip[g] # ip[h]

\* An address in an ARP table is the address of the node it is mapped to, so no
\* job's packets go to a node that will drop them.
ArpTableIsTrue ==
  \A h \in Hosts, a \in Addresses : arpTable[h][a] # NoMac => ip[arpTable[h][a]] = a

\* Where the job j, or its payload, is: each place with the number of copies there.
DataOf(j) == {p \in InFlight("DATA") : p.job = j}
Places(j) ==
  {<<"unstarted", i, 1>> : i \in unstarted \cap {j}}
  \cup {<<"DNS", w, waitingForDNSReply[w[1]][w[2]][j]>> :
          w \in {w \in Hosts \X Urls : j \in DOMAIN waitingForDNSReply[w[1]][w[2]]}}
  \cup {<<"traffic", e, traffic[e]>> : e \in {e \in DOMAIN traffic : e.job = j}}
  \cup {<<"ARP", w, waitingForArpReply[w[1]][w[2]][j]>> :
          w \in {w \in Hosts \X Addresses : j \in DOMAIN waitingForArpReply[w[1]][w[2]]}}
  \cup {<<"wire", p, wire[p]>> : p \in DataOf(j)}
  \cup {<<"arrived", i, arrived[i]>> : i \in {i \in {j} : arrived[i] > 0}}

\* A job is never sent twice, although each job that finds no address sends a
\* query of its own and each answer serves all who wait; and it is never
\* forgotten unless a packet is lost.
JobInOnePlace ==
  \A j \in Jobs : /\ \A x \in Places(j) : x[3] = 1 /\ Places(j) = {x}
                  /\ ~Lossy => Places(j) # {}

\* Whoever waits is waited on: as long as jobs wait for an address, the question
\* or the answer that will wake them is in flight.  (Nothing asks again.)
NobodyWaitsInVain ==
  ~Lossy =>
  \A h \in Hosts :
    /\ \A u \in Urls : waitingForDNSReply[h][u] # EmptyBag =>
         \/ \E p \in InFlight("QUERY") : p.from = h /\ p.url = u
         \/ \E p \in InFlight("ANSWER") : p.to = h /\ p.url = u
    /\ \A a \in Addresses : waitingForArpReply[h][a] # EmptyBag =>
         \/ \E p \in InFlight("ARP REQUEST") :
              p.from = h /\ p.ip = a /\ p.sourceIp = ip[h] /\ ip[p.to] = a
         \/ \E p \in InFlight("ARP REPLY") : p.to = h /\ p.ip = a /\ p.destIp = ip[h]

\* The pool lasts: a host takes one address and no more, however its packets
\* interleave with the others'.
PoolSuffices ==
  Cardinality(Pool \ Reserved) >= Cardinality({h \in Hosts : StaticIp[h] = Unset}) => ~panicked

\* Every job is processed in the end.
AllArrive == <>(\A j \in Jobs : arrived[j] = 1)
=============================================================================
