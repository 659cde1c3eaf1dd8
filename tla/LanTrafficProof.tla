-------------------------- MODULE LanTrafficProof --------------------------
(***************************************************************************)
(* Theorems about LanTraffic, for every set of hosts, every pool and set   *)
(* of records, any number of jobs, early or not, and lossy links or not.   *)
(***************************************************************************)
EXTENDS LanTraffic, CommonFacts, TLAPS

WaitingLists == UNION {[S -> Nat \ {0}] : S \in SUBSET Jobs}

\* TypeOK, with the waiting lists as functions of a set (TLC cannot enumerate it).
Typed ==
  /\ ip \in [Hosts -> Addresses \cup {Unset}]
  /\ dnsServerIp \in [Hosts -> {DnsIp, DefaultDnsIp}]
  /\ ipPoolUsed \subseteq Pool
  /\ undiscovered \subseteq {h \in Hosts : ip[h] = Unset}
  /\ urlToIpMapping \in [Hosts -> [Urls -> Addresses \cup {NoIp}]]
  /\ waitingForDNSReply \in [Hosts -> [Urls -> WaitingLists]]
  /\ arpTable \in [Hosts -> [Addresses -> Hosts \cup {NoMac}]]
  /\ waitingForArpReply \in [Hosts -> [Addresses -> WaitingLists]]
  /\ unstarted \subseteq Jobs
  /\ IsABag(traffic) /\ DOMAIN traffic \subseteq [job : Jobs, ip : Addresses]
  /\ arrived \in [Jobs -> Nat]
  /\ IsABag(wire) /\ DOMAIN wire \subseteq Message
  /\ panicked \in BOOLEAN

DhcpTypes == {"DISCOVER", "OFFER", "REQUEST", "ACK"}

\* h has the address a, or is on the way to it.
Granted(h, a) ==
  \/ ip[h] = a
  \/ \E p \in DOMAIN wire : p.type \in {"OFFER", "ACK"} /\ p.to = h /\ p.ip = a
  \/ \E p \in DOMAIN wire : p.type = "REQUEST" /\ p.from = h /\ p.ip = a

\* The server has marked what it granted; a host is granted one address, and an
\* address is granted to one host.
Grants ==
  /\ Reserved \cap Pool \subseteq ipPoolUsed
  /\ \A h \in Hosts, a \in Addresses : Granted(h, a) =>
       \/ StaticIp[h] # Unset /\ a = StaticIp[h]
       \/ StaticIp[h] = Unset /\ a \in ipPoolUsed \ Reserved
  /\ \A h, g \in Hosts, a \in Addresses : Granted(h, a) /\ Granted(g, a) => h = g
  /\ \A h \in Hosts, a, b \in Addresses : Granted(h, a) /\ Granted(h, b) => a = b

\* A DISCOVER is sent once, before anything is granted.
Once ==
  /\ \A h \in undiscovered :
       /\ StaticIp[h] = Unset
       /\ \A a \in Addresses : ~Granted(h, a)
       /\ \A p \in DOMAIN wire : p.type = "DISCOVER" => p.from # h
  /\ \A p \in DOMAIN wire : p.type = "DISCOVER" =>
       /\ wire[p] = 1
       /\ StaticIp[p.from] = Unset
       /\ \A a \in Addresses : ~Granted(p.from, a)

ReplyIsTrue == \A p \in DOMAIN wire : p.type = "ARP REPLY" => ip[p.mac] = p.ip

IInv == Typed /\ Grants /\ Once /\ ReplyIsTrue /\ ArpTableIsTrue

-----------------------------------------------------------------------------
\* The fields of a message of each type.
LEMMA MessageFacts ==
  ASSUME NEW p \in Message
  PROVE  /\ p.type \in DhcpTypes \cup {"QUERY", "ANSWER", "ARP REQUEST", "ARP REPLY", "DATA"}
         /\ p.type \in {"DISCOVER", "REQUEST", "QUERY", "ARP REQUEST"} => p.from \in Hosts
         /\ p.type \in {"OFFER", "ACK", "ANSWER", "ARP REQUEST", "ARP REPLY", "DATA"} => p.to \in Hosts
         /\ p.type \in {"OFFER", "ACK", "REQUEST", "ANSWER", "ARP REQUEST", "ARP REPLY", "DATA"}
              => p.ip \in Addresses
         /\ p.type \in {"QUERY", "ANSWER"} => p.url \in Urls
         /\ p.type = "ARP REQUEST" => p.sourceIp \in Addresses \cup {Unset}
         /\ p.type = "ARP REPLY" => p.mac \in Hosts
         /\ p.type = "DATA" => p.job \in Jobs
         /\ p.type = "DISCOVER" => p = [type |-> "DISCOVER", from |-> p.from]
  BY DEF Message, DhcpTypes

LEMMA Sending ==
  ASSUME NEW ps, IsABag(wire), wire' = Sent(ps)
  PROVE  /\ IsABag(wire')
         /\ DOMAIN wire' = DOMAIN wire \cup ps
         /\ \A q \in DOMAIN wire \ ps : wire'[q] = wire[q]
         /\ \A q \in ps \ DOMAIN wire : wire'[q] = 1
<1> DEFINE c == SetToBag(ps)
<1>1. IsABag(c) /\ DOMAIN c = ps /\ \A q \in ps : c[q] = 1
  BY SetIsBag
<1>2. wire' = wire (+) c
  BY DEF Sent
<1> HIDE DEF c
<1>3. /\ IsABag(wire (+) c)
      /\ DOMAIN (wire (+) c) = DOMAIN wire \cup DOMAIN c
      /\ \A x \in DOMAIN wire \ DOMAIN c : (wire (+) c)[x] = wire[x]
      /\ \A x \in DOMAIN c \ DOMAIN wire : (wire (+) c)[x] = c[x]
  BY <1>1, BagSum
<1>4. QED BY <1>1, <1>2, <1>3

LEMMA Exchanging ==
  ASSUME NEW p \in DOMAIN wire, NEW ps, IsABag(wire), wire' = Exchanged(p, ps)
  PROVE  /\ IsABag(wire')
         /\ DOMAIN wire' \subseteq DOMAIN wire \cup ps
         /\ \A q \in DOMAIN wire \ (ps \cup {p}) : wire'[q] = wire[q]
         /\ wire[p] = 1 /\ p \notin ps => p \notin DOMAIN wire'
<1> DEFINE rest == BagRemove(wire, p)
           c == SetToBag(ps)
<1>1. IsABag(c) /\ DOMAIN c = ps
  BY SetIsBag
<1>2. /\ IsABag(rest) /\ DOMAIN rest \subseteq DOMAIN wire
      /\ DOMAIN wire \ {p} \subseteq DOMAIN rest
      /\ \A q \in DOMAIN wire \ {p} : rest[q] = wire[q]
      /\ wire[p] = 1 => p \notin DOMAIN rest
  BY BagTake DEF BagRemove, Ext!BagRemove
<1>3. wire' = rest (+) c
  BY DEF Exchanged
<1> HIDE DEF rest, c
<1>4. /\ IsABag(rest (+) c) /\ DOMAIN (rest (+) c) = DOMAIN rest \cup DOMAIN c
      /\ \A q \in DOMAIN rest \ DOMAIN c : (rest (+) c)[q] = rest[q]
  BY <1>1, <1>2, BagSum
<1>5. QED BY <1>1, <1>2, <1>3, <1>4

\* A packet is taken and nothing is sent.
LEMMA ExchangedNothing ==
  ASSUME NEW p \in DOMAIN wire, IsABag(wire)
  PROVE  LET rest == Exchanged(p, {})
         IN  /\ IsABag(rest) /\ DOMAIN rest \subseteq DOMAIN wire
             /\ DOMAIN wire \ {p} \subseteq DOMAIN rest
             /\ \A q \in DOMAIN wire \ {p} : rest[q] = wire[q]
<1> DEFINE rest == Exchanged(p, {})
           none == SetToBag({})
           r == BagRemove(wire, p)
<1>1. IsABag(none) /\ DOMAIN none = {}
  BY SetIsBag
<1>2. /\ IsABag(r) /\ DOMAIN r \subseteq DOMAIN wire /\ DOMAIN wire \ {p} \subseteq DOMAIN r
      /\ \A q \in DOMAIN wire \ {p} : r[q] = wire[q]
  BY BagTake DEF BagRemove, Ext!BagRemove
<1>3. rest = r (+) none
  BY DEF Exchanged
<1> HIDE DEF none, r, rest
<1>4. IsABag(r (+) none) /\ DOMAIN (r (+) none) = DOMAIN r \cup DOMAIN none
      /\ \A q \in DOMAIN r \ DOMAIN none : (r (+) none)[q] = r[q]
  BY <1>1, <1>2, BagSum
<1>5. QED BY <1>1, <1>2, <1>3, <1>4 DEF rest

LEMMA EmptyIsBag == IsABag(EmptyBag) /\ DOMAIN EmptyBag = {}
  BY DEF EmptyBag, SetToBag, IsABag

LEMMA WaitingListFacts ==
  ASSUME NEW b
  PROVE  b \in WaitingLists <=> IsABag(b) /\ DOMAIN b \subseteq Jobs
<1>1. ASSUME b \in WaitingLists PROVE IsABag(b) /\ DOMAIN b \subseteq Jobs
  BY <1>1 DEF WaitingLists, IsABag
<1>2. ASSUME IsABag(b), DOMAIN b \subseteq Jobs PROVE b \in WaitingLists
  <2>1. b \in [DOMAIN b -> Nat \ {0}]
    BY <1>2 DEF IsABag
  <2>2. QED BY <1>2, <2>1 DEF WaitingLists
<1>3. QED BY <1>1, <1>2

\* Whatever is no business of DHCP.
LEMMA OtherStep ==
  ASSUME IInv, UNCHANGED dhcpVars,
         \A q \in DOMAIN wire' : q.type \in DhcpTypes =>
           q \in DOMAIN wire /\ (q.type = "DISCOVER" => wire'[q] = 1)
  PROVE  Grants' /\ Once'
<1>1. UNCHANGED <<ip, ipPoolUsed, undiscovered>>
  BY DEF dhcpVars
<1>2. \A h \in Hosts, a \in Addresses : Granted(h, a)' => Granted(h, a)
  BY <1>1 DEF Granted, DhcpTypes
<1>3. Grants'
  BY <1>1, <1>2 DEF IInv, Grants
<1>4. \A p \in DOMAIN wire' : p.type = "DISCOVER" => p \in DOMAIN wire /\ wire'[p] = 1 /\ p.from \in Hosts
  BY MessageFacts DEF IInv, Typed, DhcpTypes
<1>5. undiscovered \subseteq Hosts
  BY DEF IInv, Typed
<1>6. Once'
  BY <1>1, <1>2, <1>4, <1>5 DEF IInv, Once
<1>7. QED BY <1>3, <1>6

\* A step that takes p, which is not a DISCOVER, and sends ps, which is not DHCP.
LEMMA OtherExchange ==
  ASSUME IInv, UNCHANGED dhcpVars, NEW p \in DOMAIN wire, p.type # "DISCOVER", NEW ps,
         wire' = Exchanged(p, ps), \A q \in ps : q.type \notin DhcpTypes
  PROVE  Grants' /\ Once'
<1>1. IsABag(wire) /\ \A q \in DOMAIN wire : q.type = "DISCOVER" => wire[q] = 1
  BY DEF IInv, Typed, Once
<1>2. \A q \in DOMAIN wire' : q.type \in DhcpTypes =>
        q \in DOMAIN wire /\ (q.type = "DISCOVER" => wire'[q] = 1)
  BY <1>1, Exchanging
<1>3. QED BY <1>2, OtherStep

LEMMA OtherSending ==
  ASSUME IInv, UNCHANGED dhcpVars, NEW ps, wire' = Sent(ps), \A q \in ps : q.type \notin DhcpTypes
  PROVE  Grants' /\ Once'
<1>1. IsABag(wire) /\ \A q \in DOMAIN wire : q.type = "DISCOVER" => wire[q] = 1
  BY DEF IInv, Typed, Once
<1>2. \A q \in DOMAIN wire' : q.type \in DhcpTypes =>
        q \in DOMAIN wire /\ (q.type = "DISCOVER" => wire'[q] = 1)
  BY <1>1, Sending
<1>3. QED BY <1>2, OtherStep

LEMMA InitInv == Init => IInv
<1> SUFFICES ASSUME Init PROVE IInv
  OBVIOUS
<1>1. wire = EmptyBag /\ DOMAIN wire = {}
  BY EmptyIsBag DEF Init
<1>2. Typed
  <2>1. EmptyBag \in WaitingLists
    BY EmptyIsBag, WaitingListFacts
  <2>2. QED BY <1>1, <2>1, EmptyIsBag, StaticAssumption DEF Init, Typed
<1>3. \A h \in Hosts, a \in Addresses : Granted(h, a) <=> StaticIp[h] = a
  BY <1>1 DEF Init, Granted
<1>4. Grants
  BY <1>3, StaticAssumption, DistinctAssumption DEF Init, Grants
<1>5. Once
  BY <1>1, <1>3, StaticAssumption DEF Init, Once
<1>6. ReplyIsTrue /\ ArpTableIsTrue
  BY <1>1 DEF Init, ReplyIsTrue, ArpTableIsTrue
<1>7. QED BY <1>2, <1>4, <1>5, <1>6 DEF IInv

-----------------------------------------------------------------------------
LEMMA DiscoverSent == ASSUME IInv, NEW h \in Hosts, sendDHCPDiscover(h) PROVE IInv'
<1> DEFINE m == [type |-> "DISCOVER", from |-> h]
           ps == {m}
<1>1. /\ wire' = Sent(ps) /\ h \in undiscovered /\ undiscovered' = undiscovered \ {h}
      /\ UNCHANGED <<ip, dnsServerIp, ipPoolUsed, dnsVars, arpVars, jobVars, panicked>>
  BY DEF sendDHCPDiscover
<1>2. m \in Message /\ m.type = "DISCOVER" /\ m.from = h
  BY DEF Message
<1>3. m \notin DOMAIN wire
  BY <1>1, <1>2 DEF IInv, Once
<1>4. IsABag(wire)
  BY DEF IInv, Typed
<1> HIDE DEF m, ps
<1>5. /\ IsABag(wire') /\ DOMAIN wire' = DOMAIN wire \cup ps
      /\ \A q \in DOMAIN wire \ ps : wire'[q] = wire[q]
      /\ \A q \in ps \ DOMAIN wire : wire'[q] = 1
  BY <1>1, <1>4, Sending
<1>6. /\ DOMAIN wire' = DOMAIN wire \cup {m} /\ wire'[m] = 1
      /\ \A q \in DOMAIN wire : wire'[q] = wire[q]
  BY <1>3, <1>5 DEF ps
<1>7. Typed'
  BY <1>1, <1>2, <1>5, <1>6 DEF IInv, Typed, dnsVars, arpVars, jobVars
<1>8. \A g \in Hosts, a \in Addresses : Granted(g, a)' <=> Granted(g, a)
  BY <1>1, <1>2, <1>6 DEF Granted
<1>9. Grants'
  BY <1>1, <1>8 DEF IInv, Grants
<1>10. \A q \in DOMAIN wire : q.type = "DISCOVER" => q.from \in Hosts
  BY MessageFacts DEF IInv, Typed
<1>11. undiscovered \subseteq Hosts
  BY DEF IInv, Typed
<1>12. Once'
  <2>1. ASSUME NEW g \in undiscovered'
        PROVE  /\ StaticIp[g] = Unset
               /\ \A a \in Addresses : ~Granted(g, a)'
               /\ \A p \in DOMAIN wire' : p.type = "DISCOVER" => p.from # g
    BY <1>1, <1>2, <1>6, <1>8, <1>11 DEF IInv, Once
  <2>2. ASSUME NEW p \in DOMAIN wire', p.type = "DISCOVER"
        PROVE  /\ wire'[p] = 1 /\ StaticIp[p.from] = Unset
               /\ \A a \in Addresses : ~Granted(p.from, a)'
    BY <1>1, <1>2, <1>6, <1>8, <1>10, <1>11, <2>2 DEF IInv, Once
  <2>3. QED BY <2>1, <2>2 DEF Once
<1>13. ReplyIsTrue' /\ ArpTableIsTrue'
  BY <1>1, <1>2, <1>6 DEF IInv, ReplyIsTrue, ArpTableIsTrue, arpVars
<1>14. QED BY <1>7, <1>9, <1>12, <1>13 DEF IInv

LEMMA ServerInv ==
  ASSUME IInv, NEW p \in DOMAIN wire, ~panicked, DhcpServerReceives(p) PROVE IInv'
<1>1. /\ UNCHANGED <<ip, dnsServerIp, undiscovered, dnsVars, arpVars, jobVars>>
      /\ IsABag(wire) /\ p \in Message
  BY DEF DhcpServerReceives, IInv, Typed
<1>0. panicked' \in BOOLEAN
  BY DEF DhcpServerReceives, handleDHCPDiscover, handleDHCPRequest, IInv, Typed
<1>2. CASE panicked'
  <2>1. UNCHANGED <<ipPoolUsed, wire>>
    BY <1>2 DEF DhcpServerReceives, handleDHCPDiscover, handleDHCPRequest
  <2>2. Grants' /\ Once'
    BY <1>1, <2>1, OtherStep DEF dhcpVars, IInv, Once
  <2>3. Typed' /\ ReplyIsTrue' /\ ArpTableIsTrue'
    BY <1>1, <1>2, <2>1 DEF IInv, Typed, ReplyIsTrue, ArpTableIsTrue, dnsVars, arpVars, jobVars
  <2>4. QED BY <2>2, <2>3 DEF IInv
<1>3. CASE p.type = "DISCOVER" /\ ~panicked'
  <2>1. PICK a \in Pool \ ipPoolUsed :
          /\ ipPoolUsed' = ipPoolUsed \cup {a}
          /\ wire' = Exchanged(p, {[type |-> "OFFER", to |-> p.from, ip |-> a]})
    BY <1>3 DEF DhcpServerReceives, handleDHCPDiscover
  <2> DEFINE m == [type |-> "OFFER", to |-> p.from, ip |-> a]
             ps == {m}
  <2>2. p.from \in Hosts /\ a \in Addresses
    BY <1>1, <1>3, MessageFacts DEF Addresses
  <2>3. m \in Message /\ m.type = "OFFER" /\ m.to = p.from /\ m.ip = a
    BY <2>2 DEF Message
  <2>4. /\ wire[p] = 1 /\ StaticIp[p.from] = Unset
        /\ \A b \in Addresses : ~Granted(p.from, b)
    BY <1>3 DEF IInv, Once
  <2>5. wire' = Exchanged(p, ps)
    BY <2>1
  <2> HIDE DEF m, ps
  <2>6. /\ IsABag(wire') /\ DOMAIN wire' \subseteq DOMAIN wire \cup ps
        /\ \A q \in DOMAIN wire \ (ps \cup {p}) : wire'[q] = wire[q]
        /\ wire[p] = 1 /\ p \notin ps => p \notin DOMAIN wire'
    BY <1>1, <2>5, Exchanging
  <2>7. p \notin DOMAIN wire' /\ DOMAIN wire' \subseteq DOMAIN wire \cup {m}
        /\ \A q \in DOMAIN wire \ {p} : q.type = "DISCOVER" => wire'[q] = wire[q]
    BY <1>3, <2>3, <2>4, <2>6 DEF ps
  <2>8. Typed'
    BY <1>0, <1>1, <2>1, <2>3, <2>6, <2>7 DEF IInv, Typed, dnsVars, arpVars, jobVars
  <2>9. \A h \in Hosts, b \in Addresses :
          Granted(h, b)' => Granted(h, b) \/ (h = p.from /\ b = a)
    BY <1>1, <2>3, <2>7 DEF Granted
  <2>10. \A h \in Hosts : ~Granted(h, a)
    <3>1. ASSUME NEW h \in Hosts, Granted(h, a) PROVE FALSE
      <4>1. a \notin ipPoolUsed /\ a \in Pool /\ a \notin Reserved
        BY <2>1 DEF IInv, Grants
      <4>2. StaticIp[h] # Unset /\ a = StaticIp[h]
        BY <2>2, <3>1, <4>1 DEF IInv, Grants
      <4>3. QED BY <4>1, <4>2, ReservedAssumption DEF Static
    <3>2. QED BY <3>1
  <2>11. Grants'
    <3>1. (Reserved \cap Pool \subseteq ipPoolUsed)'
      BY <2>1 DEF IInv, Grants
    <3>2. a \notin Reserved /\ a \in ipPoolUsed'
      BY <2>1 DEF IInv, Grants
    <3>3. \A h \in Hosts, b \in Addresses : Granted(h, b)' =>
           \/ StaticIp[h] # Unset /\ b = StaticIp[h]
           \/ StaticIp[h] = Unset /\ b \in ipPoolUsed' \ Reserved
      BY <2>1, <2>2, <2>4, <2>9, <3>2 DEF IInv, Grants
    <3>4. \A h, g \in Hosts, b \in Addresses : Granted(h, b)' /\ Granted(g, b)' => h = g
      BY <2>2, <2>9, <2>10 DEF IInv, Grants
    <3>5. \A h \in Hosts, b, c \in Addresses : Granted(h, b)' /\ Granted(h, c)' => b = c
      BY <2>2, <2>4, <2>9 DEF IInv, Grants
    <3>6. QED BY <3>1, <3>3, <3>4, <3>5 DEF Grants
  <2>12. p.from \notin undiscovered
    BY <1>3 DEF IInv, Once
  <2>13. \A q \in DOMAIN wire' : q.type = "DISCOVER" =>
           q \in DOMAIN wire /\ wire'[q] = wire[q] /\ q.from # p.from /\ q.from \in Hosts
    <3>1. ASSUME NEW q \in DOMAIN wire', q.type = "DISCOVER"
          PROVE  q \in DOMAIN wire /\ wire'[q] = wire[q] /\ q.from # p.from /\ q.from \in Hosts
      <4>1. q \in DOMAIN wire /\ q # p /\ wire'[q] = wire[q]
        BY <2>3, <2>7, <3>1
      <4>2. q \in Message
        BY <4>1 DEF IInv, Typed
      <4>3. q.from \in Hosts /\ q = [type |-> "DISCOVER", from |-> q.from]
        BY <3>1, <4>2, MessageFacts
      <4>4. p = [type |-> "DISCOVER", from |-> p.from]
        BY <1>1, <1>3, MessageFacts
      <4>5. QED BY <4>1, <4>3, <4>4
    <3>2. QED BY <3>1
  <2>14. Once'
    <3>1. undiscovered \subseteq Hosts
      BY DEF IInv, Typed
    <3>2. QED BY <1>1, <2>9, <2>12, <2>13, <3>1 DEF IInv, Once
  <2>15. ReplyIsTrue' /\ ArpTableIsTrue'
    BY <1>1, <2>3, <2>7 DEF IInv, ReplyIsTrue, ArpTableIsTrue, arpVars
  <2>16. QED BY <2>8, <2>11, <2>14, <2>15 DEF IInv
<1>4. CASE p.type = "REQUEST" /\ ~panicked'
  <2> DEFINE m == [type |-> "ACK", to |-> p.from, ip |-> p.ip]
             ps == {m}
  <2>1. wire' = Exchanged(p, ps) /\ UNCHANGED ipPoolUsed
    BY <1>4 DEF DhcpServerReceives, handleDHCPRequest
  <2>2. p.from \in Hosts /\ p.ip \in Addresses
    BY <1>1, <1>4, MessageFacts
  <2>3. m \in Message /\ m.type = "ACK" /\ m.to = p.from /\ m.ip = p.ip
    BY <2>2 DEF Message
  <2> HIDE DEF m, ps
  <2>4. /\ IsABag(wire') /\ DOMAIN wire' \subseteq DOMAIN wire \cup ps
        /\ \A q \in DOMAIN wire \ (ps \cup {p}) : wire'[q] = wire[q]
    BY <1>1, <2>1, Exchanging
  <2>5. /\ DOMAIN wire' \subseteq DOMAIN wire \cup {m}
        /\ \A q \in DOMAIN wire : q.type = "DISCOVER" => wire'[q] = wire[q]
    BY <1>4, <2>3, <2>4 DEF ps
  <2>6. Typed'
    BY <1>0, <1>1, <2>1, <2>3, <2>4, <2>5 DEF IInv, Typed, dnsVars, arpVars, jobVars
  <2>7. \A h \in Hosts, b \in Addresses : Granted(h, b)' => Granted(h, b)
    BY <1>1, <1>4, <2>3, <2>5 DEF Granted
  <2>8. Grants'
    BY <2>1, <2>7 DEF IInv, Grants
  <2>9. \A q \in DOMAIN wire' : q.type = "DISCOVER" =>
          q \in DOMAIN wire /\ wire'[q] = wire[q] /\ q.from \in Hosts
    BY <2>3, <2>5, MessageFacts DEF IInv, Typed
  <2>10. undiscovered \subseteq Hosts
    BY DEF IInv, Typed
  <2>11. Once'
    BY <1>1, <2>7, <2>9, <2>10 DEF IInv, Once
  <2>12. ReplyIsTrue' /\ ArpTableIsTrue'
    BY <1>1, <2>3, <2>5 DEF IInv, ReplyIsTrue, ArpTableIsTrue, arpVars
  <2>13. QED BY <2>6, <2>8, <2>11, <2>12 DEF IInv
<1>5. QED BY <1>2, <1>3, <1>4 DEF DhcpServerReceives

LEMMA HostDhcpInv ==
  ASSUME IInv, NEW p \in DOMAIN wire, processDHCPPacket(p) PROVE IInv'
<1>1. /\ UNCHANGED <<ipPoolUsed, undiscovered, dnsVars, arpVars, jobVars, panicked>>
      /\ IsABag(wire) /\ p \in Message
  BY DEF processDHCPPacket, IInv, Typed
<1>2. p.to \in Hosts /\ p.ip \in Addresses
  BY <1>1, MessageFacts DEF processDHCPPacket
<1>3. Granted(p.to, p.ip)
  BY DEF processDHCPPacket, Granted
<1>4. PICK ps : /\ wire' = Exchanged(p, ps) /\ ps \subseteq Message
                /\ \A m \in ps : m.type = "REQUEST" /\ m.from = p.to /\ m.ip = p.ip
  <2>1. CASE p.type = "OFFER"
    <3> DEFINE m == [type |-> "REQUEST", from |-> p.to, ip |-> p.ip]
    <3>1. m \in Message /\ m.type = "REQUEST" /\ m.from = p.to /\ m.ip = p.ip
      BY <1>2 DEF Message
    <3>2. wire' = Exchanged(p, {m})
      BY <2>1 DEF processDHCPPacket
    <3>3. QED BY <3>1, <3>2
  <2>2. CASE p.type = "ACK"
    <3>1. wire' = Exchanged(p, {})
      BY <2>2 DEF processDHCPPacket
    <3>2. QED BY <3>1
  <2>3. QED BY <2>1, <2>2 DEF processDHCPPacket
<1>5. /\ UNCHANGED ip \/ ip' = [ip EXCEPT ![p.to] = p.ip]
      /\ dnsServerIp' \in [Hosts -> {DnsIp, DefaultDnsIp}]
  BY <1>2 DEF processDHCPPacket, IInv, Typed
<1>6. ip \in [Hosts -> Addresses \cup {Unset}]
  BY DEF IInv, Typed
<1>7. /\ IsABag(wire') /\ DOMAIN wire' \subseteq DOMAIN wire \cup ps
      /\ \A q \in DOMAIN wire \ (ps \cup {p}) : wire'[q] = wire[q]
  BY <1>1, <1>4, Exchanging
<1>8. \A q \in DOMAIN wire' : q.type = "DISCOVER" =>
        q \in DOMAIN wire /\ wire'[q] = wire[q] /\ q.from \in Hosts
  BY <1>4, <1>7, MessageFacts DEF processDHCPPacket, IInv, Typed
<1>9. \A h \in Hosts, b \in Addresses : Granted(h, b)' => Granted(h, b)
  BY <1>2, <1>3, <1>4, <1>5, <1>6, <1>7 DEF Granted
<1>10. p.to \notin undiscovered
  BY <1>2, <1>3 DEF IInv, Once
<1>11. Typed'
  BY <1>1, <1>2, <1>4, <1>5, <1>6, <1>7, <1>10 DEF IInv, Typed, dnsVars, arpVars, jobVars
<1>12. Grants'
  BY <1>1, <1>9 DEF IInv, Grants
<1>13. undiscovered \subseteq Hosts
  BY DEF IInv, Typed
<1>14. Once'
  BY <1>1, <1>8, <1>9, <1>13 DEF IInv, Once
<1>15. \A h \in Hosts, a \in Addresses : ip[h] = a => ip'[h] = a
  <2>1. \A a \in Addresses : ip[p.to] = a => a = p.ip
    BY <1>2, <1>3 DEF IInv, Grants, Granted
  <2>2. QED BY <1>2, <1>5, <1>6, <2>1
<1>16. \A q \in DOMAIN wire' : q.type = "ARP REPLY" =>
         q \in DOMAIN wire /\ q.mac \in Hosts /\ q.ip \in Addresses
  BY <1>4, <1>7, MessageFacts DEF IInv, Typed
<1>17. ReplyIsTrue'
  BY <1>15, <1>16 DEF IInv, ReplyIsTrue
<1>18. ArpTableIsTrue'
  <2>1. \A h \in Hosts, a \in Addresses : arpTable[h][a] # NoMac => arpTable[h][a] \in Hosts
    BY DEF IInv, Typed
  <2>2. QED BY <1>1, <1>15, <2>1 DEF IInv, ArpTableIsTrue, arpVars
<1>19. QED BY <1>11, <1>12, <1>14, <1>17, <1>18 DEF IInv

-----------------------------------------------------------------------------
LEMMA StartInv == ASSUME IInv, NEW j \in Jobs, attemptToStartTraffic(j) PROVE IInv'
<1> DEFINE h == JobHost[j]
           u == JobUrl[j]
           a == resolveDestinationIp(h, u)
<1>1. /\ UNCHANGED <<dhcpVars, urlToIpMapping, arpVars, arrived, panicked>>
      /\ unstarted' = unstarted \ {j} /\ IsABag(wire) /\ IsABag(traffic)
  BY DEF attemptToStartTraffic, IInv, Typed
<1>2. h \in Hosts
  BY JobsAssumption
<1>3. CASE a # NoIp
  <2> DEFINE e == [job |-> j, ip |-> a]
             es == SetToBag({e})
  <2>1. traffic' = traffic (+) es /\ UNCHANGED <<waitingForDNSReply, wire>>
    BY <1>3 DEF attemptToStartTraffic
  <2>2. a \in Addresses
    <3>1. CASE u \in Urls
      <4>1. a = urlToIpMapping[h][u]
        BY <3>1 DEF resolveDestinationIp
      <4>2. urlToIpMapping[h][u] \in Addresses \cup {NoIp}
        BY <1>2, <3>1 DEF IInv, Typed
      <4>3. QED BY <1>3, <4>1, <4>2
    <3>2. CASE u \notin Urls
      BY <3>2 DEF resolveDestinationIp, Addresses, Destinations
    <3>3. QED BY <3>1, <3>2
  <2>3. e \in [job : Jobs, ip : Addresses]
    BY <2>2
  <2>4. IsABag(es) /\ DOMAIN es = {e}
    BY SetIsBag
  <2> HIDE DEF e, es
  <2>5. IsABag(traffic') /\ DOMAIN traffic' = DOMAIN traffic \cup DOMAIN es
    BY <1>1, <2>1, <2>4, BagSum
  <2>6. Typed'
    BY <1>1, <2>1, <2>3, <2>4, <2>5 DEF IInv, Typed, dhcpVars, arpVars
  <2>7. Grants' /\ Once'
    BY <1>1, <2>1, OtherStep DEF IInv, Once
  <2>8. ReplyIsTrue' /\ ArpTableIsTrue'
    BY <1>1, <2>1 DEF IInv, ReplyIsTrue, ArpTableIsTrue, arpVars, dhcpVars
  <2>9. QED BY <2>6, <2>7, <2>8 DEF IInv
<1>4. CASE a = NoIp
  <2> DEFINE m == [type |-> "QUERY", from |-> h, dnsIp |-> dnsServerIp[h], url |-> u]
             ps == {m}
             jb == SetToBag({j})
             w == waitingForDNSReply[h][u]
  <2>1. /\ wire' = Sent(ps) /\ UNCHANGED traffic
        /\ waitingForDNSReply' = [waitingForDNSReply EXCEPT ![h][u] = @ (+) jb]
    BY <1>4 DEF attemptToStartTraffic
  <2>2. u \in Urls
    <3>1. ASSUME u \notin Urls PROVE FALSE
      <4>1. a = u /\ u \in Addresses
        BY <3>1 DEF resolveDestinationIp, Addresses, Destinations
      <4>2. NoIp \in Addresses
        BY <1>4, <4>1
      <4>3. QED BY <4>2, NilAssumption
    <3>2. QED BY <3>1
  <2>3. m \in Message /\ m.type = "QUERY"
    BY <1>2, <2>2 DEF Message, IInv, Typed
  <2>4. IsABag(jb) /\ DOMAIN jb = {j} /\ IsABag(w) /\ DOMAIN w \subseteq Jobs
    BY <1>2, <2>2, SetIsBag, WaitingListFacts DEF IInv, Typed
  <2> HIDE DEF m, ps, jb, w
  <2>5. IsABag(wire') /\ DOMAIN wire' = DOMAIN wire \cup ps
    BY <1>1, <2>1, Sending
  <2>6. w (+) jb \in WaitingLists
    <3>1. IsABag(w (+) jb) /\ DOMAIN (w (+) jb) = DOMAIN w \cup DOMAIN jb
      BY <2>4, BagSum
    <3>2. DOMAIN (w (+) jb) \subseteq Jobs
      BY <1>2, <2>4, <3>1
    <3> DEFINE b == w (+) jb
    <3>3. IsABag(b) /\ DOMAIN b \subseteq Jobs
      BY <3>1, <3>2
    <3> HIDE DEF b
    <3>4. b \in WaitingLists
      BY <3>3, WaitingListFacts
    <3>5. QED BY <3>4 DEF b
  <2>7. waitingForDNSReply' \in [Hosts -> [Urls -> WaitingLists]]
    BY <1>2, <2>1, <2>2, <2>6 DEF IInv, Typed, w
  <2>8. Typed'
    BY <1>1, <2>1, <2>3, <2>5, <2>7 DEF IInv, Typed, dhcpVars, arpVars, ps
  <2>9. Grants' /\ Once'
    BY <1>1, <2>1, <2>3, OtherSending DEF ps, DhcpTypes
  <2>10. ReplyIsTrue' /\ ArpTableIsTrue'
    BY <1>1, <2>1, <2>3, <2>5 DEF IInv, ReplyIsTrue, ArpTableIsTrue, arpVars, dhcpVars, ps
  <2>11. QED BY <2>8, <2>9, <2>10 DEF IInv
<1>5. QED BY <1>3, <1>4

LEMMA DnsQueryInv ==
  ASSUME IInv, NEW p \in DOMAIN wire, handleDNSQuery(p) PROVE IInv'
<1>1. /\ UNCHANGED <<dhcpVars, dnsVars, arpVars, jobVars, panicked>>
      /\ IsABag(wire) /\ p \in Message /\ p.type = "QUERY"
  BY DEF handleDNSQuery, IInv, Typed
<1>2. PICK ps : /\ wire' = Exchanged(p, ps) /\ ps \subseteq Message
                /\ \A m \in ps : m.type = "ANSWER"
  <2> DEFINE m == [type |-> "ANSWER", to |-> p.from, url |-> p.url, ip |-> Records[p.url]]
             ps == IF p.dnsIp # DnsIp THEN {} ELSE {m}
  <2>1. p.from \in Hosts /\ p.url \in Urls
    BY <1>1, MessageFacts
  <2>2. Records[p.url] \in Addresses
    BY <2>1 DEF Addresses
  <2>3. m \in Message /\ m.type = "ANSWER"
    BY <2>1, <2>2 DEF Message
  <2>4. wire' = Exchanged(p, ps)
    BY DEF handleDNSQuery
  <2> HIDE DEF m
  <2>5. ps \subseteq Message /\ \A q \in ps : q.type = "ANSWER"
    BY <2>3
  <2>6. QED BY <2>4, <2>5
<1>3. IsABag(wire') /\ DOMAIN wire' \subseteq DOMAIN wire \cup ps
  BY <1>1, <1>2, Exchanging
<1>4. Typed'
  BY <1>1, <1>2, <1>3 DEF IInv, Typed, dhcpVars, dnsVars, arpVars, jobVars
<1>5. Grants' /\ Once'
  BY <1>1, <1>2, OtherExchange DEF DhcpTypes
<1>6. ReplyIsTrue' /\ ArpTableIsTrue'
  BY <1>1, <1>2, <1>3 DEF IInv, ReplyIsTrue, ArpTableIsTrue, arpVars, dhcpVars
<1>7. QED BY <1>4, <1>5, <1>6 DEF IInv

\* The waiting jobs b as packets, or as scheduled events, are a bag again.
LEMMA ScheduledIsBag ==
  ASSUME NEW b, IsABag(b), NEW a
  PROVE  /\ IsABag(Scheduled(b, a))
         /\ DOMAIN Scheduled(b, a) = {[job |-> j, ip |-> a] : j \in DOMAIN b}
  BY DEF Scheduled, IsABag

LEMMA PayloadsIsBag ==
  ASSUME NEW b, IsABag(b), NEW a, NEW mac
  PROVE  /\ IsABag(Payloads(b, a, mac))
         /\ DOMAIN Payloads(b, a, mac)
              = {[type |-> "DATA", to |-> mac, ip |-> a, job |-> j] : j \in DOMAIN b}
  BY DEF Payloads, IsABag

LEMMA DnsReplyInv ==
  ASSUME IInv, NEW p \in DOMAIN wire, onDNSReplyPacketReceived(p) PROVE IInv'
<1> DEFINE w == waitingForDNSReply[p.to][p.url]
           new == Scheduled(w, p.ip)
<1>1. /\ UNCHANGED <<dhcpVars, arpVars, unstarted, arrived, panicked>>
      /\ IsABag(wire) /\ IsABag(traffic) /\ p \in Message /\ p.type = "ANSWER"
      /\ wire' = Exchanged(p, {})
      /\ urlToIpMapping' = [urlToIpMapping EXCEPT ![p.to][p.url] = p.ip]
      /\ traffic' = traffic (+) new
      /\ waitingForDNSReply' = [waitingForDNSReply EXCEPT ![p.to][p.url] = EmptyBag]
  BY DEF onDNSReplyPacketReceived, IInv, Typed
<1>2. p.to \in Hosts /\ p.url \in Urls /\ p.ip \in Addresses
  BY <1>1, MessageFacts
<1>3. IsABag(w) /\ DOMAIN w \subseteq Jobs
  BY <1>2, WaitingListFacts DEF IInv, Typed
<1>4. IsABag(new) /\ DOMAIN new \subseteq [job : Jobs, ip : Addresses]
  <2>1. IsABag(new) /\ DOMAIN new = {[job |-> j, ip |-> p.ip] : j \in DOMAIN w}
    BY <1>3, ScheduledIsBag
  <2> HIDE DEF new
  <2>2. QED BY <1>2, <1>3, <2>1
<1> HIDE DEF new
<1>5. IsABag(traffic') /\ DOMAIN traffic' = DOMAIN traffic \cup DOMAIN new
  BY <1>1, <1>4, BagSum
<1>6. IsABag(wire') /\ DOMAIN wire' \subseteq DOMAIN wire
  BY <1>1, Exchanging
<1>7. /\ urlToIpMapping' \in [Hosts -> [Urls -> Addresses \cup {NoIp}]]
      /\ waitingForDNSReply' \in [Hosts -> [Urls -> WaitingLists]]
  BY <1>1, <1>2, EmptyIsBag, WaitingListFacts DEF IInv, Typed
<1>8. Typed'
  BY <1>1, <1>4, <1>5, <1>6, <1>7 DEF IInv, Typed, dhcpVars, arpVars
<1>9. Grants' /\ Once'
  BY <1>1, OtherExchange
<1>10. ReplyIsTrue' /\ ArpTableIsTrue'
  BY <1>1, <1>6 DEF IInv, ReplyIsTrue, ArpTableIsTrue, arpVars, dhcpVars
<1>11. QED BY <1>8, <1>9, <1>10 DEF IInv

-----------------------------------------------------------------------------
LEMMA TrafficInv == ASSUME IInv, NEW e \in DOMAIN traffic, setTraffic(e) PROVE IInv'
<1> DEFINE h == JobHost[e.job]
           a == e.ip
           j == e.job
           mac == arpTable[h][a]
<1>1. /\ UNCHANGED <<dhcpVars, dnsVars, arpTable, unstarted, arrived, panicked>>
      /\ traffic' = BagRemove(traffic, e) /\ sendUDPPacket(h, a, j)
      /\ IsABag(wire) /\ IsABag(traffic)
  BY DEF setTraffic, IInv, Typed
<1>2. j \in Jobs /\ a \in Addresses /\ h \in Hosts
  BY JobsAssumption DEF IInv, Typed
<1>3. IsABag(traffic') /\ DOMAIN traffic' \subseteq DOMAIN traffic
  BY <1>1, BagTake DEF BagRemove, Ext!BagRemove
<1>4. PICK ps : /\ wire' = Sent(ps) /\ ps \subseteq Message
                /\ \A m \in ps : m.type \in {"DATA", "ARP REQUEST"}
  <2>1. CASE mac # NoMac
    <3> DEFINE m == [type |-> "DATA", to |-> mac, ip |-> a, job |-> j]
    <3>1. mac \in Hosts
      BY <1>2, <2>1 DEF IInv, Typed
    <3>2. m \in Message /\ m.type = "DATA"
      BY <1>2, <3>1 DEF Message
    <3> DEFINE ps == {m}
    <3>3. wire' = Sent(ps)
      BY <1>1, <2>1 DEF sendUDPPacket
    <3>4. ps \subseteq Message /\ \A q \in ps : q.type = "DATA"
      BY <3>2
    <3> HIDE DEF ps
    <3>5. QED BY <3>3, <3>4
  <2>2. CASE mac = NoMac
    <3>1. wire' = Sent(sendArpRequest(h, a))
      BY <1>1, <2>2 DEF sendUDPPacket
    <3>2. \A m \in sendArpRequest(h, a) : m \in Message /\ m.type = "ARP REQUEST"
      <4>1. ip[h] \in Addresses \cup {Unset}
        BY <1>2 DEF IInv, Typed
      <4> SUFFICES ASSUME NEW m \in sendArpRequest(h, a)
                   PROVE  m \in Message /\ m.type = "ARP REQUEST"
        OBVIOUS
      <4>2. PICK g \in Hosts : m = [type |-> "ARP REQUEST", to |-> g, from |-> h,
                                     sourceIp |-> ip[h], ip |-> a]
        BY DEF sendArpRequest
      <4>3. QED BY <1>2, <4>1, <4>2 DEF Message
    <3> DEFINE ps == sendArpRequest(h, a)
    <3> HIDE DEF ps
    <3>3. wire' = Sent(ps) /\ ps \subseteq Message /\ \A q \in ps : q.type = "ARP REQUEST"
      BY <3>1, <3>2 DEF ps
    <3>4. QED BY <3>3
  <2>3. QED BY <2>1, <2>2
<1>5. waitingForArpReply' \in [Hosts -> [Addresses -> WaitingLists]]
  <2> DEFINE w == waitingForArpReply[h][a]
             jb == SetToBag({j})
  <2>1. IsABag(w) /\ DOMAIN w \subseteq Jobs
    BY <1>2, WaitingListFacts DEF IInv, Typed
  <2>2. IsABag(jb) /\ DOMAIN jb = {j}
    BY SetIsBag
  <2>3. UNCHANGED waitingForArpReply
        \/ waitingForArpReply' = [waitingForArpReply EXCEPT ![h][a] = w (+) jb]
    BY <1>1 DEF sendUDPPacket
  <2> HIDE DEF w, jb
  <2>4. w (+) jb \in WaitingLists
    <3>1. IsABag(w (+) jb) /\ DOMAIN (w (+) jb) = DOMAIN w \cup DOMAIN jb
      BY <1>2, <2>1, <2>2, BagSum
    <3>2. DOMAIN (w (+) jb) \subseteq Jobs
      BY <1>2, <2>1, <2>2, <3>1
    <3> DEFINE b == w (+) jb
    <3>3. IsABag(b) /\ DOMAIN b \subseteq Jobs
      BY <3>1, <3>2
    <3> HIDE DEF b
    <3>4. b \in WaitingLists
      BY <3>3, WaitingListFacts
    <3>5. QED BY <3>4 DEF b
  <2>5. waitingForArpReply \in [Hosts -> [Addresses -> WaitingLists]]
    BY DEF IInv, Typed
  <2>6. QED BY <1>2, <2>3, <2>4, <2>5
<1>6. IsABag(wire') /\ DOMAIN wire' = DOMAIN wire \cup ps
  BY <1>1, <1>4, Sending
<1>7. Typed'
  BY <1>1, <1>3, <1>4, <1>5, <1>6 DEF IInv, Typed, dhcpVars, dnsVars
<1>8. Grants' /\ Once'
  BY <1>1, <1>4, OtherSending DEF DhcpTypes
<1>9. ReplyIsTrue' /\ ArpTableIsTrue'
  BY <1>1, <1>4, <1>6 DEF IInv, ReplyIsTrue, ArpTableIsTrue, dhcpVars
<1>10. QED BY <1>7, <1>8, <1>9 DEF IInv

LEMMA ArpInv == ASSUME IInv, NEW p \in DOMAIN wire, processARPPacket(p) PROVE IInv'
<1>1. /\ UNCHANGED <<dhcpVars, dnsVars, jobVars, panicked>>
      /\ IsABag(wire) /\ p \in Message
  BY DEF processARPPacket, IInv, Typed
<1>2. p.to \in Hosts /\ p.ip \in Addresses
  BY <1>1, MessageFacts DEF processARPPacket
<1>3. CASE p.type = "ARP REPLY" /\ p.destIp = ip[p.to]
  <2> DEFINE w == waitingForArpReply[p.to][p.ip]
             new == Payloads(w, p.ip, p.mac)
             rest == Exchanged(p, {})
  <2>1. /\ wire' = rest (+) new
        /\ arpTable' = [arpTable EXCEPT ![p.to][p.ip] = p.mac]
        /\ waitingForArpReply' = [waitingForArpReply EXCEPT ![p.to][p.ip] = EmptyBag]
    BY <1>3 DEF processARPPacket, onArpReplyPacketReceived
  <2>2. p.mac \in Hosts /\ ip[p.mac] = p.ip
    BY <1>1, <1>3, MessageFacts DEF IInv, ReplyIsTrue
  <2>3. IsABag(w) /\ DOMAIN w \subseteq Jobs
    BY <1>2, WaitingListFacts DEF IInv, Typed
  <2>4. /\ IsABag(new) /\ DOMAIN new \subseteq Message
        /\ \A m \in DOMAIN new : m.type = "DATA"
    <3> HIDE DEF w
    <3>1. /\ IsABag(Payloads(w, p.ip, p.mac))
          /\ DOMAIN Payloads(w, p.ip, p.mac)
               = {[type |-> "DATA", to |-> p.mac, ip |-> p.ip, job |-> j] : j \in DOMAIN w}
      BY <2>3, PayloadsIsBag
    <3>2. ASSUME NEW j \in Jobs
          PROVE  [type |-> "DATA", to |-> p.mac, ip |-> p.ip, job |-> j] \in Message
      BY <1>2, <2>2 DEF Message
    <3> HIDE DEF new
    <3>3. /\ IsABag(new)
          /\ DOMAIN new = {[type |-> "DATA", to |-> p.mac, ip |-> p.ip, job |-> j] : j \in DOMAIN w}
      BY <3>1 DEF new
    <3>4. QED BY <2>3, <3>2, <3>3
  <2>5. /\ IsABag(rest) /\ DOMAIN rest \subseteq DOMAIN wire
        /\ \A q \in DOMAIN wire \ {p} : rest[q] = wire[q]
    BY <1>1, ExchangedNothing
  <2> HIDE DEF new, rest
  <2>6. /\ IsABag(rest (+) new) /\ DOMAIN (rest (+) new) = DOMAIN rest \cup DOMAIN new
        /\ \A q \in DOMAIN rest \ DOMAIN new : (rest (+) new)[q] = rest[q]
    BY <2>4, <2>5, BagSum
  <2>7. \A q \in DOMAIN wire' : q.type \in DhcpTypes =>
          q \in DOMAIN wire /\ (q.type = "DISCOVER" => wire'[q] = 1)
    BY <1>3, <2>1, <2>4, <2>5, <2>6 DEF IInv, Once, DhcpTypes
  <2>8. Grants' /\ Once'
    BY <1>1, <2>7, OtherStep
  <2>9. /\ arpTable' \in [Hosts -> [Addresses -> Hosts \cup {NoMac}]]
        /\ waitingForArpReply' \in [Hosts -> [Addresses -> WaitingLists]]
    BY <1>2, <2>1, <2>2, EmptyIsBag, WaitingListFacts DEF IInv, Typed
  <2>10. Typed'
    BY <1>1, <2>1, <2>4, <2>5, <2>6, <2>9 DEF IInv, Typed, dhcpVars, dnsVars, jobVars
  <2>11. ReplyIsTrue'
    BY <1>1, <2>1, <2>4, <2>5, <2>6 DEF IInv, ReplyIsTrue, dhcpVars
  <2>12. ArpTableIsTrue'
    <3>1. ASSUME NEW h \in Hosts, NEW a \in Addresses, arpTable'[h][a] # NoMac
          PROVE  ip[arpTable'[h][a]] = a
      <4>1. CASE h = p.to /\ a = p.ip
        BY <1>2, <2>1, <2>2, <4>1 DEF IInv, Typed
      <4>2. CASE ~(h = p.to /\ a = p.ip)
        <5>1. arpTable'[h][a] = arpTable[h][a]
          BY <1>2, <2>1, <4>2 DEF IInv, Typed
        <5>2. QED BY <3>1, <5>1 DEF IInv, ArpTableIsTrue
      <4>3. QED BY <4>1, <4>2
    <3>2. UNCHANGED ip
      BY <1>1 DEF dhcpVars
    <3>3. QED BY <3>1, <3>2 DEF ArpTableIsTrue
  <2>13. QED BY <2>8, <2>10, <2>11, <2>12 DEF IInv
<1>4. CASE ~(p.type = "ARP REPLY" /\ p.destIp = ip[p.to])
  <2>1. PICK ps : /\ wire' = Exchanged(p, ps) /\ UNCHANGED arpVars
                  /\ ps \subseteq Message
                  /\ \A m \in ps : m.type = "ARP REPLY" /\ ip[m.mac] = m.ip
    <3>1. CASE p.type = "ARP REQUEST" /\ ip[p.to] = p.ip
      <4> DEFINE m == [type |-> "ARP REPLY", to |-> p.from, destIp |-> p.sourceIp,
                       ip |-> p.ip, mac |-> p.to]
      <4>1. p.from \in Hosts /\ p.sourceIp \in Addresses \cup {Unset}
        BY <1>1, <3>1, MessageFacts
      <4>2. m \in Message /\ m.type = "ARP REPLY" /\ ip[m.mac] = m.ip
        BY <1>2, <3>1, <4>1 DEF Message
      <4> DEFINE ps == {m}
      <4>3. wire' = Exchanged(p, ps) /\ UNCHANGED arpVars
        BY <3>1 DEF processARPPacket, sendArpReply
      <4>4. ps \subseteq Message /\ \A q \in ps : q.type = "ARP REPLY" /\ ip[q.mac] = q.ip
        BY <4>2
      <4> HIDE DEF ps
      <4>5. QED BY <4>3, <4>4
    <3>2. CASE ~(p.type = "ARP REQUEST" /\ ip[p.to] = p.ip)
      <4> DEFINE ps == {}
      <4>1. wire' = Exchanged(p, ps) /\ UNCHANGED arpVars
        BY <1>4, <3>2 DEF processARPPacket, sendArpReply
      <4>2. ps \subseteq Message /\ \A q \in ps : q.type = "ARP REPLY" /\ ip[q.mac] = q.ip
        OBVIOUS
      <4> HIDE DEF ps
      <4>3. QED BY <4>1, <4>2
    <3>3. QED BY <3>1, <3>2
  <2>2. p.type # "DISCOVER"
    BY DEF processARPPacket
  <2>3. IsABag(wire') /\ DOMAIN wire' \subseteq DOMAIN wire \cup ps
    BY <1>1, <2>1, Exchanging
  <2>4. Typed'
    BY <1>1, <2>1, <2>3 DEF IInv, Typed, dhcpVars, dnsVars, arpVars, jobVars
  <2>5. Grants' /\ Once'
    BY <1>1, <2>1, <2>2, OtherExchange DEF DhcpTypes
  <2>6. ReplyIsTrue' /\ ArpTableIsTrue'
    BY <1>1, <2>1, <2>3 DEF IInv, ReplyIsTrue, ArpTableIsTrue, arpVars, dhcpVars
  <2>7. QED BY <2>4, <2>5, <2>6 DEF IInv
<1>5. QED BY <1>3, <1>4

LEMMA DataInv == ASSUME IInv, NEW p \in DOMAIN wire, processUDPPacket(p) PROVE IInv'
<1>1. /\ UNCHANGED <<dhcpVars, dnsVars, arpVars, unstarted, traffic, panicked>>
      /\ IsABag(wire) /\ p \in Message /\ p.type = "DATA" /\ wire' = Exchanged(p, {})
  BY DEF processUDPPacket, IInv, Typed
<1>2. p.job \in Jobs
  BY <1>1, MessageFacts
<1>3. arrived' \in [Jobs -> Nat]
  BY <1>2 DEF processUDPPacket, IInv, Typed
<1>4. IsABag(wire') /\ DOMAIN wire' \subseteq DOMAIN wire
  BY <1>1, Exchanging
<1>5. Typed'
  BY <1>1, <1>3, <1>4 DEF IInv, Typed, dhcpVars, dnsVars, arpVars
<1>6. Grants' /\ Once'
  BY <1>1, OtherExchange
<1>7. ReplyIsTrue' /\ ArpTableIsTrue'
  BY <1>1, <1>4 DEF IInv, ReplyIsTrue, ArpTableIsTrue, arpVars, dhcpVars
<1>8. QED BY <1>5, <1>6, <1>7 DEF IInv

LEMMA LostInv == ASSUME IInv, NEW p \in DOMAIN wire, lost(p) PROVE IInv'
<1>1. /\ UNCHANGED <<dhcpVars, dnsVars, arpVars, jobVars, panicked>>
      /\ IsABag(wire) /\ wire' = Exchanged(p, {})
  BY DEF lost, IInv, Typed
<1>2. /\ IsABag(wire') /\ DOMAIN wire' \subseteq DOMAIN wire
      /\ \A q \in DOMAIN wire \ {p} : wire'[q] = wire[q]
      /\ wire[p] = 1 => p \notin DOMAIN wire'
  BY <1>1, Exchanging
<1>3. Typed'
  BY <1>1, <1>2 DEF IInv, Typed, dhcpVars, dnsVars, arpVars, jobVars
<1>4. \A q \in DOMAIN wire' : q.type \in DhcpTypes =>
        q \in DOMAIN wire /\ (q.type = "DISCOVER" => wire'[q] = 1)
  BY <1>2 DEF IInv, Once
<1>5. Grants' /\ Once'
  BY <1>1, <1>4, OtherStep
<1>6. ReplyIsTrue' /\ ArpTableIsTrue'
  BY <1>1, <1>2 DEF IInv, ReplyIsTrue, ArpTableIsTrue, arpVars, dhcpVars
<1>7. QED BY <1>3, <1>5, <1>6 DEF IInv

LEMMA NextInv == ASSUME IInv, [Next]_vars PROVE IInv'
<1>1. CASE UNCHANGED vars
  <2>1. Grants' /\ Once'
    BY <1>1, OtherStep DEF vars, dhcpVars, IInv, Once
  <2>2. Typed' /\ ReplyIsTrue' /\ ArpTableIsTrue'
    BY <1>1 DEF vars, IInv, Typed, ReplyIsTrue, ArpTableIsTrue
  <2>3. QED BY <2>1, <2>2 DEF IInv
<1>2. ASSUME NEW h \in Hosts, sendDHCPDiscover(h) PROVE IInv'
  BY <1>2, DiscoverSent
<1>3. ASSUME NEW j \in Jobs, attemptToStartTraffic(j) PROVE IInv'
  BY <1>3, StartInv
<1>4. ASSUME NEW e \in DOMAIN traffic, setTraffic(e) PROVE IInv'
  BY <1>4, TrafficInv
<1>5. ASSUME NEW p \in DOMAIN wire, ReceivePacket(p) PROVE IInv'
  BY <1>5, ServerInv, HostDhcpInv, DnsQueryInv, DnsReplyInv, ArpInv, DataInv, LostInv
     DEF ReceivePacket
<1>6. QED BY <1>1, <1>2, <1>3, <1>4, <1>5 DEF Next

-----------------------------------------------------------------------------
LEMMA Invariance == Spec => []IInv
<1>1. IInv /\ [Next]_vars => IInv'
  BY NextInv
<1>2. QED BY InitInv, <1>1, PTL DEF Spec

\* The state of hosts, servers and LAN stays well formed.
THEOREM LanTypes == Spec => []TypeOK
<1>1. IInv => TypeOK
  BY WaitingListFacts DEF IInv, Typed, TypeOK, IsWaitingList
<1>2. QED BY <1>1, Invariance, PTL

\* No two hosts ever have the same address, and none has the DNS server's: what
\* DHCP grants is marked and granted once, and what is configured is reserved.
THEOREM AddressesAreUnique == Spec => []UniqueAddresses
<1>1. IInv => UniqueAddresses
  <2> SUFFICES ASSUME IInv, NEW h \in Hosts, ip[h] # Unset
               PROVE  ip[h] # DnsIp /\ \A g \in Hosts \ {h} : ip[g] # ip[h]
    BY DEF UniqueAddresses
  <2>1. ip[h] \in Addresses
    BY DEF IInv, Typed
  <2>2. \A g \in Hosts : ip[g] = ip[h] => g = h
    BY <2>1 DEF IInv, Grants, Granted
  <2>3. Granted(h, ip[h])
    BY DEF Granted
  <2>4. \/ StaticIp[h] # Unset /\ ip[h] = StaticIp[h]
        \/ ip[h] \in Pool /\ ip[h] \notin Reserved
    BY <2>1, <2>3 DEF IInv, Typed, Grants
  <2>5. ip[h] # DnsIp
    BY <2>4, ReservedAssumption, DistinctAssumption DEF Static
  <2>6. QED BY <2>2, <2>5
<1>2. QED BY <1>1, Invariance, PTL

\* What a host remembers from ARP stays true, whatever DHCP does meanwhile.
THEOREM ArpTablesAreTrue == Spec => []ArpTableIsTrue
<1>1. IInv => ArpTableIsTrue
  BY DEF IInv
<1>2. QED BY <1>1, Invariance, PTL

-----------------------------------------------------------------------------
(***************************************************************************)
(* The pool: what is marked beyond Reserved was granted to a host whose    *)
(* one DISCOVER is gone.                                                   *)
(***************************************************************************)
DhcpHosts == {h \in Hosts : StaticIp[h] = Unset}
\* The hosts the server has not answered yet, and those it has (or never will).
Ahead == undiscovered \cup {p.from : p \in InFlight("DISCOVER")}
Served == DhcpHosts \ Ahead

PoolInv ==
  /\ Cardinality(ipPoolUsed \ Reserved) <= Cardinality(Served)
  /\ panicked => Cardinality(Pool \ Reserved) < Cardinality(DhcpHosts)

\* A new DISCOVER is one that scheduleDHCPPacket had scheduled.
LEMMA NewDiscovers ==
  ASSUME IInv, Next, NEW q \in DOMAIN wire' \ DOMAIN wire, q.type = "DISCOVER"
  PROVE  q.from \in undiscovered
<1>1. IsABag(wire)
  BY DEF IInv, Typed
<1>2. ASSUME NEW h \in Hosts, sendDHCPDiscover(h) PROVE q.from \in undiscovered
  <2> DEFINE m == [type |-> "DISCOVER", from |-> h]
             ps == {m}
  <2>1. wire' = Sent(ps) /\ h \in undiscovered
    BY <1>2 DEF sendDHCPDiscover
  <2>2. m.from = h
    OBVIOUS
  <2> HIDE DEF ps, m
  <2>3. DOMAIN wire' = DOMAIN wire \cup ps
    BY <1>1, <2>1, Sending
  <2>4. q = m
    BY <2>3 DEF ps
  <2>5. QED BY <2>1, <2>2, <2>4
<1>3. ASSUME NEW ps, wire' = Sent(ps), \A m \in ps : m.type # "DISCOVER" PROVE FALSE
  BY <1>1, <1>3, Sending
<1>4. ASSUME NEW p \in DOMAIN wire, NEW ps, wire' = Exchanged(p, ps), \A m \in ps : m.type # "DISCOVER"
      PROVE  FALSE
  BY <1>1, <1>4, Exchanging
<1>5. ASSUME NEW p \in DOMAIN wire, NEW m, wire' = Exchanged(p, {m}), m.type # "DISCOVER" PROVE FALSE
  <2> DEFINE ps == {m}
  <2>1. wire' = Exchanged(p, ps) /\ \A x \in ps : x.type # "DISCOVER"
    BY <1>5
  <2> HIDE DEF ps
  <2>2. QED BY <1>4, <2>1
<1>6. ASSUME NEW j \in Jobs, attemptToStartTraffic(j) PROVE FALSE
  <2>1. CASE UNCHANGED wire
    BY <2>1
  <2>2. CASE ~UNCHANGED wire
    <3>1. \E h, d, u : wire' = Sent({[type |-> "QUERY", from |-> h, dnsIp |-> d, url |-> u]})
      BY <1>6, <2>2 DEF attemptToStartTraffic
    <3>2. PICK h, d, u : wire' = Sent({[type |-> "QUERY", from |-> h, dnsIp |-> d, url |-> u]})
      BY <3>1
    <3>3. QED BY <1>3, <3>2
  <2>3. QED BY <2>1, <2>2
<1>7. ASSUME NEW e \in DOMAIN traffic, setTraffic(e) PROVE FALSE
  <2> DEFINE h == JobHost[e.job]
             mac == arpTable[h][e.ip]
             data == {[type |-> "DATA", to |-> mac, ip |-> e.ip, job |-> e.job]}
             request == sendArpRequest(h, e.ip)
  <2>1. wire' = Sent(data) \/ wire' = Sent(request)
    BY <1>7 DEF setTraffic, sendUDPPacket
  <2>2. \A m \in request : m.type = "ARP REQUEST"
    <3> SUFFICES ASSUME NEW m \in request PROVE m.type = "ARP REQUEST"
      OBVIOUS
    <3>1. PICK g : m = [type |-> "ARP REQUEST", to |-> g, from |-> h, sourceIp |-> ip[h], ip |-> e.ip]
      BY DEF sendArpRequest
    <3>2. QED BY <3>1
  <2>3. \A m \in data : m.type = "DATA"
    OBVIOUS
  <2> HIDE DEF h, data, request
  <2>4. QED BY <1>3, <2>1, <2>2, <2>3
<1>8. ASSUME NEW p \in DOMAIN wire, ReceivePacket(p) PROVE FALSE
  <2>1. CASE DhcpServerReceives(p)
    <3> DEFINE offer(a) == [type |-> "OFFER", to |-> p.from, ip |-> a]
               ack == [type |-> "ACK", to |-> p.from, ip |-> p.ip]
    <3>1. \/ UNCHANGED wire
          \/ \E a \in Pool : wire' = Exchanged(p, {offer(a)})
          \/ wire' = Exchanged(p, {ack})
      BY <2>1 DEF DhcpServerReceives, handleDHCPDiscover, handleDHCPRequest
    <3>2. ack.type # "DISCOVER" /\ \A a : offer(a).type # "DISCOVER"
      OBVIOUS
    <3> HIDE DEF offer, ack
    <3>3. QED BY <1>5, <3>1, <3>2
  <2>2. CASE processDHCPPacket(p)
    <3> DEFINE m == [type |-> "REQUEST", from |-> p.to, ip |-> p.ip]
    <3>1. wire' = Exchanged(p, {m}) \/ wire' = Exchanged(p, {})
      BY <2>2 DEF processDHCPPacket
    <3>2. m.type # "DISCOVER"
      OBVIOUS
    <3> HIDE DEF m
    <3>3. QED BY <1>4, <1>5, <3>1, <3>2
  <2>3. CASE handleDNSQuery(p)
    <3> DEFINE m == [type |-> "ANSWER", to |-> p.from, url |-> p.url, ip |-> Records[p.url]]
    <3>1. wire' = Exchanged(p, {m}) \/ wire' = Exchanged(p, {})
      BY <2>3 DEF handleDNSQuery
    <3>2. m.type # "DISCOVER"
      OBVIOUS
    <3> HIDE DEF m
    <3>3. QED BY <1>4, <1>5, <3>1, <3>2
  <2>4. CASE onDNSReplyPacketReceived(p) \/ processUDPPacket(p) \/ lost(p)
    <3>1. wire' = Exchanged(p, {})
      BY <2>4 DEF onDNSReplyPacketReceived, processUDPPacket, lost
    <3>2. QED BY <1>4, <3>1
  <2>5. CASE processARPPacket(p)
    <3>1. CASE p.type = "ARP REPLY" /\ p.destIp = ip[p.to]
      <4> DEFINE w == waitingForArpReply[p.to][p.ip]
                 new == Payloads(w, p.ip, p.mac)
                 rest == Exchanged(p, {})
      <4>1. wire' = rest (+) new
        BY <2>5, <3>1 DEF processARPPacket, onArpReplyPacketReceived
      <4>2. DOMAIN rest \subseteq DOMAIN wire
        BY <1>1, ExchangedNothing
      <4>3. \A m \in DOMAIN new : m.type = "DATA"
        BY DEF Payloads
      <4>4. DOMAIN wire' = DOMAIN rest \cup DOMAIN new
        BY <4>1 DEF (+)
      <4> HIDE DEF new, rest
      <4>5. QED BY <4>2, <4>3, <4>4
    <3>2. CASE ~(p.type = "ARP REPLY" /\ p.destIp = ip[p.to])
      <4> DEFINE m == [type |-> "ARP REPLY", to |-> p.from, destIp |-> p.sourceIp,
                       ip |-> p.ip, mac |-> p.to]
      <4>1. wire' = Exchanged(p, {m}) \/ wire' = Exchanged(p, {})
        BY <2>5, <3>2 DEF processARPPacket, sendArpReply
      <4>2. m.type # "DISCOVER"
        OBVIOUS
      <4> HIDE DEF m
      <4>3. QED BY <1>4, <1>5, <4>1, <4>2
    <3>3. QED BY <3>1, <3>2
  <2>6. QED BY <1>8, <2>1, <2>2, <2>3, <2>4, <2>5 DEF ReceivePacket
<1>9. QED BY <1>2, <1>6, <1>7, <1>8 DEF Next

\* Nobody gets ahead of the server again, and only its DISCOVER uses the pool.
LEMMA PoolStep ==
  ASSUME IInv, Next
  PROVE  /\ Ahead' \subseteq Ahead
         /\ \/ UNCHANGED <<ipPoolUsed, panicked>>
            \/ \E h \in DhcpHosts \cap Ahead, a \in Pool :
                 h \notin Ahead' /\ ipPoolUsed' = ipPoolUsed \cup {a} /\ UNCHANGED panicked
            \/ \E h \in DhcpHosts \cap Ahead : Pool \subseteq ipPoolUsed /\ UNCHANGED ipPoolUsed
<1>1. undiscovered' \subseteq undiscovered
  BY DEF Next, sendDHCPDiscover, attemptToStartTraffic, setTraffic, ReceivePacket, DhcpServerReceives,
         processDHCPPacket, handleDNSQuery, onDNSReplyPacketReceived, processARPPacket,
         processUDPPacket, lost, dhcpVars
<1>2. \A q \in InFlight("DISCOVER")' : q \in InFlight("DISCOVER") \/ q.from \in undiscovered
  BY NewDiscovers DEF InFlight
<1>3. Ahead' \subseteq Ahead
  BY <1>1, <1>2 DEF Ahead
<1>4. CASE UNCHANGED <<ipPoolUsed, panicked>>
  BY <1>3, <1>4
<1>5. CASE ~UNCHANGED <<ipPoolUsed, panicked>>
  <2>1. PICK p \in DOMAIN wire : p.type = "DISCOVER" /\ DhcpServerReceives(p) /\ handleDHCPDiscover(p)
    BY <1>5 DEF Next, sendDHCPDiscover, attemptToStartTraffic, setTraffic, ReceivePacket, DhcpServerReceives,
         handleDHCPRequest, processDHCPPacket, handleDNSQuery, onDNSReplyPacketReceived, processARPPacket,
         processUDPPacket, lost, dhcpVars
  <2>2. p \in Message /\ IsABag(wire) /\ wire[p] = 1 /\ StaticIp[p.from] = Unset
    BY <2>1 DEF IInv, Typed, Once
  <2>3. p.from \in Hosts /\ p = [type |-> "DISCOVER", from |-> p.from]
    BY <2>1, <2>2, MessageFacts
  <2>4. p.from \in DhcpHosts \cap Ahead
    BY <2>1, <2>2, <2>3 DEF DhcpHosts, Ahead, InFlight
  <2>5. CASE Pool \subseteq ipPoolUsed /\ UNCHANGED ipPoolUsed
    BY <1>3, <2>4, <2>5
  <2>6. CASE ~(Pool \subseteq ipPoolUsed /\ UNCHANGED ipPoolUsed)
    <3>1. PICK a \in Pool \ ipPoolUsed :
            /\ ipPoolUsed' = ipPoolUsed \cup {a} /\ UNCHANGED panicked
            /\ wire' = Exchanged(p, {[type |-> "OFFER", to |-> p.from, ip |-> a]})
      BY <2>1, <2>6 DEF handleDHCPDiscover
    <3>2. p \notin DOMAIN wire'
      <4> DEFINE m == [type |-> "OFFER", to |-> p.from, ip |-> a]
                 ps == {m}
      <4>1. p \notin ps
        BY <2>1
      <4>2. wire' = Exchanged(p, ps)
        BY <3>1
      <4> HIDE DEF ps
      <4>3. QED BY <2>2, <4>1, <4>2, Exchanging
    <3>3. p.from \notin undiscovered'
      BY <1>1, <2>1 DEF IInv, Once
    <3>4. \A q \in DOMAIN wire' : q.type = "DISCOVER" => q.from # p.from
      <4> SUFFICES ASSUME NEW q \in DOMAIN wire', q.type = "DISCOVER", q.from = p.from PROVE FALSE
        OBVIOUS
      <4>1. q \in DOMAIN wire
        BY <2>1, NewDiscovers DEF IInv, Once
      <4>2. q = [type |-> "DISCOVER", from |-> q.from]
        BY <4>1, MessageFacts DEF IInv, Typed
      <4>3. QED BY <2>3, <3>2, <4>2
    <3>5. p.from \notin Ahead'
      BY <3>3, <3>4 DEF Ahead, InFlight
    <3>6. QED BY <1>3, <2>4, <3>1, <3>5
  <2>7. QED BY <2>5, <2>6
<1>6. QED BY <1>4, <1>5

LEMMA PoolStart == Init => PoolInv
<1> SUFFICES ASSUME Init PROVE PoolInv
  OBVIOUS
<1>1. ipPoolUsed \ Reserved = {} /\ ~panicked
  BY DEF Init
<1>2. IsFiniteSet(Served)
  BY FiniteAssumption, FiniteParts DEF Served, DhcpHosts
<1>3. Cardinality({}) = 0 /\ Cardinality(Served) \in Nat
  BY <1>2, Counting
<1>4. QED BY <1>1, <1>3 DEF PoolInv

LEMMA PoolInvStep == ASSUME IInv, PoolInv, [Next]_vars PROVE PoolInv'
<1>1. CASE UNCHANGED vars
  BY <1>1 DEF vars, PoolInv, Served, Ahead, InFlight
<1>2. CASE Next
  <2>0. IsFiniteSet(DhcpHosts) /\ IsFiniteSet(Served) /\ IsFiniteSet(Served')
        /\ IsFiniteSet(ipPoolUsed \ Reserved) /\ IsFiniteSet(Pool \ Reserved)
    BY FiniteAssumption, FiniteParts DEF Served, DhcpHosts, IInv, Typed
  <2>1. Served \subseteq Served' /\ Served' \subseteq DhcpHosts
    BY <1>2, PoolStep DEF Served
  <2>2. /\ Cardinality(Served) \in Nat /\ Cardinality(Served') \in Nat
        /\ Cardinality(Served) <= Cardinality(Served')
        /\ Cardinality(DhcpHosts) \in Nat
        /\ Cardinality(ipPoolUsed \ Reserved) \in Nat
    BY <2>0, <2>1, Counting
  <2>3. CASE UNCHANGED <<ipPoolUsed, panicked>>
    BY <2>2, <2>3 DEF PoolInv
  <2>4. ASSUME NEW h \in DhcpHosts \cap Ahead, NEW a \in Pool, h \notin Ahead',
               ipPoolUsed' = ipPoolUsed \cup {a}, UNCHANGED panicked
        PROVE  PoolInv'
    <3>1. h \in Served' \ Served
      BY <2>4 DEF Served
    <3>2. Cardinality(Served) + 1 <= Cardinality(Served')
      BY <2>0, <2>1, <3>1, Counting
    <3>3. ipPoolUsed' \ Reserved \subseteq (ipPoolUsed \ Reserved) \cup {a}
      BY <2>4
    <3>4. IsFiniteSet((ipPoolUsed \ Reserved) \cup {a})
      BY <2>0, FiniteParts
    <3>5. /\ Cardinality(ipPoolUsed' \ Reserved) \in Nat
          /\ Cardinality((ipPoolUsed \ Reserved) \cup {a}) \in Nat
          /\ Cardinality(ipPoolUsed' \ Reserved) <= Cardinality((ipPoolUsed \ Reserved) \cup {a})
          /\ Cardinality((ipPoolUsed \ Reserved) \cup {a}) <= Cardinality(ipPoolUsed \ Reserved) + 1
      BY <2>0, <3>3, <3>4, Counting
    <3>6. Cardinality(ipPoolUsed' \ Reserved) <= Cardinality(Served')
      BY <2>2, <3>2, <3>5 DEF PoolInv
    <3>7. QED BY <2>4, <3>6 DEF PoolInv
  <2>5. ASSUME NEW h \in DhcpHosts \cap Ahead, Pool \subseteq ipPoolUsed, UNCHANGED ipPoolUsed
        PROVE  PoolInv'
    <3>1. Served \subseteq DhcpHosts /\ h \in DhcpHosts \ Served
      BY DEF Served
    <3>2. Cardinality(Served) + 1 <= Cardinality(DhcpHosts)
      BY <2>0, <3>1, Counting
    <3>3. Pool \ Reserved \subseteq ipPoolUsed \ Reserved
      BY <2>5
    <3>4. Cardinality(Pool \ Reserved) \in Nat /\ Cardinality(Pool \ Reserved) <= Cardinality(ipPoolUsed \ Reserved)
      BY <2>0, <3>3, Counting
    <3>5. Cardinality(Pool \ Reserved) < Cardinality(DhcpHosts)
      BY <2>2, <3>2, <3>4 DEF PoolInv
    <3>6. Cardinality(ipPoolUsed \ Reserved) <= Cardinality(Served')
      BY <2>2 DEF PoolInv
    <3>7. QED BY <2>5, <3>5, <3>6 DEF PoolInv
  <2>6. QED BY <1>2, <2>3, <2>4, <2>5, PoolStep
<1>3. QED BY <1>1, <1>2

\* A pool with an address for each host that has none never runs out: the server
\* marks one for each DISCOVER, and each host sends one.
THEOREM PoolIsEnough == Spec => []PoolSuffices
<1>1. Init => IInv /\ PoolInv
  BY InitInv, PoolStart
<1>2. IInv /\ PoolInv /\ [Next]_vars => IInv' /\ PoolInv'
  BY NextInv, PoolInvStep
<1>3. PoolInv => PoolSuffices
  <2> SUFFICES ASSUME PoolInv PROVE PoolSuffices
    OBVIOUS
  <2>1. IsFiniteSet(DhcpHosts) /\ IsFiniteSet(Pool \ Reserved)
    BY FiniteAssumption, FiniteParts DEF DhcpHosts
  <2>2. Cardinality(DhcpHosts) \in Nat /\ Cardinality(Pool \ Reserved) \in Nat
    BY <2>1, Counting
  <2>3. QED BY <2>2 DEF PoolInv, PoolSuffices, DhcpHosts
<1>4. QED BY <1>1, <1>2, <1>3, PTL DEF Spec

-----------------------------------------------------------------------------
\* A job is in one place: the parts of Places.  The entries with key in S of a bag, as places.
Inside(kind, b, S) == {<<kind, e, b[e]>> : e \in S \cap DOMAIN b}
\* The entries of j in the lists that are kept for each pair of keys.
Waiting(kind, lists, W, j) ==
  {<<kind, w, lists[w[1]][w[2]][j]>> : w \in {w \in W : j \in DOMAIN lists[w[1]][w[2]]}}

EventsOf(j) == {e \in [job : Jobs, ip : Addresses] : e.job = j}
PayloadsOf(j) == {p \in Message : p.type = "DATA" /\ p.job = j}

AtStart(j) == {<<"unstarted", i, 1>> : i \in unstarted \cap {j}}
AtDns(j) == Waiting("DNS", waitingForDNSReply, Hosts \X Urls, j)
AtTraffic(j) == Inside("traffic", traffic, EventsOf(j))
AtArp(j) == Waiting("ARP", waitingForArpReply, Hosts \X Addresses, j)
OnWire(j) == Inside("wire", wire, PayloadsOf(j))
AtEnd(j) == {<<"arrived", i, arrived[i]>> : i \in {i \in {j} : arrived[i] > 0}}

Placed(j) == (\E x : Places(j) = {x} /\ x[3] = 1) \/ (Lossy /\ Places(j) = {})
DataIsTrue == \A p \in DOMAIN wire : p.type = "DATA" => ip[p.to] = p.ip

LEMMA InsideSum ==
  ASSUME NEW kind, NEW S, NEW b, IsABag(b), NEW c, IsABag(c)
  PROVE  /\ S \cap DOMAIN c = {} => Inside(kind, b (+) c, S) = Inside(kind, b, S)
         /\ \A x : S \cap DOMAIN c = {x} /\ Inside(kind, b, S) = {}
              => Inside(kind, b (+) c, S) = {<<kind, x, c[x]>>}
<1> DEFINE d == b (+) c
<1>1. /\ DOMAIN d = DOMAIN b \cup DOMAIN c
      /\ \A x \in DOMAIN b \ DOMAIN c : d[x] = b[x]
      /\ \A x \in DOMAIN c \ DOMAIN b : d[x] = c[x]
  BY BagSum
<1> HIDE DEF d
<1>2. ASSUME S \cap DOMAIN c = {} PROVE Inside(kind, d, S) = Inside(kind, b, S)
  <2>1. S \cap DOMAIN d = S \cap DOMAIN b /\ \A e \in S \cap DOMAIN b : d[e] = b[e]
    BY <1>1, <1>2
  <2>2. QED BY <2>1 DEF Inside
<1>3. ASSUME NEW x, S \cap DOMAIN c = {x}, Inside(kind, b, S) = {}
      PROVE  Inside(kind, d, S) = {<<kind, x, c[x]>>}
  <2>1. S \cap DOMAIN b = {}
    BY <1>3 DEF Inside
  <2>2. S \cap DOMAIN d = {x} /\ d[x] = c[x]
    BY <1>1, <1>3, <2>1
  <2>3. QED BY <2>2 DEF Inside
<1>4. QED BY <1>2, <1>3 DEF d

LEMMA InsideTake ==
  ASSUME NEW kind, NEW S, NEW b, IsABag(b), NEW m \in DOMAIN b
  PROVE  /\ m \notin S => Inside(kind, BagRemove(b, m), S) = Inside(kind, b, S)
         /\ m \in S /\ b[m] = 1
              => Inside(kind, BagRemove(b, m), S) = Inside(kind, b, S) \ {<<kind, m, 1>>}
<1> DEFINE d == BagRemove(b, m)
<1>1. /\ DOMAIN b \ {m} \subseteq DOMAIN d /\ DOMAIN d \subseteq DOMAIN b
      /\ \A x \in DOMAIN b \ {m} : d[x] = b[x]
      /\ b[m] = 1 => m \notin DOMAIN d
  BY BagTake DEF BagRemove, Ext!BagRemove
<1> HIDE DEF d
<1>2. ASSUME m \notin S PROVE Inside(kind, d, S) = Inside(kind, b, S)
  <2>1. S \cap DOMAIN d = S \cap DOMAIN b /\ \A e \in S \cap DOMAIN b : d[e] = b[e]
    BY <1>1, <1>2
  <2>2. QED BY <2>1 DEF Inside
<1>3. ASSUME m \in S, b[m] = 1
      PROVE  Inside(kind, d, S) = Inside(kind, b, S) \ {<<kind, m, 1>>}
  <2>1. S \cap DOMAIN d = (S \cap DOMAIN b) \ {m} /\ \A e \in S \cap DOMAIN d : d[e] = b[e]
    BY <1>1, <1>3
  <2>2. QED BY <1>3, <2>1 DEF Inside
<1>4. QED BY <1>2, <1>3 DEF d

\* The list b with j, which was not in it.
OneMore(b, j, d) ==
  j \notin DOMAIN b =>
    DOMAIN d = DOMAIN b \cup {j} /\ d[j] = 1 /\ \A x \in DOMAIN b : d[x] = b[x]

LEMMA SumIsOneMore == ASSUME NEW b, IsABag(b), NEW j PROVE OneMore(b, j, b (+) SetToBag({j}))
<1> DEFINE c == SetToBag({j})
           d == b (+) c
<1>1. IsABag(c) /\ DOMAIN c = {j} /\ c[j] = 1
  BY SetIsBag
<1> HIDE DEF c
<1>2. /\ DOMAIN d = DOMAIN b \cup DOMAIN c
      /\ \A x \in DOMAIN b \ DOMAIN c : d[x] = b[x]
      /\ \A x \in DOMAIN c \ DOMAIN b : d[x] = c[x]
  BY <1>1, BagSum
<1> HIDE DEF d
<1>3. OneMore(b, j, d)
  BY <1>1, <1>2 DEF OneMore
<1>4. QED BY <1>3 DEF d, c

LEMMA ListGains ==
  ASSUME NEW kind, NEW W, NEW lists, NEW new, NEW s, NEW t, <<s, t>> \in W, NEW j,
         OneMore(lists[s][t], j, new[s][t]),
         \A w \in W \ {<<s, t>>} : new[w[1]][w[2]] = lists[w[1]][w[2]],
         Waiting(kind, lists, W, j) = {}
  PROVE  /\ Waiting(kind, new, W, j) = {<<kind, <<s, t>>, 1>>}
         /\ \A i : i # j => Waiting(kind, new, W, i) = Waiting(kind, lists, W, i)
<1> DEFINE b == lists[s][t]
           d == new[s][t]
<1>3. \A w \in W : j \notin DOMAIN lists[w[1]][w[2]]
  BY DEF Waiting
<1>4. j \notin DOMAIN b
  BY <1>3
<1>5. /\ DOMAIN d = DOMAIN b \cup {j} /\ d[j] = 1
      /\ \A x \in DOMAIN b : d[x] = b[x]
  BY <1>4 DEF OneMore
<1>6. new[s][t] = d
  OBVIOUS
<1> HIDE DEF d, b
<1>7. {w \in W : j \in DOMAIN new[w[1]][w[2]]} = {<<s, t>>}
  BY <1>3, <1>5, <1>6
<1>8. Waiting(kind, new, W, j) = {<<kind, <<s, t>>, 1>>}
  BY <1>5, <1>6, <1>7 DEF Waiting
<1>9. ASSUME NEW i, i # j PROVE Waiting(kind, new, W, i) = Waiting(kind, lists, W, i)
  <2> DEFINE L(ls) == {w \in W : i \in DOMAIN ls[w[1]][w[2]]}
  <2>1. \A w \in W : /\ i \in DOMAIN new[w[1]][w[2]] <=> i \in DOMAIN lists[w[1]][w[2]]
                     /\ i \in DOMAIN lists[w[1]][w[2]] => new[w[1]][w[2]][i] = lists[w[1]][w[2]][i]
    BY <1>5, <1>6, <1>9 DEF b
  <2>2. L(new) = L(lists)
    BY <2>1
  <2>3. \A w \in L(lists) : new[w[1]][w[2]][i] = lists[w[1]][w[2]][i]
    BY <2>1
  <2>4. QED BY <2>2, <2>3 DEF Waiting
<1>10. QED BY <1>8, <1>9

LEMMA ListEmptied ==
  ASSUME NEW kind, NEW S, NEW T, NEW lists \in [S -> [T -> WaitingLists]], NEW s \in S, NEW t \in T,
         NEW j
  PROVE  LET next == [lists EXCEPT ![s][t] = EmptyBag]
         IN  /\ j \notin DOMAIN lists[s][t] =>
                  Waiting(kind, next, S \X T, j) = Waiting(kind, lists, S \X T, j)
             /\ j \in DOMAIN lists[s][t] =>
                  /\ Waiting(kind, next, S \X T, j)
                       = Waiting(kind, lists, S \X T, j) \ {<<kind, <<s, t>>, lists[s][t][j]>>}
                  /\ <<kind, <<s, t>>, lists[s][t][j]>> \in Waiting(kind, lists, S \X T, j)
<1> DEFINE next == [lists EXCEPT ![s][t] = EmptyBag]
           L(ls) == {w \in S \X T : j \in DOMAIN ls[w[1]][w[2]]}
<1>1. \A w \in S \X T : next[w[1]][w[2]] = IF w = <<s, t>> THEN EmptyBag ELSE lists[w[1]][w[2]]
  OBVIOUS
<1> HIDE DEF next
<1>2. L(next) = L(lists) \ {<<s, t>>}
  BY <1>1, EmptyIsBag
<1>3. \A w \in L(next) : next[w[1]][w[2]][j] = lists[w[1]][w[2]][j]
  BY <1>1, EmptyIsBag
<1>4. j \in DOMAIN lists[s][t] <=> <<s, t>> \in L(lists)
  OBVIOUS
<1>5. ASSUME j \notin DOMAIN lists[s][t]
      PROVE  Waiting(kind, next, S \X T, j) = Waiting(kind, lists, S \X T, j)
  BY <1>2, <1>3, <1>4, <1>5 DEF Waiting
<1>6. ASSUME j \in DOMAIN lists[s][t]
      PROVE  /\ Waiting(kind, next, S \X T, j)
                  = Waiting(kind, lists, S \X T, j) \ {<<kind, <<s, t>>, lists[s][t][j]>>}
             /\ <<kind, <<s, t>>, lists[s][t][j]>> \in Waiting(kind, lists, S \X T, j)
  <2>1. Waiting(kind, lists, S \X T, j) = {<<kind, w, lists[w[1]][w[2]][j]>> : w \in L(lists)}
    BY DEF Waiting
  <2>2. Waiting(kind, next, S \X T, j) = {<<kind, w, lists[w[1]][w[2]][j]>> : w \in L(lists) \ {<<s, t>>}}
    BY <1>2, <1>3 DEF Waiting
  <2>3. <<s, t>> \in L(lists) /\ <<s, t>>[1] = s /\ <<s, t>>[2] = t
    BY <1>4, <1>6
  <2> HIDE DEF L
  <2>4. QED BY <2>1, <2>2, <2>3
<1>7. QED BY <1>5, <1>6 DEF next

LEMMA PlacesAre ==
  ASSUME Typed, NEW j \in Jobs
  PROVE  Places(j) = AtStart(j) \cup AtDns(j) \cup AtTraffic(j) \cup AtArp(j) \cup OnWire(j) \cup AtEnd(j)
<1>1. {e \in DOMAIN traffic : e.job = j} = EventsOf(j) \cap DOMAIN traffic
  BY DEF Typed, EventsOf
<1>2. DataOf(j) = PayloadsOf(j) \cap DOMAIN wire
  BY DEF Typed, DataOf, InFlight, PayloadsOf
<1>3. QED BY <1>1, <1>2 DEF Places, AtStart, AtDns, AtTraffic, AtArp, OnWire, AtEnd, Inside, Waiting

LEMMA OnePart ==
  ASSUME NEW x, NEW p, NEW q, {x} = p \cup q, NEW k,
         \A y \in p : y[1] = k, \A y \in q : y[1] # k
  PROVE  p = IF x[1] = k THEN {x} ELSE {}
<1>1. CASE x \in p
  BY <1>1
<1>2. CASE x \notin p
  BY <1>2
<1>3. QED BY <1>1, <1>2

\* Where a job's only place is, the rest is empty.
LEMMA Only ==
  ASSUME Typed, NEW j \in Jobs, NEW x, Places(j) = {x}
  PROVE  /\ AtStart(j) = IF x[1] = "unstarted" THEN {x} ELSE {}
         /\ AtDns(j) = IF x[1] = "DNS" THEN {x} ELSE {}
         /\ AtTraffic(j) = IF x[1] = "traffic" THEN {x} ELSE {}
         /\ AtArp(j) = IF x[1] = "ARP" THEN {x} ELSE {}
         /\ OnWire(j) = IF x[1] = "wire" THEN {x} ELSE {}
         /\ AtEnd(j) = IF x[1] = "arrived" THEN {x} ELSE {}
<1>1. /\ \A y \in AtStart(j) : y[1] = "unstarted"
      /\ \A y \in AtDns(j) : y[1] = "DNS"
      /\ \A y \in AtTraffic(j) : y[1] = "traffic"
      /\ \A y \in AtArp(j) : y[1] = "ARP"
      /\ \A y \in OnWire(j) : y[1] = "wire"
      /\ \A y \in AtEnd(j) : y[1] = "arrived"
  BY DEF AtStart, AtDns, AtTraffic, AtArp, OnWire, AtEnd, Inside, Waiting
<1>2. {x} = AtStart(j) \cup AtDns(j) \cup AtTraffic(j) \cup AtArp(j) \cup OnWire(j) \cup AtEnd(j)
  BY PlacesAre
<1> DEFINE a == AtStart(j)  b == AtDns(j)  c == AtTraffic(j)  d == AtArp(j)  e == OnWire(j)  f == AtEnd(j)
<1> HIDE DEF a, b, c, d, e, f
<1>3. {x} = a \cup b \cup c \cup d \cup e \cup f
  BY <1>2 DEF a, b, c, d, e, f
<1>4. /\ \A y \in a : y[1] = "unstarted"
      /\ \A y \in b : y[1] = "DNS"
      /\ \A y \in c : y[1] = "traffic"
      /\ \A y \in d : y[1] = "ARP"
      /\ \A y \in e : y[1] = "wire"
      /\ \A y \in f : y[1] = "arrived"
  BY <1>1 DEF a, b, c, d, e, f
<1>0. \A y : y = x <=> y \in a \/ y \in b \/ y \in c \/ y \in d \/ y \in e \/ y \in f
  BY <1>3
<1>5. /\ a = (IF x[1] = "unstarted" THEN {x} ELSE {})
      /\ b = (IF x[1] = "DNS" THEN {x} ELSE {})
      /\ c = (IF x[1] = "traffic" THEN {x} ELSE {})
      /\ d = (IF x[1] = "ARP" THEN {x} ELSE {})
      /\ e = (IF x[1] = "wire" THEN {x} ELSE {})
      /\ f = (IF x[1] = "arrived" THEN {x} ELSE {})
  <2>1. a = (IF x[1] = "unstarted" THEN {x} ELSE {})
    <3> DEFINE q == b \cup c \cup d \cup e \cup f
    <3>0. \A y : y \in q <=> y \in b \/ y \in c \/ y \in d \/ y \in e \/ y \in f
      OBVIOUS
    <3> HIDE DEF q
    <3>1. {x} = a \cup q
      BY <1>0, <3>0
    <3>2. \A y \in q : y[1] # "unstarted"
      BY <1>4, <3>0
    <3>3. QED BY <1>4, <3>1, <3>2, OnePart
  <2>2. b = (IF x[1] = "DNS" THEN {x} ELSE {})
    <3> DEFINE q == a \cup c \cup d \cup e \cup f
    <3>0. \A y : y \in q <=> y \in a \/ y \in c \/ y \in d \/ y \in e \/ y \in f
      OBVIOUS
    <3> HIDE DEF q
    <3>1. {x} = b \cup q
      BY <1>0, <3>0
    <3>2. \A y \in q : y[1] # "DNS"
      BY <1>4, <3>0
    <3>3. QED BY <1>4, <3>1, <3>2, OnePart
  <2>3. c = (IF x[1] = "traffic" THEN {x} ELSE {})
    <3> DEFINE q == a \cup b \cup d \cup e \cup f
    <3>0. \A y : y \in q <=> y \in a \/ y \in b \/ y \in d \/ y \in e \/ y \in f
      OBVIOUS
    <3> HIDE DEF q
    <3>1. {x} = c \cup q
      BY <1>0, <3>0
    <3>2. \A y \in q : y[1] # "traffic"
      BY <1>4, <3>0
    <3>3. QED BY <1>4, <3>1, <3>2, OnePart
  <2>4. d = (IF x[1] = "ARP" THEN {x} ELSE {})
    <3> DEFINE q == a \cup b \cup c \cup e \cup f
    <3>0. \A y : y \in q <=> y \in a \/ y \in b \/ y \in c \/ y \in e \/ y \in f
      OBVIOUS
    <3> HIDE DEF q
    <3>1. {x} = d \cup q
      BY <1>0, <3>0
    <3>2. \A y \in q : y[1] # "ARP"
      BY <1>4, <3>0
    <3>3. QED BY <1>4, <3>1, <3>2, OnePart
  <2>5. e = (IF x[1] = "wire" THEN {x} ELSE {})
    <3> DEFINE q == a \cup b \cup c \cup d \cup f
    <3>0. \A y : y \in q <=> y \in a \/ y \in b \/ y \in c \/ y \in d \/ y \in f
      OBVIOUS
    <3> HIDE DEF q
    <3>1. {x} = e \cup q
      BY <1>0, <3>0
    <3>2. \A y \in q : y[1] # "wire"
      BY <1>4, <3>0
    <3>3. QED BY <1>4, <3>1, <3>2, OnePart
  <2>6. f = (IF x[1] = "arrived" THEN {x} ELSE {})
    <3> DEFINE q == a \cup b \cup c \cup d \cup e
    <3>0. \A y : y \in q <=> y \in a \/ y \in b \/ y \in c \/ y \in d \/ y \in e
      OBVIOUS
    <3> HIDE DEF q
    <3>1. {x} = f \cup q
      BY <1>0, <3>0
    <3>2. \A y \in q : y[1] # "arrived"
      BY <1>4, <3>0
    <3>3. QED BY <1>4, <3>1, <3>2, OnePart
  <2>7. QED BY <2>1, <2>2, <2>3, <2>4, <2>5, <2>6
<1>6. QED BY <1>5 DEF a, b, c, d, e, f

LEMMA PlacesWillBe ==
  ASSUME Typed', NEW j \in Jobs
  PROVE  Places(j)' = AtStart(j)' \cup AtDns(j)' \cup AtTraffic(j)' \cup AtArp(j)' \cup OnWire(j)' \cup AtEnd(j)'
<1>1. {e \in DOMAIN traffic' : e.job = j} = EventsOf(j) \cap DOMAIN traffic'
  BY DEF Typed, EventsOf
<1>2. DataOf(j)' = PayloadsOf(j) \cap DOMAIN wire'
  BY DEF Typed, DataOf, InFlight, PayloadsOf
<1>3. QED BY <1>1, <1>2 DEF Places, AtStart, AtDns, AtTraffic, AtArp, OnWire, AtEnd, Inside, Waiting

\* A job that no part of the step touches.
LEMMA Untouched ==
  ASSUME Typed, Typed', NEW j \in Jobs, Placed(j),
         AtStart(j)' = AtStart(j), AtDns(j)' = AtDns(j), AtTraffic(j)' = AtTraffic(j),
         AtArp(j)' = AtArp(j), OnWire(j)' = OnWire(j), AtEnd(j)' = AtEnd(j)
  PROVE  Placed(j)'
<1>1. Places(j)' = Places(j)
  BY PlacesAre, PlacesWillBe
<1>2. QED BY <1>1 DEF Placed

LEMMA StartsKept == ASSUME UNCHANGED unstarted PROVE \A j : AtStart(j)' = AtStart(j)
  BY DEF AtStart
LEMMA DnsKept == ASSUME UNCHANGED waitingForDNSReply PROVE \A j : AtDns(j)' = AtDns(j)
  BY DEF AtDns
LEMMA TrafficKept == ASSUME UNCHANGED traffic PROVE \A j : AtTraffic(j)' = AtTraffic(j)
  BY DEF AtTraffic
LEMMA ArpKept == ASSUME UNCHANGED waitingForArpReply PROVE \A j : AtArp(j)' = AtArp(j)
  BY DEF AtArp
LEMMA WireKept == ASSUME UNCHANGED wire PROVE \A j : OnWire(j)' = OnWire(j)
  BY DEF OnWire
LEMMA EndsKept == ASSUME UNCHANGED arrived PROVE \A j : AtEnd(j)' = AtEnd(j)
  BY DEF AtEnd

\* Only payloads count.
LEMMA SentOther ==
  ASSUME IsABag(wire), NEW ps, \A m \in ps : m.type # "DATA", wire' = Sent(ps)
  PROVE  \A j : OnWire(j)' = OnWire(j)
<1> TAKE j
<1> DEFINE c == SetToBag(ps)
<1>1. IsABag(c) /\ DOMAIN c = ps
  BY SetIsBag
<1>2. PayloadsOf(j) \cap DOMAIN c = {}
  BY <1>1 DEF PayloadsOf
<1> HIDE DEF c
<1>3. Inside("wire", wire (+) c, PayloadsOf(j)) = Inside("wire", wire, PayloadsOf(j))
  BY <1>1, <1>2, InsideSum
<1>4. QED BY <1>3 DEF OnWire, Sent, c

LEMMA TakenPacket ==
  ASSUME IsABag(wire), NEW p \in DOMAIN wire, NEW ps, \A m \in ps : m.type # "DATA",
         NEW next, next = Exchanged(p, ps), NEW j
  PROVE  /\ IsABag(next)
         /\ p \notin PayloadsOf(j) => Inside("wire", next, PayloadsOf(j)) = OnWire(j)
         /\ p \in PayloadsOf(j) /\ wire[p] = 1 =>
              Inside("wire", next, PayloadsOf(j)) = OnWire(j) \ {<<"wire", p, 1>>}
<1> DEFINE c == SetToBag(ps)
           b == BagRemove(wire, p)
<1>1. IsABag(c) /\ DOMAIN c = ps
  BY SetIsBag
<1>2. PayloadsOf(j) \cap DOMAIN c = {}
  BY <1>1 DEF PayloadsOf
<1>3. IsABag(b)
  BY BagTake DEF BagRemove, Ext!BagRemove
<1>4. /\ p \notin PayloadsOf(j) => Inside("wire", b, PayloadsOf(j)) = Inside("wire", wire, PayloadsOf(j))
      /\ p \in PayloadsOf(j) /\ wire[p] = 1 =>
           Inside("wire", b, PayloadsOf(j)) = Inside("wire", wire, PayloadsOf(j)) \ {<<"wire", p, 1>>}
  BY InsideTake
<1>5. next = b (+) c
  BY DEF Exchanged
<1> HIDE DEF b, c
<1>8. IsABag(next)
  <2>1. IsABag(b (+) c)
    BY <1>1, <1>3, BagSum
  <2>2. QED BY <1>5, <2>1
<1>6. Inside("wire", b (+) c, PayloadsOf(j)) = Inside("wire", b, PayloadsOf(j))
  BY <1>1, <1>2, <1>3, InsideSum
<1>7. QED BY <1>4, <1>5, <1>6, <1>8 DEF OnWire

LEMMA TookPacket ==
  ASSUME IsABag(wire), NEW p \in DOMAIN wire, NEW ps, \A m \in ps : m.type # "DATA",
         wire' = Exchanged(p, ps), NEW j
  PROVE  /\ p \notin PayloadsOf(j) => OnWire(j)' = OnWire(j)
         /\ p \in PayloadsOf(j) /\ wire[p] = 1 => OnWire(j)' = OnWire(j) \ {<<"wire", p, 1>>}
<1> DEFINE next == Exchanged(p, ps)
<1>1. next = Exchanged(p, ps) /\ wire' = next
  OBVIOUS
<1> HIDE DEF next
<1>2. /\ p \notin PayloadsOf(j) => Inside("wire", next, PayloadsOf(j)) = OnWire(j)
      /\ p \in PayloadsOf(j) /\ wire[p] = 1 =>
           Inside("wire", next, PayloadsOf(j)) = OnWire(j) \ {<<"wire", p, 1>>}
  BY <1>1, TakenPacket
<1>3. QED BY <1>1, <1>2 DEF OnWire

\* The step moves j to the place y.
LEMMA MovedTo ==
  ASSUME Typed', NEW j \in Jobs, NEW y, y[3] = 1,
         {y} = AtStart(j)' \cup AtDns(j)' \cup AtTraffic(j)' \cup AtArp(j)' \cup OnWire(j)' \cup AtEnd(j)'
  PROVE  Placed(j)'
<1>1. Places(j)' = {y}
  BY PlacesWillBe
<1>2. QED BY <1>1 DEF Placed

\* The place that is found is the only one.
LEMMA Found ==
  ASSUME Typed, NEW j \in Jobs, Placed(j), NEW x,
         x \in AtStart(j) \cup AtDns(j) \cup AtTraffic(j) \cup AtArp(j) \cup OnWire(j) \cup AtEnd(j)
  PROVE  Places(j) = {x} /\ x[3] = 1
<1>1. x \in Places(j)
  BY PlacesAre
<1>2. QED BY <1>1 DEF Placed

LEMMA StartPlaces ==
  ASSUME IInv, Typed', \A i \in Jobs : Placed(i), NEW j \in Jobs, attemptToStartTraffic(j)
  PROVE  \A i \in Jobs : Placed(i)'
<1> DEFINE h == JobHost[j]
           u == JobUrl[j]
           a == resolveDestinationIp(h, u)
           x == <<"unstarted", j, 1>>
<1>1. /\ UNCHANGED <<dhcpVars, urlToIpMapping, arpVars, arrived, panicked>>
      /\ j \in unstarted /\ unstarted' = unstarted \ {j} /\ IsABag(wire) /\ IsABag(traffic) /\ Typed
  BY DEF attemptToStartTraffic, IInv, Typed
<1>2. x \in AtStart(j)
  BY <1>1 DEF AtStart
<1>3. Places(j) = {x} /\ x[1] = "unstarted"
  BY <1>1, <1>2, Found
<1> HIDE DEF x
<1>4. /\ AtDns(j) = {} /\ AtTraffic(j) = {} /\ AtArp(j) = {} /\ OnWire(j) = {} /\ AtEnd(j) = {}
  BY <1>1, <1>3, Only
<1>5. AtStart(j)' = {} /\ \A i \in Jobs \ {j} : AtStart(i)' = AtStart(i)
  BY <1>1 DEF AtStart
<1>6. \A i : AtArp(i)' = AtArp(i) /\ AtEnd(i)' = AtEnd(i)
  BY <1>1, ArpKept, EndsKept DEF arpVars
<1>7. CASE a # NoIp
  <2> DEFINE e == [job |-> j, ip |-> a]
             es == SetToBag({e})
  <2>1. traffic' = traffic (+) es /\ UNCHANGED <<waitingForDNSReply, wire>>
    BY <1>7 DEF attemptToStartTraffic
  <2>2. IsABag(es) /\ DOMAIN es = {e} /\ es[e] = 1
    BY SetIsBag
  <2>3. \A i : AtDns(i)' = AtDns(i) /\ OnWire(i)' = OnWire(i)
    BY <2>1, DnsKept, WireKept
  <2>4. e.job = j
    OBVIOUS
  <2> HIDE DEF e
  <2>5. \A i \in Jobs \ {j} : EventsOf(i) \cap DOMAIN es = {}
    BY <2>2, <2>4 DEF EventsOf
  <2> HIDE DEF es
  <2>6. e \in DOMAIN traffic'
    BY <1>1, <2>1, <2>2, BagSum
  <2>7. EventsOf(j) \cap DOMAIN es = {e}
    BY <2>2, <2>4, <2>6 DEF Typed, EventsOf
  <2>8. \A i \in Jobs \ {j} : AtTraffic(i)' = AtTraffic(i)
    BY <1>1, <2>1, <2>2, <2>5, InsideSum DEF AtTraffic
  <2>9. AtTraffic(j)' = {<<"traffic", e, 1>>}
    BY <1>1, <1>4, <2>1, <2>2, <2>7, InsideSum DEF AtTraffic
  <2>10. Placed(j)'
    <3> DEFINE y == <<"traffic", e, 1>>
    <3>1. AtTraffic(j)' = {y} /\ y[3] = 1
      BY <2>9
    <3> HIDE DEF y
    <3>2. QED BY <1>4, <1>5, <1>6, <2>3, <3>1, MovedTo
  <2>11. QED BY <1>1, <1>5, <1>6, <2>3, <2>8, <2>10, Untouched
<1>8. CASE a = NoIp
  <2> DEFINE m == [type |-> "QUERY", from |-> h, dnsIp |-> dnsServerIp[h], url |-> u]
             ps == {m}
             y == <<"DNS", <<h, u>>, 1>>
  <2>1. /\ wire' = Sent(ps) /\ UNCHANGED traffic
        /\ waitingForDNSReply' = [waitingForDNSReply EXCEPT ![h][u] = @ (+) SetToBag({j})]
    BY <1>8 DEF attemptToStartTraffic
  <2>2. \A q \in ps : q.type # "DATA"
    OBVIOUS
  <2> HIDE DEF ps
  <2>3. \A i : AtTraffic(i)' = AtTraffic(i) /\ OnWire(i)' = OnWire(i)
    BY <1>1, <2>1, <2>2, TrafficKept, SentOther
  <2>4. u \in Urls /\ h \in Hosts
    <3>1. ASSUME u \notin Urls PROVE FALSE
      <4>1. a = u /\ u \in Addresses
        BY <3>1 DEF resolveDestinationIp, Addresses, Destinations
      <4>2. QED BY <1>8, <4>1, NilAssumption
    <3>2. QED BY <3>1, JobsAssumption
  <2>5. waitingForDNSReply \in [Hosts -> [Urls -> WaitingLists]]
    BY DEF IInv, Typed
  <2>6. /\ AtDns(j)' = {y}
        /\ \A i \in Jobs \ {j} : AtDns(i)' = AtDns(i)
    <3> HIDE DEF h, u
    <3>1. Waiting("DNS", waitingForDNSReply, Hosts \X Urls, j) = {}
      BY <1>4 DEF AtDns
    <3> DEFINE new == waitingForDNSReply'
               W == Hosts \X Urls
    <3>2. /\ new[h][u] = waitingForDNSReply[h][u] (+) SetToBag({j})
          /\ \A w \in W \ {<<h, u>>} : new[w[1]][w[2]] = waitingForDNSReply[w[1]][w[2]]
      BY <2>1, <2>4, <2>5
    <3>3. IsABag(waitingForDNSReply[h][u]) /\ <<h, u>> \in W
      BY <2>4, <2>5, WaitingListFacts
    <3> HIDE DEF new, W, a, m, y
    <3>4. OneMore(waitingForDNSReply[h][u], j, new[h][u])
      BY <3>2, <3>3, SumIsOneMore
    <3>5. Waiting("DNS", waitingForDNSReply, W, j) = {}
      BY <3>1 DEF W
    <3> DEFINE lists == waitingForDNSReply
    <3>6. /\ OneMore(lists[h][u], j, new[h][u]) /\ <<h, u>> \in W
          /\ \A w \in W \ {<<h, u>>} : new[w[1]][w[2]] = lists[w[1]][w[2]]
          /\ Waiting("DNS", lists, W, j) = {}
      BY <3>2, <3>3, <3>4, <3>5
    <3> HIDE DEF lists
    <3>7. /\ Waiting("DNS", new, W, j) = {<<"DNS", <<h, u>>, 1>>}
          /\ \A i : i # j => Waiting("DNS", new, W, i) = Waiting("DNS", lists, W, i)
      BY <3>6, ListGains
    <3>8. QED BY <3>7 DEF AtDns, new, W, lists, y
  <2>7. y[3] = 1
    OBVIOUS
  <2> HIDE DEF y
  <2>8. Placed(j)'
    BY <1>4, <1>5, <1>6, <2>3, <2>6, <2>7, MovedTo
  <2>9. QED BY <1>1, <1>5, <1>6, <2>3, <2>6, <2>8, Untouched
<1>9. QED BY <1>7, <1>8

LEMMA TrafficPlaces ==
  ASSUME IInv, Typed', \A i \in Jobs : Placed(i), NEW e \in DOMAIN traffic, setTraffic(e)
  PROVE  \A i \in Jobs : Placed(i)'
<1> DEFINE j == e.job
           h == JobHost[j]
           a == e.ip
           mac == arpTable[h][a]
           x == <<"traffic", e, traffic[e]>>
<1>1. /\ UNCHANGED <<dhcpVars, dnsVars, arpTable, unstarted, arrived, panicked>>
      /\ traffic' = BagRemove(traffic, e) /\ sendUDPPacket(h, a, j)
      /\ IsABag(wire) /\ IsABag(traffic) /\ Typed
  BY DEF setTraffic, IInv, Typed
<1>2. j \in Jobs /\ a \in Addresses /\ h \in Hosts /\ e \in EventsOf(j)
  BY JobsAssumption DEF IInv, Typed, EventsOf
<1>3. x \in AtTraffic(j)
  BY <1>2 DEF AtTraffic, Inside
<1>4. Places(j) = {x} /\ x[3] = 1
  BY <1>1, <1>2, <1>3, Found
<1>5. x[1] = "traffic" /\ traffic[e] = 1 /\ x = <<"traffic", e, 1>>
  BY <1>4
<1> HIDE DEF x, j
<1>6. /\ AtStart(j) = {} /\ AtDns(j) = {} /\ AtTraffic(j) = {x} /\ AtArp(j) = {} /\ OnWire(j) = {}
      /\ AtEnd(j) = {}
  BY <1>1, <1>2, <1>4, <1>5, Only
<1>7. AtTraffic(j)' = {}
  BY <1>1, <1>2, <1>5, <1>6, InsideTake DEF AtTraffic
<1>8. \A i \in Jobs \ {j} : AtTraffic(i)' = AtTraffic(i)
  <2>1. \A i \in Jobs \ {j} : e \notin EventsOf(i)
    BY DEF EventsOf, j
  <2>2. QED BY <1>1, <2>1, InsideTake DEF AtTraffic
<1>9. \A i : AtStart(i)' = AtStart(i) /\ AtDns(i)' = AtDns(i) /\ AtEnd(i)' = AtEnd(i)
  BY <1>1, StartsKept, DnsKept, EndsKept DEF dnsVars
<1>10. CASE mac # NoMac
  <2> DEFINE m == [type |-> "DATA", to |-> mac, ip |-> a, job |-> j]
             ms == SetToBag({m})
             y == <<"wire", m, 1>>
  <2>1. wire' = wire (+) ms /\ UNCHANGED waitingForArpReply
    BY <1>1, <1>10 DEF sendUDPPacket, Sent
  <2>2. IsABag(ms) /\ DOMAIN ms = {m} /\ ms[m] = 1
    BY SetIsBag
  <2>3. m.type = "DATA" /\ m.job = j
    OBVIOUS
  <2> HIDE DEF m, ms
  <2>4. m \in DOMAIN wire'
    BY <1>1, <2>1, <2>2, BagSum
  <2>5. PayloadsOf(j) \cap DOMAIN ms = {m} /\ \A i \in Jobs \ {j} : PayloadsOf(i) \cap DOMAIN ms = {}
    BY <2>2, <2>3, <2>4 DEF Typed, PayloadsOf
  <2>6. OnWire(j)' = {y}
    BY <1>1, <1>6, <2>1, <2>2, <2>5, InsideSum DEF OnWire
  <2>7. \A i \in Jobs \ {j} : OnWire(i)' = OnWire(i)
    BY <1>1, <2>1, <2>2, <2>5, InsideSum DEF OnWire
  <2>8. \A i : AtArp(i)' = AtArp(i)
    BY <2>1, ArpKept
  <2>9. y[3] = 1
    OBVIOUS
  <2> HIDE DEF y
  <2>10. Placed(j)'
    BY <1>2, <1>6, <1>7, <1>9, <2>6, <2>8, <2>9, MovedTo
  <2>11. QED BY <1>1, <1>8, <1>9, <2>7, <2>8, <2>10, Untouched
<1>11. CASE mac = NoMac
  <2> DEFINE y == <<"ARP", <<h, a>>, 1>>
             ps == sendArpRequest(h, a)
             next == [waitingForArpReply EXCEPT ![h][a] = waitingForArpReply[h][a] (+) SetToBag({j})]
  <2>1. wire' = Sent(ps) /\ waitingForArpReply' = next
    BY <1>1, <1>11 DEF sendUDPPacket
  <2>2. \A m \in ps : m.type # "DATA"
    <3> SUFFICES ASSUME NEW m \in ps PROVE m.type # "DATA"
      OBVIOUS
    <3>1. PICK g \in Hosts : m = [type |-> "ARP REQUEST", to |-> g, from |-> h,
                                   sourceIp |-> ip[h], ip |-> a]
      BY DEF sendArpRequest
    <3>2. QED BY <3>1
  <2> HIDE DEF ps
  <2>3. \A i : OnWire(i)' = OnWire(i)
    BY <1>1, <2>1, <2>2, SentOther
  <2>4. waitingForArpReply \in [Hosts -> [Addresses -> WaitingLists]]
    BY DEF IInv, Typed
  <2>5. Waiting("ARP", waitingForArpReply, Hosts \X Addresses, j) = {}
    BY <1>6 DEF AtArp
  <2> HIDE DEF h, a
  <2> DEFINE new == waitingForArpReply'
             W == Hosts \X Addresses
  <2>6. /\ new[h][a] = waitingForArpReply[h][a] (+) SetToBag({j})
        /\ \A w \in W \ {<<h, a>>} : new[w[1]][w[2]] = waitingForArpReply[w[1]][w[2]]
    BY <1>2, <2>1, <2>4
  <2>11. IsABag(waitingForArpReply[h][a]) /\ <<h, a>> \in W
    BY <1>2, <2>4, WaitingListFacts
  <2> HIDE DEF new, W
  <2>12. OneMore(waitingForArpReply[h][a], j, new[h][a])
    BY <2>6, <2>11, SumIsOneMore
  <2>13. Waiting("ARP", waitingForArpReply, W, j) = {}
    BY <2>5 DEF W
  <2>14. /\ Waiting("ARP", new, W, j) = {<<"ARP", <<h, a>>, 1>>}
         /\ \A i : i # j => Waiting("ARP", new, W, i) = Waiting("ARP", waitingForArpReply, W, i)
    BY <2>6, <2>11, <2>12, <2>13, ListGains
  <2>7. AtArp(j)' = {y} /\ \A i \in Jobs \ {j} : AtArp(i)' = AtArp(i)
    BY <2>14 DEF AtArp, new, W
  <2>8. y[3] = 1
    OBVIOUS
  <2> HIDE DEF y
  <2>9. Placed(j)'
    BY <1>2, <1>6, <1>7, <1>9, <2>3, <2>7, <2>8, MovedTo
  <2>10. QED BY <1>1, <1>8, <1>9, <2>3, <2>7, <2>9, Untouched
<1>12. QED BY <1>10, <1>11

LEMMA AnswerPlaces ==
  ASSUME IInv, Typed', \A i \in Jobs : Placed(i), NEW p \in DOMAIN wire, onDNSReplyPacketReceived(p)
  PROVE  \A i \in Jobs : Placed(i)'
<1> DEFINE b == waitingForDNSReply[p.to][p.url]
           new == Scheduled(b, p.ip)
           next == [waitingForDNSReply EXCEPT ![p.to][p.url] = EmptyBag]
<1>1. /\ UNCHANGED <<dhcpVars, arpVars, unstarted, arrived, panicked>>
      /\ IsABag(wire) /\ IsABag(traffic) /\ p \in Message /\ p.type = "ANSWER" /\ Typed
      /\ wire' = Exchanged(p, {})
      /\ traffic' = traffic (+) new
      /\ waitingForDNSReply' = next
  BY DEF onDNSReplyPacketReceived, IInv, Typed
<1>2. p.to \in Hosts /\ p.url \in Urls /\ p.ip \in Addresses
  BY <1>1, MessageFacts
<1>3. waitingForDNSReply \in [Hosts -> [Urls -> WaitingLists]]
  BY DEF IInv, Typed
<1>4. IsABag(b) /\ DOMAIN b \subseteq Jobs
  BY <1>2, <1>3, WaitingListFacts
<1>5. IsABag(new) /\ DOMAIN new = {[job |-> j, ip |-> p.ip] : j \in DOMAIN b}
  BY <1>4, ScheduledIsBag
<1>6. \A i : AtStart(i)' = AtStart(i) /\ AtArp(i)' = AtArp(i) /\ AtEnd(i)' = AtEnd(i)
  BY <1>1, StartsKept, ArpKept, EndsKept DEF arpVars
<1>7. \A i : p \notin PayloadsOf(i)
  BY <1>1 DEF PayloadsOf
<1>8. \A i : OnWire(i)' = OnWire(i)
  BY <1>1, <1>7, TookPacket
<1>9. ASSUME NEW j \in Jobs PROVE Placed(j)'
  <2> DEFINE x == <<"DNS", <<p.to, p.url>>, b[j]>>
  <2>1. /\ j \notin DOMAIN b => AtDns(j)' = AtDns(j)
        /\ j \in DOMAIN b => AtDns(j)' = AtDns(j) \ {x} /\ x \in AtDns(j)
    <3>1. /\ j \notin DOMAIN waitingForDNSReply[p.to][p.url] =>
               Waiting("DNS", next, Hosts \X Urls, j) = Waiting("DNS", waitingForDNSReply, Hosts \X Urls, j)
          /\ j \in DOMAIN waitingForDNSReply[p.to][p.url] =>
               /\ Waiting("DNS", next, Hosts \X Urls, j)
                    = Waiting("DNS", waitingForDNSReply, Hosts \X Urls, j)
                        \ {<<"DNS", <<p.to, p.url>>, waitingForDNSReply[p.to][p.url][j]>>}
               /\ <<"DNS", <<p.to, p.url>>, waitingForDNSReply[p.to][p.url][j]>>
                    \in Waiting("DNS", waitingForDNSReply, Hosts \X Urls, j)
      BY <1>2, <1>3, ListEmptied
    <3> HIDE DEF next
    <3>2. QED BY <1>1, <3>1 DEF AtDns
  <2>2. CASE j \notin DOMAIN b
    <3>1. EventsOf(j) \cap DOMAIN new = {}
      <4> HIDE DEF new, b
      <4>1. QED BY <1>5, <2>2 DEF EventsOf
    <3> HIDE DEF new, b
    <3>2. AtTraffic(j)' = AtTraffic(j)
      BY <1>1, <1>5, <3>1, InsideSum DEF AtTraffic
    <3>3. QED BY <1>1, <1>6, <1>8, <2>1, <2>2, <3>2, Untouched
  <2>3. CASE j \in DOMAIN b
    <3> DEFINE e == [job |-> j, ip |-> p.ip]
               y == <<"traffic", e, 1>>
    <3>1. Places(j) = {x} /\ x[3] = 1
      BY <1>1, <2>1, <2>3, Found
    <3>2. x[1] = "DNS" /\ b[j] = 1
      BY <3>1
    <3> HIDE DEF x
    <3>3. /\ AtStart(j) = {} /\ AtDns(j) = {x} /\ AtTraffic(j) = {} /\ AtArp(j) = {} /\ OnWire(j) = {}
          /\ AtEnd(j) = {}
      BY <1>1, <3>1, <3>2, Only
    <3>4. e \in DOMAIN new /\ new[e] = 1
      <4>1. e \in {[job |-> i, ip |-> p.ip] : i \in DOMAIN b} /\ e.job = j
        BY <2>3
      <4> HIDE DEF e, b
      <4>2. QED BY <1>5, <3>2, <4>1 DEF Scheduled
    <3>5. EventsOf(j) \cap DOMAIN new = {e}
      <4>1. e \in EventsOf(j)
        BY <1>2 DEF EventsOf
      <4> HIDE DEF new, b
      <4>2. \A f \in EventsOf(j) \cap DOMAIN new : f = e
        BY <1>5 DEF EventsOf
      <4> HIDE DEF e
      <4>3. QED BY <3>4, <4>1, <4>2
    <3> HIDE DEF e, new
    <3>6. AtTraffic(j)' = {y}
      BY <1>1, <1>5, <3>3, <3>4, <3>5, InsideSum DEF AtTraffic
    <3>7. AtDns(j)' = {} /\ y[3] = 1
      BY <2>1, <2>3, <3>3
    <3> HIDE DEF y
    <3>8. QED BY <1>6, <1>8, <3>3, <3>6, <3>7, MovedTo
  <2>4. QED BY <2>2, <2>3
<1>10. QED BY <1>9

\* Nothing moves when p, which is no payload, is answered with ps, which are none.
LEMMA OtherPacket ==
  ASSUME IInv, Typed', \A i \in Jobs : Placed(i), NEW p \in DOMAIN wire, p.type # "DATA",
         NEW ps, \A m \in ps : m.type # "DATA", wire' = Exchanged(p, ps),
         unstarted' = unstarted, traffic' = traffic, arrived' = arrived,
         waitingForDNSReply' = waitingForDNSReply, waitingForArpReply' = waitingForArpReply
  PROVE  \A i \in Jobs : Placed(i)'
<1>1. Typed /\ IsABag(wire)
  BY DEF IInv, Typed
<1>2. \A i : p \notin PayloadsOf(i)
  BY DEF PayloadsOf
<1>3. \A i : OnWire(i)' = OnWire(i)
  BY <1>1, <1>2, TookPacket
<1>4. QED BY <1>1, <1>3, StartsKept, DnsKept, TrafficKept, ArpKept, EndsKept, Untouched

Replies == InFlight("ARP REPLY")

LEMMA ReplyPlaces ==
  ASSUME IInv, Typed', \A i \in Jobs : Placed(i), NEW p \in Replies,
         onArpReplyPacketReceived(p), unstarted' = unstarted, traffic' = traffic,
         arrived' = arrived, waitingForDNSReply' = waitingForDNSReply
  PROVE  \A i \in Jobs : Placed(i)'
<1> DEFINE b == waitingForArpReply[p.to][p.ip]
           new == Payloads(b, p.ip, p.mac)
           rest == Exchanged(p, {})
           next == [waitingForArpReply EXCEPT ![p.to][p.ip] = EmptyBag]
<1>0. p \in DOMAIN wire /\ p.type = "ARP REPLY"
  BY DEF Replies, InFlight
<1>12. p \in DOMAIN wire /\ p.type # "DATA"
  BY <1>0
<1>1. /\ IsABag(wire) /\ p \in Message /\ Typed
      /\ wire' = rest (+) new
      /\ waitingForArpReply' = next
  BY <1>12 DEF onArpReplyPacketReceived, IInv, Typed
<1>2. p.to \in Hosts /\ p.ip \in Addresses /\ p.mac \in Hosts
  BY <1>0, <1>1, MessageFacts
<1>3. waitingForArpReply \in [Hosts -> [Addresses -> WaitingLists]]
  BY DEF IInv, Typed
<1>4. IsABag(b) /\ DOMAIN b \subseteq Jobs
  BY <1>2, <1>3, WaitingListFacts
<1>5. /\ IsABag(new)
      /\ DOMAIN new = {[type |-> "DATA", to |-> p.mac, ip |-> p.ip, job |-> j] : j \in DOMAIN b}
  <2> HIDE DEF b
  <2>1. /\ IsABag(Payloads(b, p.ip, p.mac))
        /\ DOMAIN Payloads(b, p.ip, p.mac)
             = {[type |-> "DATA", to |-> p.mac, ip |-> p.ip, job |-> j] : j \in DOMAIN b}
    BY <1>4, PayloadsIsBag
  <2>2. QED BY <2>1
<1>6. \A i : AtStart(i)' = AtStart(i) /\ AtDns(i)' = AtDns(i) /\ AtTraffic(i)' = AtTraffic(i)
             /\ AtEnd(i)' = AtEnd(i)
  BY StartsKept, DnsKept, TrafficKept, EndsKept
<1>7. \A i : p \notin PayloadsOf(i)
  BY <1>12 DEF PayloadsOf
<1>8. rest = Exchanged(p, {})
  OBVIOUS
<1> HIDE DEF rest
<1>9. IsABag(rest) /\ \A i : Inside("wire", rest, PayloadsOf(i)) = OnWire(i)
  <2> DEFINE none == {}
  <2>1. /\ \A m \in none : m.type # "DATA"
        /\ rest = Exchanged(p, none)
    BY <1>8
  <2> HIDE DEF none
  <2>2. ASSUME NEW i PROVE IsABag(rest) /\ Inside("wire", rest, PayloadsOf(i)) = OnWire(i)
    BY <1>1, <1>7, <1>12, <2>1, TakenPacket
  <2>3. QED BY <2>2
<1>10. ASSUME NEW j \in Jobs PROVE Placed(j)'
  <2> DEFINE x == <<"ARP", <<p.to, p.ip>>, b[j]>>
  <2>1. /\ j \notin DOMAIN b => AtArp(j)' = AtArp(j)
        /\ j \in DOMAIN b => AtArp(j)' = AtArp(j) \ {x} /\ x \in AtArp(j)
    <3>1. /\ j \notin DOMAIN waitingForArpReply[p.to][p.ip] =>
               Waiting("ARP", next, Hosts \X Addresses, j)
                 = Waiting("ARP", waitingForArpReply, Hosts \X Addresses, j)
          /\ j \in DOMAIN waitingForArpReply[p.to][p.ip] =>
               /\ Waiting("ARP", next, Hosts \X Addresses, j)
                    = Waiting("ARP", waitingForArpReply, Hosts \X Addresses, j)
                        \ {<<"ARP", <<p.to, p.ip>>, waitingForArpReply[p.to][p.ip][j]>>}
               /\ <<"ARP", <<p.to, p.ip>>, waitingForArpReply[p.to][p.ip][j]>>
                    \in Waiting("ARP", waitingForArpReply, Hosts \X Addresses, j)
      BY <1>2, <1>3, ListEmptied
    <3> HIDE DEF next
    <3>2. QED BY <1>1, <3>1 DEF AtArp
  <2>2. CASE j \notin DOMAIN b
    <3>1. PayloadsOf(j) \cap DOMAIN new = {}
      <4> SUFFICES ASSUME NEW q \in PayloadsOf(j), q \in DOMAIN new PROVE FALSE
        OBVIOUS
      <4> HIDE DEF new, b
      <4>1. PICK i \in DOMAIN b : q = [type |-> "DATA", to |-> p.mac, ip |-> p.ip, job |-> i]
        BY <1>5
      <4>2. q.job = i
        BY <4>1
      <4>3. QED BY <2>2, <4>2 DEF PayloadsOf
    <3> HIDE DEF new, b
    <3>2. OnWire(j)' = OnWire(j)
      BY <1>1, <1>5, <1>9, <3>1, InsideSum DEF OnWire
    <3>3. QED BY <1>1, <1>6, <2>1, <2>2, <3>2, Untouched
  <2>3. CASE j \in DOMAIN b
    <3> DEFINE m == [type |-> "DATA", to |-> p.mac, ip |-> p.ip, job |-> j]
               y == <<"wire", m, 1>>
    <3>1. Places(j) = {x} /\ x[3] = 1
      BY <1>1, <2>1, <2>3, Found
    <3>2. x[1] = "ARP" /\ b[j] = 1
      BY <3>1
    <3> HIDE DEF x
    <3>3. /\ AtStart(j) = {} /\ AtDns(j) = {} /\ AtTraffic(j) = {} /\ AtArp(j) = {x} /\ OnWire(j) = {}
          /\ AtEnd(j) = {}
      BY <1>1, <3>1, <3>2, Only
    <3>4. m \in DOMAIN new /\ new[m] = 1
      <4>1. m \in {[type |-> "DATA", to |-> p.mac, ip |-> p.ip, job |-> i] : i \in DOMAIN b} /\ m.job = j
        BY <2>3
      <4> HIDE DEF m, b
      <4>2. QED BY <1>5, <3>2, <4>1 DEF Payloads
    <3>5. PayloadsOf(j) \cap DOMAIN new = {m}
      <4>1. m \in PayloadsOf(j)
        BY <1>2 DEF PayloadsOf, Message
      <4> HIDE DEF new, b
      <4>2. ASSUME NEW q \in PayloadsOf(j), q \in DOMAIN new PROVE q = m
        <5>1. PICK i \in DOMAIN b : q = [type |-> "DATA", to |-> p.mac, ip |-> p.ip, job |-> i]
          BY <1>5, <4>2
        <5>2. q.job = i
          BY <5>1
        <5>3. i = j
          BY <5>2 DEF PayloadsOf
        <5>4. QED BY <5>1, <5>3
      <4> HIDE DEF m
      <4>3. QED BY <3>4, <4>1, <4>2
    <3> HIDE DEF m, new
    <3>6. OnWire(j)' = {y}
      BY <1>1, <1>5, <1>9, <3>3, <3>4, <3>5, InsideSum DEF OnWire
    <3>7. AtArp(j)' = {} /\ y[3] = 1
      BY <2>1, <2>3, <3>3
    <3> HIDE DEF y
    <3>8. QED BY <1>6, <3>3, <3>6, <3>7, MovedTo
  <2>4. QED BY <2>2, <2>3
<1>11. QED BY <1>10

\* The packet p is gone, and arrived counts it, or links are lossy.
LEMMA DataPlaces ==
  ASSUME IInv, Typed', \A i \in Jobs : Placed(i), NEW p \in DOMAIN wire, p.type = "DATA",
         wire' = Exchanged(p, {}),
         unstarted' = unstarted, traffic' = traffic,
         waitingForDNSReply' = waitingForDNSReply, waitingForArpReply' = waitingForArpReply,
         \/ arrived' = [arrived EXCEPT ![p.job] = @ + 1]
         \/ Lossy /\ UNCHANGED arrived
  PROVE  \A i \in Jobs : Placed(i)'
<1> DEFINE j == p.job
           x == <<"wire", p, wire[p]>>
           y == <<"arrived", j, 1>>
<1>1. IsABag(wire) /\ p \in Message /\ Typed /\ arrived \in [Jobs -> Nat]
  BY DEF IInv, Typed
<1>2. j \in Jobs /\ p \in PayloadsOf(j) /\ \A i : i # j => p \notin PayloadsOf(i)
  BY <1>1, MessageFacts DEF PayloadsOf
<1>3. x \in OnWire(j)
  BY <1>2 DEF OnWire, Inside
<1>4. Places(j) = {x} /\ x[3] = 1
  BY <1>1, <1>2, <1>3, Found
<1>5. x[1] = "wire" /\ wire[p] = 1 /\ x = <<"wire", p, 1>>
  BY <1>4
<1> HIDE DEF x
<1>6. /\ AtStart(j) = {} /\ AtDns(j) = {} /\ AtTraffic(j) = {} /\ AtArp(j) = {} /\ OnWire(j) = {x}
      /\ AtEnd(j) = {}
  BY <1>1, <1>2, <1>4, <1>5, Only
<1>7. OnWire(j)' = {} /\ \A i : i # j => OnWire(i)' = OnWire(i)
  BY <1>1, <1>2, <1>5, <1>6, TookPacket
<1>8. \A i : AtStart(i)' = AtStart(i) /\ AtDns(i)' = AtDns(i) /\ AtTraffic(i)' = AtTraffic(i)
             /\ AtArp(i)' = AtArp(i)
  BY StartsKept, DnsKept, TrafficKept, ArpKept
<1>9. arrived[j] = 0
  <2>1. ~(arrived[j] > 0)
    BY <1>6 DEF AtEnd
  <2>2. QED BY <1>1, <1>2, <2>1
<1> HIDE DEF j
<1>10. \A i \in Jobs \ {j} : AtEnd(i)' = AtEnd(i)
  <2>1. \A i \in Jobs \ {j} : arrived'[i] = arrived[i]
    BY <1>1 DEF j
  <2>2. QED BY <2>1 DEF AtEnd
<1>11. CASE arrived' = [arrived EXCEPT ![p.job] = @ + 1]
  <2>1. arrived'[j] = 1
    BY <1>1, <1>2, <1>9, <1>11 DEF j
  <2>2. AtEnd(j)' = {y} /\ y[3] = 1
    BY <2>1 DEF AtEnd
  <2> HIDE DEF y
  <2>3. Placed(j)'
    BY <1>2, <1>6, <1>7, <1>8, <2>2, MovedTo
  <2>4. QED BY <1>1, <1>7, <1>8, <1>10, <2>3, Untouched
<1>12. CASE Lossy /\ UNCHANGED arrived
  <2>1. AtEnd(j)' = {}
    BY <1>6, <1>12 DEF AtEnd
  <2>2. Places(j)' = {}
    BY <1>2, <1>6, <1>7, <1>8, <2>1, PlacesWillBe
  <2>3. Placed(j)'
    BY <1>12, <2>2 DEF Placed
  <2>4. QED BY <1>1, <1>7, <1>8, <1>10, <2>3, Untouched
<1>13. QED BY <1>11, <1>12

\* A host that has an address keeps it.
LEMMA AddressesStay ==
  ASSUME IInv, NEW p \in DOMAIN wire, processDHCPPacket(p), NEW h \in Hosts, NEW a \in Addresses, ip[h] = a
  PROVE  ip'[h] = a
<1>1. p \in Message
  BY DEF IInv, Typed
<1>2. p.to \in Hosts /\ p.ip \in Addresses
  BY <1>1, MessageFacts DEF processDHCPPacket
<1>3. Granted(p.to, p.ip)
  BY DEF processDHCPPacket, Granted
<1>4. ip[p.to] = a => a = p.ip
  BY <1>2, <1>3 DEF IInv, Grants, Granted
<1>5. UNCHANGED ip \/ ip' = [ip EXCEPT ![p.to] = p.ip]
  BY DEF processDHCPPacket
<1>6. ip \in [Hosts -> Addresses \cup {Unset}]
  BY DEF IInv, Typed
<1>7. QED BY <1>2, <1>4, <1>5, <1>6

Still == /\ unstarted' = unstarted /\ traffic' = traffic /\ arrived' = arrived
         /\ waitingForDNSReply' = waitingForDNSReply
\* The step takes p and sends packets, none of which carry a job, and wakes no job.
Aside(p) == /\ p.type # "DATA" /\ Still /\ waitingForArpReply' = waitingForArpReply
            /\ UNCHANGED wire \/ \E ps : wire' = Exchanged(p, ps) /\ \A m \in ps : m.type # "DATA"

LEMMA OtherAnswers ==
  ASSUME IInv, NEW p \in DOMAIN wire, ReceivePacket(p)
  PROVE  \/ Aside(p)
         \/ onDNSReplyPacketReceived(p)
         \/ p \in Replies /\ onArpReplyPacketReceived(p) /\ Still /\ UNCHANGED ip
         \/ processUDPPacket(p)
         \/ lost(p)
<1>1. CASE DhcpServerReceives(p)
  <2> DEFINE offer(a) == [type |-> "OFFER", to |-> p.from, ip |-> a]
             ack == [type |-> "ACK", to |-> p.from, ip |-> p.ip]
  <2>1. \/ UNCHANGED wire
        \/ \E a \in Pool : wire' = Exchanged(p, {offer(a)})
        \/ wire' = Exchanged(p, {ack})
    BY <1>1 DEF DhcpServerReceives, handleDHCPDiscover, handleDHCPRequest
  <2>2. ack.type # "DATA" /\ \A a : offer(a).type # "DATA"
    OBVIOUS
  <2>3. p.type # "DATA"
    BY <1>1 DEF DhcpServerReceives
  <2> HIDE DEF offer, ack
  <2>8. Still /\ waitingForArpReply' = waitingForArpReply
    BY <1>1 DEF DhcpServerReceives, Still, dnsVars, arpVars, jobVars
  <2>4. CASE UNCHANGED wire
    BY <2>3, <2>4, <2>8 DEF Aside
  <2>5. CASE \E a \in Pool : wire' = Exchanged(p, {offer(a)})
    <3>1. PICK a \in Pool : wire' = Exchanged(p, {offer(a)})
      BY <2>5
    <3>2. \A m \in {offer(a)} : m.type # "DATA"
      BY <2>2
    <3>3. QED BY <2>3, <2>8, <3>1, <3>2 DEF Aside
  <2>6. CASE wire' = Exchanged(p, {ack})
    <3>1. \A m \in {ack} : m.type # "DATA"
      BY <2>2
    <3>2. QED BY <2>3, <2>6, <2>8, <3>1 DEF Aside
  <2>7. QED BY <2>1, <2>4, <2>5, <2>6
<1>2. CASE processDHCPPacket(p)
  <2> DEFINE m == [type |-> "REQUEST", from |-> p.to, ip |-> p.ip]
             ps == {m}
             none == {}
  <2>1. /\ \A q \in ps : q.type # "DATA"
        /\ \A q \in none : q.type # "DATA"
        /\ wire' = Exchanged(p, ps) \/ wire' = Exchanged(p, none)
        /\ p.type # "DATA"
    BY <1>2 DEF processDHCPPacket
  <2> HIDE DEF ps, none, m
  <2>2. Still /\ waitingForArpReply' = waitingForArpReply
    BY <1>2 DEF processDHCPPacket, Still, dnsVars, arpVars, jobVars
  <2>3. QED BY <2>1, <2>2 DEF Aside
<1>3. CASE handleDNSQuery(p)
  <2> DEFINE m == [type |-> "ANSWER", to |-> p.from, url |-> p.url, ip |-> Records[p.url]]
             ps == IF p.dnsIp # DnsIp THEN {} ELSE {m}
  <2>1. wire' = Exchanged(p, ps) /\ m.type # "DATA" /\ p.type # "DATA"
    BY <1>3 DEF handleDNSQuery
  <2> HIDE DEF m
  <2>2. \A q \in ps : q.type # "DATA"
    BY <2>1
  <2> HIDE DEF ps
  <2>3. Still /\ waitingForArpReply' = waitingForArpReply
    BY <1>3 DEF handleDNSQuery, Still, dnsVars, arpVars, jobVars
  <2>4. QED BY <2>1, <2>2, <2>3 DEF Aside
<1>4. CASE processARPPacket(p)
  <2> DEFINE m == [type |-> "ARP REPLY", to |-> p.from, destIp |-> p.sourceIp, ip |-> p.ip, mac |-> p.to]
             ps == {m}
             none == {}
  <2>1. p \in Replies => p.type # "DATA"
    BY DEF Replies, InFlight
  <2>6. Still /\ UNCHANGED ip
    BY <1>4 DEF processARPPacket, Still, dnsVars, dhcpVars, jobVars
  <2>2. \/ p.type = "ARP REQUEST" /\ wire' = Exchanged(p, sendArpReply(p)) /\ UNCHANGED waitingForArpReply
        \/ p \in Replies /\ onArpReplyPacketReceived(p)
        \/ p \in Replies /\ wire' = Exchanged(p, none) /\ UNCHANGED waitingForArpReply
    BY <1>4 DEF processARPPacket, Replies, InFlight, arpVars
  <2>3. CASE p.type = "ARP REQUEST" /\ wire' = Exchanged(p, sendArpReply(p)) /\ UNCHANGED waitingForArpReply
    <3>1. p.type # "DATA" /\ (wire' = Exchanged(p, ps) \/ wire' = Exchanged(p, none))
      BY <2>3 DEF sendArpReply
    <3>2. \A q \in ps : q.type # "DATA"
      <4>1. m.type # "DATA"
        OBVIOUS
      <4> HIDE DEF m
      <4>2. QED BY <4>1
    <3>3. \A q \in none : q.type # "DATA"
      OBVIOUS
    <3>4. waitingForArpReply' = waitingForArpReply
      BY <2>3
    <3> HIDE DEF ps, none
    <3>5. QED BY <2>6, <3>1, <3>2, <3>3, <3>4 DEF Aside
  <2>4. CASE p \in Replies /\ wire' = Exchanged(p, none) /\ UNCHANGED waitingForArpReply
    <3>1. \A q \in none : q.type # "DATA"
      OBVIOUS
    <3> HIDE DEF none
    <3>2. QED BY <2>1, <2>4, <2>6, <3>1 DEF Aside
  <2>5. QED BY <2>2, <2>3, <2>4, <2>6
<1>5. QED BY <1>1, <1>2, <1>3, <1>4 DEF ReceivePacket

LEMMA ReceivePlaces ==
  ASSUME IInv, Typed', DataIsTrue, \A i \in Jobs : Placed(i), NEW p \in DOMAIN wire, ReceivePacket(p)
  PROVE  \A i \in Jobs : Placed(i)'
<1>1. CASE Aside(p) /\ UNCHANGED wire
  BY <1>1, StartsKept, DnsKept, TrafficKept, ArpKept, WireKept, EndsKept, Untouched DEF IInv, Aside, Still
<1>2. CASE Aside(p) /\ ~UNCHANGED wire
  BY <1>2, OtherPacket DEF Aside, Still
<1>3. CASE onDNSReplyPacketReceived(p)
  BY <1>3, AnswerPlaces
<1>4. CASE p \in Replies /\ onArpReplyPacketReceived(p) /\ Still
  BY <1>4, ReplyPlaces DEF Still
<1>5. CASE processUDPPacket(p) \/ (lost(p) /\ p.type = "DATA")
  <2>1. /\ p.type = "DATA" /\ wire' = Exchanged(p, {})
        /\ unstarted' = unstarted /\ traffic' = traffic
        /\ waitingForDNSReply' = waitingForDNSReply /\ waitingForArpReply' = waitingForArpReply
    BY <1>5 DEF processUDPPacket, lost, dnsVars, arpVars, jobVars
  <2>2. ip[p.to] = p.ip
    BY <2>1 DEF DataIsTrue
  <2>3. \/ arrived' = [arrived EXCEPT ![p.job] = @ + 1]
        \/ Lossy /\ UNCHANGED arrived
    BY <1>5, <2>2 DEF processUDPPacket, lost, jobVars
  <2>4. QED BY <2>1, <2>3, DataPlaces
<1>6. CASE lost(p) /\ p.type # "DATA"
  <2> DEFINE none == {}
  <2>1. /\ wire' = Exchanged(p, none) /\ \A m \in none : m.type # "DATA"
        /\ unstarted' = unstarted /\ traffic' = traffic /\ arrived' = arrived
        /\ waitingForDNSReply' = waitingForDNSReply /\ waitingForArpReply' = waitingForArpReply
    BY <1>6 DEF lost, dnsVars, arpVars, jobVars
  <2> HIDE DEF none
  <2>2. QED BY <1>6, <2>1, OtherPacket
<1>7. QED BY <1>1, <1>2, <1>3, <1>4, <1>5, <1>6, OtherAnswers

\* A payload is sent to the node that has its address.
LEMMA NewData ==
  ASSUME IInv, Next, NEW q \in DOMAIN wire' \ DOMAIN wire, q.type = "DATA"
  PROVE  ip[q.to] = q.ip /\ UNCHANGED ip
<1>1. IsABag(wire)
  BY DEF IInv, Typed
<1>2. ASSUME NEW ps, wire' = Sent(ps), \A m \in ps : m.type # "DATA" PROVE FALSE
  BY <1>1, <1>2, Sending
<1>3. ASSUME NEW p \in DOMAIN wire, NEW ps, wire' = Exchanged(p, ps), \A m \in ps : m.type # "DATA"
      PROVE  FALSE
  BY <1>1, <1>3, Exchanging
<1>4. ASSUME NEW h \in Hosts, sendDHCPDiscover(h) PROVE FALSE
  <2> DEFINE m == [type |-> "DISCOVER", from |-> h]
             ps == {m}
  <2>1. wire' = Sent(ps) /\ \A x \in ps : x.type # "DATA"
    BY <1>4 DEF sendDHCPDiscover
  <2> HIDE DEF ps
  <2>2. QED BY <1>2, <2>1
<1>5. ASSUME NEW j \in Jobs, attemptToStartTraffic(j) PROVE FALSE
  <2>1. CASE UNCHANGED wire
    BY <2>1
  <2>2. CASE ~UNCHANGED wire
    <3>1. \E h, d, u : wire' = Sent({[type |-> "QUERY", from |-> h, dnsIp |-> d, url |-> u]})
      BY <1>5, <2>2 DEF attemptToStartTraffic
    <3>2. PICK h, d, u : wire' = Sent({[type |-> "QUERY", from |-> h, dnsIp |-> d, url |-> u]})
      BY <3>1
    <3>3. QED BY <1>2, <3>2
  <2>3. QED BY <2>1, <2>2
<1>6. ASSUME NEW e \in DOMAIN traffic, setTraffic(e) PROVE ip[q.to] = q.ip /\ UNCHANGED ip
  <2> DEFINE h == JobHost[e.job]
             mac == arpTable[h][e.ip]
             m == [type |-> "DATA", to |-> mac, ip |-> e.ip, job |-> e.job]
             data == {m}
             request == sendArpRequest(h, e.ip)
  <2>1. UNCHANGED ip /\ ((wire' = Sent(data) /\ mac # NoMac) \/ wire' = Sent(request))
    BY <1>6 DEF setTraffic, sendUDPPacket, dhcpVars
  <2>2. \A x \in request : x.type # "DATA"
    <3> SUFFICES ASSUME NEW x \in request PROVE x.type # "DATA"
      OBVIOUS
    <3>1. PICK g : x = [type |-> "ARP REQUEST", to |-> g, from |-> h, sourceIp |-> ip[h], ip |-> e.ip]
      BY DEF sendArpRequest
    <3>2. QED BY <3>1
  <2>3. e \in [job : Jobs, ip : Addresses] /\ h \in Hosts
    BY JobsAssumption DEF IInv, Typed
  <2>4. mac # NoMac => ip[mac] = e.ip
    BY <2>3 DEF IInv, ArpTableIsTrue
  <2>5. m.to = mac /\ m.ip = e.ip
    OBVIOUS
  <2> HIDE DEF m, request, mac, h
  <2>6. CASE wire' = Sent(data) /\ mac # NoMac
    <3> HIDE DEF data
    <3>1. q \in data
      BY <1>1, <2>6, Sending
    <3>2. q = m
      BY <3>1 DEF data
    <3>3. QED BY <2>1, <2>4, <2>5, <2>6, <3>2
  <2>7. QED BY <1>2, <2>1, <2>2, <2>6
<1>7. ASSUME NEW p \in DOMAIN wire, ReceivePacket(p) PROVE ip[q.to] = q.ip /\ UNCHANGED ip
  <2>1. CASE Aside(p)
    BY <1>3, <2>1 DEF Aside
  <2>2. CASE onDNSReplyPacketReceived(p) \/ processUDPPacket(p) \/ lost(p)
    <3> DEFINE none == {}
    <3>1. wire' = Exchanged(p, none) /\ \A m \in none : m.type # "DATA"
      BY <2>2 DEF onDNSReplyPacketReceived, processUDPPacket, lost
    <3> HIDE DEF none
    <3>2. QED BY <1>3, <3>1
  <2>3. CASE p \in Replies /\ onArpReplyPacketReceived(p) /\ UNCHANGED ip
    <3> DEFINE b == waitingForArpReply[p.to][p.ip]
               new == Payloads(b, p.ip, p.mac)
               none == {}
               rest == Exchanged(p, none)
    <3>1. wire' = rest (+) new /\ UNCHANGED ip
      BY <2>3 DEF onArpReplyPacketReceived
    <3>2. p \in DOMAIN wire /\ p \in Message /\ p.to \in Hosts /\ p.ip \in Addresses /\ ip[p.mac] = p.ip
      <4>1. p \in DOMAIN wire /\ p.type = "ARP REPLY" /\ p \in Message
        BY <2>3 DEF Replies, InFlight, IInv, Typed
      <4>2. QED BY <4>1, MessageFacts DEF IInv, ReplyIsTrue
    <3>3. IsABag(b)
      BY <3>2, WaitingListFacts DEF IInv, Typed
    <3> HIDE DEF b
    <3>4. /\ IsABag(new)
          /\ DOMAIN new = {[type |-> "DATA", to |-> p.mac, ip |-> p.ip, job |-> j] : j \in DOMAIN b}
      <4>1. /\ IsABag(Payloads(b, p.ip, p.mac))
            /\ DOMAIN Payloads(b, p.ip, p.mac)
                 = {[type |-> "DATA", to |-> p.mac, ip |-> p.ip, job |-> j] : j \in DOMAIN b}
        BY <3>3, PayloadsIsBag
      <4>2. QED BY <4>1
    <3>5. IsABag(rest) /\ DOMAIN rest \subseteq DOMAIN wire
      <4>1. /\ IsABag(Exchanged(p, {})) /\ DOMAIN Exchanged(p, {}) \subseteq DOMAIN wire
        BY <1>1, ExchangedNothing
      <4>2. QED BY <4>1
    <3> HIDE DEF new, rest
    <3>6. DOMAIN wire' = DOMAIN rest \cup DOMAIN new
      BY <3>1, <3>4, <3>5, BagSum
    <3>7. q \in DOMAIN new
      BY <3>5, <3>6
    <3>8. PICK j \in DOMAIN b : q = [type |-> "DATA", to |-> p.mac, ip |-> p.ip, job |-> j]
      BY <3>4, <3>7
    <3>9. q.to = p.mac /\ q.ip = p.ip
      BY <3>8
    <3>10. QED BY <3>1, <3>2, <3>9
  <2>4. QED BY <1>7, <2>1, <2>2, <2>3, OtherAnswers
<1>8. QED BY <1>4, <1>5, <1>6, <1>7 DEF Next

LEMMA DataStep == ASSUME IInv, Typed', DataIsTrue, Next PROVE DataIsTrue'
<1> SUFFICES ASSUME NEW q \in DOMAIN wire', q.type = "DATA" PROVE ip'[q.to] = q.ip
  BY DEF DataIsTrue
<1>1. CASE q \notin DOMAIN wire
  BY <1>1, NewData
<1>2. CASE q \in DOMAIN wire
  <2>1. ip[q.to] = q.ip /\ q \in Message
    BY <1>2 DEF DataIsTrue, IInv, Typed
  <2>2. q.to \in Hosts /\ q.ip \in Addresses
    BY <2>1, MessageFacts
  <2>3. UNCHANGED ip \/ \E p \in DOMAIN wire : processDHCPPacket(p)
    BY DEF Next, sendDHCPDiscover, attemptToStartTraffic, setTraffic, ReceivePacket, DhcpServerReceives,
           handleDNSQuery, onDNSReplyPacketReceived, processARPPacket, processUDPPacket, lost, dhcpVars
  <2>4. QED BY <2>1, <2>2, <2>3, AddressesStay
<1>3. QED BY <1>1, <1>2

JobsInv == DataIsTrue /\ \A j \in Jobs : Placed(j)

LEMMA JobsStep == ASSUME IInv, IInv', JobsInv, Next PROVE JobsInv'
<1>1. Typed /\ Typed' /\ DataIsTrue /\ \A i \in Jobs : Placed(i)
  BY DEF IInv, JobsInv
<1>2. DataIsTrue'
  BY <1>1, DataStep
<1>3. ASSUME NEW h \in Hosts, sendDHCPDiscover(h) PROVE \A i \in Jobs : Placed(i)'
  <2> DEFINE m == [type |-> "DISCOVER", from |-> h]
             ps == {m}
  <2>1. wire' = Sent(ps) /\ \A x \in ps : x.type # "DATA"
    BY <1>3 DEF sendDHCPDiscover
  <2> HIDE DEF ps
  <2>2. \A i : OnWire(i)' = OnWire(i)
    BY <1>1, <2>1, SentOther DEF Typed
  <2>3. /\ unstarted' = unstarted /\ traffic' = traffic /\ arrived' = arrived
        /\ waitingForDNSReply' = waitingForDNSReply /\ waitingForArpReply' = waitingForArpReply
    BY <1>3 DEF sendDHCPDiscover, dnsVars, arpVars, jobVars
  <2>4. QED BY <1>1, <2>2, <2>3, StartsKept, DnsKept, TrafficKept, ArpKept, EndsKept, Untouched
<1>4. \A i \in Jobs : Placed(i)'
  BY <1>1, <1>3, StartPlaces, TrafficPlaces, ReceivePlaces DEF Next
<1>5. QED BY <1>2, <1>4 DEF JobsInv

LEMMA JobsStart == ASSUME Init PROVE JobsInv
<1>1. wire = EmptyBag /\ DOMAIN wire = {} /\ traffic = EmptyBag /\ DOMAIN traffic = {} /\ Typed
  BY EmptyIsBag, InitInv DEF Init, IInv
<1>2. DataIsTrue
  BY <1>1 DEF DataIsTrue
<1>3. ASSUME NEW j \in Jobs PROVE Placed(j)
  <2> DEFINE x == <<"unstarted", j, 1>>
  <2>1. AtStart(j) = {x}
    BY DEF Init, AtStart
  <2>2. AtTraffic(j) = {} /\ OnWire(j) = {}
    BY <1>1 DEF AtTraffic, OnWire, Inside
  <2>3. AtDns(j) = {} /\ AtArp(j) = {}
    <3>1. /\ \A w \in Hosts \X Urls : waitingForDNSReply[w[1]][w[2]] = EmptyBag
          /\ \A w \in Hosts \X Addresses : waitingForArpReply[w[1]][w[2]] = EmptyBag
      BY DEF Init
    <3>2. QED BY <3>1, EmptyIsBag DEF AtDns, AtArp, Waiting
  <2>4. AtEnd(j) = {}
    BY DEF Init, AtEnd
  <2>5. Places(j) = {x}
    BY <1>1, <2>1, <2>2, <2>3, <2>4, PlacesAre
  <2>6. x[3] = 1
    OBVIOUS
  <2> HIDE DEF x
  <2>7. QED BY <2>5, <2>6 DEF Placed
<1>4. QED BY <1>2, <1>3 DEF JobsInv

\* A job is neither doubled nor, unless links are lossy, forgotten, wherever it
\* waits: it is in one place, once.
THEOREM JobsStayWhole == Spec => []JobInOnePlace
<1>1. Init => JobsInv
  BY JobsStart
<1>2. IInv /\ IInv' /\ JobsInv /\ [Next]_vars => JobsInv'
  <2>1. ASSUME IInv, IInv', JobsInv, Next PROVE JobsInv'
    BY <2>1, JobsStep
  <2>2. ASSUME JobsInv, UNCHANGED vars PROVE JobsInv'
    <3>1. \A j : Places(j)' = Places(j)
      BY <2>2 DEF vars, Places, DataOf, InFlight
    <3>2. QED BY <2>2, <3>1 DEF vars, JobsInv, DataIsTrue, Placed
  <2>3. QED BY <2>1, <2>2
<1>3. JobsInv => JobInOnePlace
  <2>1. ASSUME NEW j \in Jobs, Placed(j)
        PROVE  /\ \A x \in Places(j) : x[3] = 1 /\ Places(j) = {x}
               /\ ~Lossy => Places(j) # {}
    BY <2>1 DEF Placed
  <2>2. QED BY <2>1 DEF JobsInv, JobInOnePlace
<1>4. QED BY <1>1, <1>2, <1>3, Invariance, PTL DEF Spec

-----------------------------------------------------------------------------
\* The address that the job j's traffic goes to.
Target(j) == IF JobUrl[j] \in Urls THEN Records[JobUrl[j]] ELSE JobUrl[j]

\* What a configuration has to do, as e2e/dhcp_test.go does it: traffic starts
\* when its host has an address and goes to another host that has a fixed one; a
\* host that looks up names knows the server, for it has DHCP's word or its
\* default is right.
WellConfigured ==
  /\ EarlyJobs = {}
  /\ \A j \in Jobs : StaticIp[JobHost[j]] # Unset /\ JobUrl[j] \in Urls => DefaultDnsIp = DnsIp
  /\ \A j \in Jobs : \E g \in Hosts \ {JobHost[j]} : StaticIp[g] = Target(j)

Settled ==
  /\ \A h \in Hosts : StaticIp[h] # Unset => ip[h] = StaticIp[h]
  /\ \A h \in Hosts : StaticIp[h] = Unset /\ ip[h] # Unset => dnsServerIp[h] = DnsIp
  /\ \A j \in Jobs \ unstarted : ip[JobHost[j]] # Unset

Truthful ==
  /\ \A h \in Hosts, u \in Urls : urlToIpMapping[h][u] \in {NoIp, Records[u]}
  /\ \A p \in DOMAIN wire : p.type = "ANSWER" => p.ip = Records[p.url]
  /\ \A h \in Hosts, u \in Urls : \A j \in DOMAIN waitingForDNSReply[h][u] : JobUrl[j] = u
  /\ \A e \in DOMAIN traffic : e.ip = Target(e.job)

Queries(q, h, u) == q.type = "QUERY" /\ q.from = h /\ q.url = u /\ q.dnsIp = DnsIp
Names(q, h, u) == q.type = "ANSWER" /\ q.to = h /\ q.url = u
Asks(q, h, a) ==
  q.type = "ARP REQUEST" /\ q.from = h /\ q.ip = a /\ q.sourceIp = ip[h] /\ ip[q.to] = a
Tells(q, h, a) == q.type = "ARP REPLY" /\ q.to = h /\ q.ip = a /\ q.destIp = ip[h]

NameAwaited(h, u) == \E q \in DOMAIN wire : Queries(q, h, u) \/ Names(q, h, u)
MacAwaited(h, a) == ip[h] # Unset /\ \E q \in DOMAIN wire : Asks(q, h, a) \/ Tells(q, h, a)

Awaited ==
  /\ \A h \in Hosts, u \in Urls : waitingForDNSReply[h][u] # EmptyBag => NameAwaited(h, u)
  /\ \A h \in Hosts, a \in Addresses : waitingForArpReply[h][a] # EmptyBag => MacAwaited(h, a)

LEMMA SentAll ==
  ASSUME IsABag(wire), NEW ps, wire' = Sent(ps) PROVE DOMAIN wire' = DOMAIN wire \cup ps
  BY Sending

LEMMA RestStays ==
  ASSUME IsABag(wire), NEW p \in DOMAIN wire, NEW ps, NEW next, next = Exchanged(p, ps)
  PROVE  IsABag(next) /\ DOMAIN wire \ {p} \subseteq DOMAIN next /\ ps \subseteq DOMAIN next
                      /\ DOMAIN next \subseteq DOMAIN wire \cup ps
<1> DEFINE rest == BagRemove(wire, p)
           c == SetToBag(ps)
<1>1. IsABag(c) /\ DOMAIN c = ps
  BY SetIsBag
<1>2. IsABag(rest) /\ DOMAIN rest \subseteq DOMAIN wire /\ DOMAIN wire \ {p} \subseteq DOMAIN rest
  BY BagTake DEF BagRemove, Ext!BagRemove
<1>3. next = rest (+) c
  BY DEF Exchanged
<1> HIDE DEF rest, c
<1>4. IsABag(rest (+) c) /\ DOMAIN (rest (+) c) = DOMAIN rest \cup DOMAIN c
  BY <1>1, <1>2, BagSum
<1>5. QED BY <1>1, <1>2, <1>3, <1>4

\* What p is taken for leaves every other packet in flight.
LEMMA OthersStay ==
  ASSUME IInv, NEW p \in DOMAIN wire, ReceivePacket(p)
  PROVE  DOMAIN wire \ {p} \subseteq DOMAIN wire'
<1>1. IsABag(wire)
  BY DEF IInv, Typed
<1>2. ASSUME NEW ps, wire' = Exchanged(p, ps) PROVE DOMAIN wire \ {p} \subseteq DOMAIN wire'
  BY <1>1, <1>2, RestStays
<1>3. CASE onDNSReplyPacketReceived(p) \/ processUDPPacket(p) \/ lost(p)
  <2> DEFINE none == {}
  <2>1. wire' = Exchanged(p, none)
    BY <1>3 DEF onDNSReplyPacketReceived, processUDPPacket, lost
  <2> HIDE DEF none
  <2>2. QED BY <1>2, <2>1
<1>4. CASE Aside(p)
  BY <1>2, <1>4 DEF Aside
<1>5. CASE p \in Replies /\ onArpReplyPacketReceived(p)
  <2> DEFINE b == waitingForArpReply[p.to][p.ip]
             new == Payloads(b, p.ip, p.mac)
             none == {}
             rest == Exchanged(p, none)
  <2>1. wire' = rest (+) new
    BY <1>5 DEF onArpReplyPacketReceived
  <2>2. p.to \in Hosts /\ p.ip \in Addresses
    <3>1. p.type = "ARP REPLY" /\ p \in Message
      BY <1>5 DEF Replies, InFlight, IInv, Typed
    <3>2. QED BY <3>1, MessageFacts
  <2>3. IsABag(b)
    BY <2>2, WaitingListFacts DEF IInv, Typed
  <2> HIDE DEF b
  <2>4. IsABag(new)
    <3>1. IsABag(Payloads(b, p.ip, p.mac))
      BY <2>3, PayloadsIsBag
    <3>2. QED BY <3>1
  <2>5. rest = Exchanged(p, none)
    OBVIOUS
  <2> HIDE DEF new, rest, none
  <2>6. IsABag(rest) /\ DOMAIN wire \ {p} \subseteq DOMAIN rest
    BY <1>1, <2>5, RestStays
  <2>7. DOMAIN wire' = DOMAIN rest \cup DOMAIN new
    BY <2>1, <2>4, <2>6, BagSum
  <2>8. QED BY <2>6, <2>7
<1>6. QED BY <1>3, <1>4, <1>5, OtherAnswers

\* A host that has an address keeps it, whatever happens.
LEMMA AddressesKept ==
  ASSUME IInv, Next
  PROVE  \A h \in Hosts : ip[h] # Unset => ip'[h] = ip[h] /\ ip[h] \in Addresses
<1>1. UNCHANGED ip \/ \E p \in DOMAIN wire : processDHCPPacket(p)
  BY DEF Next, sendDHCPDiscover, attemptToStartTraffic, setTraffic, ReceivePacket, DhcpServerReceives,
         handleDNSQuery, onDNSReplyPacketReceived, processARPPacket, processUDPPacket, lost, dhcpVars
<1>2. \A h \in Hosts : ip[h] # Unset => ip[h] \in Addresses
  BY DEF IInv, Typed
<1>3. QED BY <1>1, <1>2, AddressesStay

LEMMA ReceiveByType ==
  ASSUME NEW p, ReceivePacket(p), ~Lossy
  PROVE  /\ p.type = "QUERY" => handleDNSQuery(p)
         /\ p.type = "ANSWER" => onDNSReplyPacketReceived(p)
         /\ p.type \in {"ARP REQUEST", "ARP REPLY"} => processARPPacket(p)
<1>1. ~lost(p)
  BY DEF lost
<1>2. DhcpServerReceives(p) => p.type \in {"DISCOVER", "REQUEST"}
  BY DEF DhcpServerReceives
<1>3. processDHCPPacket(p) => p.type \in {"OFFER", "ACK"}
  BY DEF processDHCPPacket
<1>4. handleDNSQuery(p) => p.type = "QUERY"
  BY DEF handleDNSQuery
<1>5. onDNSReplyPacketReceived(p) => p.type = "ANSWER"
  BY DEF onDNSReplyPacketReceived
<1>6. processARPPacket(p) => p.type \in {"ARP REQUEST", "ARP REPLY"}
  BY DEF processARPPacket
<1>7. processUDPPacket(p) => p.type = "DATA"
  BY DEF processUDPPacket
<1>8. QED BY <1>1, <1>2, <1>3, <1>4, <1>5, <1>6, <1>7 DEF ReceivePacket

LEMMA NamesReceive ==
  ASSUME IInv, Awaited, ~Lossy, NEW p \in DOMAIN wire, ReceivePacket(p),
         NEW h \in Hosts, NEW u \in Urls, waitingForDNSReply'[h][u] # EmptyBag
  PROVE  NameAwaited(h, u)'
<1>1. IsABag(wire) /\ p \in Message
  BY DEF IInv, Typed
<1>2. \/ waitingForDNSReply' = waitingForDNSReply
      \/ onDNSReplyPacketReceived(p)
  BY DEF ReceivePacket, DhcpServerReceives, processDHCPPacket, handleDNSQuery, processARPPacket,
         processUDPPacket, lost, dnsVars
<1>3. onDNSReplyPacketReceived(p) => p.to \in Hosts /\ p.url \in Urls
  BY <1>1, MessageFacts DEF onDNSReplyPacketReceived
<1>4. onDNSReplyPacketReceived(p) => h # p.to \/ u # p.url
  BY <1>3 DEF onDNSReplyPacketReceived, IInv, Typed
<1>5. waitingForDNSReply[h][u] # EmptyBag
  BY <1>2, <1>3, <1>4 DEF onDNSReplyPacketReceived, IInv, Typed
<1>6. PICK q \in DOMAIN wire : Queries(q, h, u) \/ Names(q, h, u)
  BY <1>5 DEF Awaited, NameAwaited
<1>7. CASE q # p
  <2>1. q \in DOMAIN wire'
    BY <1>7, OthersStay
  <2>2. QED BY <1>6, <2>1 DEF NameAwaited, Queries, Names
<1>8. CASE Queries(p, h, u)
  <2> DEFINE m == [type |-> "ANSWER", to |-> p.from, url |-> p.url, ip |-> Records[p.url]]
             ps == {m}
  <2>1. p.type = "QUERY" /\ p.dnsIp = DnsIp /\ p.from = h /\ p.url = u
    BY <1>8 DEF Queries
  <2>2. wire' = Exchanged(p, ps)
    BY <2>1, ReceiveByType DEF handleDNSQuery
  <2>3. Names(m, h, u)
    BY <2>1 DEF Names
  <2> HIDE DEF m
  <2>4. m \in ps
    OBVIOUS
  <2> HIDE DEF ps
  <2>5. m \in DOMAIN wire'
    BY <1>1, <2>2, <2>4, RestStays
  <2>6. QED BY <2>3, <2>5 DEF NameAwaited, Names
<1>9. CASE Names(p, h, u)
  BY <1>4, <1>9, ReceiveByType DEF Names
<1>10. QED BY <1>6, <1>7, <1>8, <1>9

LEMMA MacsReceive ==
  ASSUME IInv, Next, Awaited, ~Lossy, NEW p \in DOMAIN wire, ReceivePacket(p),
         NEW h \in Hosts, NEW a \in Addresses, waitingForArpReply'[h][a] # EmptyBag
  PROVE  MacAwaited(h, a)'
<1>1. IsABag(wire) /\ p \in Message
  BY DEF IInv, Typed
<1>2. \/ waitingForArpReply' = waitingForArpReply
      \/ p \in Replies /\ onArpReplyPacketReceived(p)
  <2>1. processARPPacket(p) => \/ waitingForArpReply' = waitingForArpReply
                               \/ p \in Replies /\ onArpReplyPacketReceived(p)
    BY DEF processARPPacket, arpVars, Replies, InFlight
  <2>2. QED BY <2>1 DEF ReceivePacket, DhcpServerReceives, processDHCPPacket, handleDNSQuery,
               onDNSReplyPacketReceived, processUDPPacket, lost, arpVars
<1>3. p \in Replies => p.to \in Hosts /\ p.ip \in Addresses
  BY <1>1, MessageFacts DEF Replies, InFlight
<1>4. p \in Replies /\ onArpReplyPacketReceived(p) => h # p.to \/ a # p.ip
  BY <1>3 DEF onArpReplyPacketReceived, IInv, Typed
<1>5. waitingForArpReply[h][a] # EmptyBag
  BY <1>2, <1>3, <1>4 DEF onArpReplyPacketReceived, IInv, Typed
<1>6. PICK q \in DOMAIN wire : Asks(q, h, a) \/ Tells(q, h, a)
  BY <1>5 DEF Awaited, MacAwaited
<1>7. ip[h] # Unset /\ ip'[h] = ip[h] /\ ip'[h] # Unset
  BY <1>5, AddressesKept DEF Awaited, MacAwaited
<1>8. CASE q # p
  <2>1. q \in DOMAIN wire' /\ q \in Message
    BY <1>8, OthersStay DEF IInv, Typed
  <2>2. Asks(q, h, a) => q.to \in Hosts
    BY <2>1, MessageFacts DEF Asks
  <2>3. a # Unset
    BY StaticAssumption
  <2>4. Asks(q, h, a) => ip'[q.to] = a
    BY <2>2, <2>3, AddressesKept DEF Asks
  <2>5. Asks(q, h, a)' \/ Tells(q, h, a)'
    BY <1>6, <1>7, <2>4 DEF Asks, Tells
  <2>6. QED BY <1>7, <2>1, <2>5 DEF MacAwaited
<1>9. CASE Asks(p, h, a)
  <2> DEFINE m == [type |-> "ARP REPLY", to |-> p.from, destIp |-> p.sourceIp, ip |-> p.ip, mac |-> p.to]
             ps == {m}
  <2>1. processARPPacket(p) /\ p.type = "ARP REQUEST"
    BY <1>9, ReceiveByType DEF Asks
  <2>2. wire' = Exchanged(p, sendArpReply(p)) /\ UNCHANGED ip
    BY <2>1 DEF processARPPacket, dhcpVars
  <2>3. wire' = Exchanged(p, ps)
    BY <1>9, <2>2 DEF sendArpReply, Asks
  <2>4. Tells(m, h, a)'
    BY <1>9, <2>2 DEF Tells, Asks
  <2> HIDE DEF m
  <2>5. m \in ps
    OBVIOUS
  <2> HIDE DEF ps
  <2>6. m \in DOMAIN wire'
    BY <1>1, <2>3, <2>5, RestStays
  <2>7. QED BY <1>7, <2>4, <2>6 DEF MacAwaited
<1>10. CASE Tells(p, h, a)
  <2>1. processARPPacket(p) /\ p.type = "ARP REPLY" /\ p.to = h /\ p.ip = a /\ p.destIp = ip[p.to]
    BY <1>10, ReceiveByType DEF Tells
  <2>2. p \in Replies /\ onArpReplyPacketReceived(p)
    BY <2>1 DEF processARPPacket, Replies, InFlight
  <2>3. QED BY <1>4, <2>1, <2>2
<1>11. QED BY <1>6, <1>8, <1>9, <1>10

LEMMA SettledStep == ASSUME IInv, Next, WellConfigured, Settled PROVE Settled'
<1>1. \A h \in Hosts : StaticIp[h] # Unset => ip'[h] = StaticIp[h]
  BY AddressesKept DEF Settled
<1>2. \/ UNCHANGED dhcpVars
      \/ UNCHANGED <<ip, dnsServerIp>>
      \/ \E p \in DOMAIN wire : /\ processDHCPPacket(p) /\ p.type = "ACK" /\ p.to \in Hosts
                                /\ ip' = [ip EXCEPT ![p.to] = p.ip]
                                /\ dnsServerIp' = [dnsServerIp EXCEPT ![p.to] = DnsIp]
  <2>1. ASSUME NEW p \in DOMAIN wire, processDHCPPacket(p)
        PROVE  \/ UNCHANGED <<ip, dnsServerIp>>
               \/ /\ p.type = "ACK" /\ p.to \in Hosts
                  /\ ip' = [ip EXCEPT ![p.to] = p.ip]
                  /\ dnsServerIp' = [dnsServerIp EXCEPT ![p.to] = DnsIp]
    <3>1. p \in Message
      BY DEF IInv, Typed
    <3>2. QED BY <2>1, <3>1, MessageFacts DEF processDHCPPacket
  <2>2. \/ UNCHANGED dhcpVars \/ UNCHANGED <<ip, dnsServerIp>>
        \/ \E p \in DOMAIN wire : processDHCPPacket(p)
    BY DEF Next, sendDHCPDiscover, attemptToStartTraffic, setTraffic, ReceivePacket, DhcpServerReceives,
           handleDNSQuery, onDNSReplyPacketReceived, processARPPacket, processUDPPacket, lost
  <2>3. QED BY <2>1, <2>2
<1>3. \A h \in Hosts : StaticIp[h] = Unset /\ ip'[h] # Unset => dnsServerIp'[h] = DnsIp
  BY <1>2 DEF Settled, IInv, Typed, dhcpVars
<1>4. \A j \in Jobs \ unstarted' : j \notin unstarted \/ ip[JobHost[j]] # Unset
  <2>1. unstarted' = unstarted \/ \E j \in Jobs : attemptToStartTraffic(j)
    BY DEF Next, sendDHCPDiscover, setTraffic, ReceivePacket, DhcpServerReceives, processDHCPPacket,
           handleDNSQuery, onDNSReplyPacketReceived, processARPPacket, processUDPPacket, lost, jobVars
  <2>2. ASSUME NEW j \in Jobs, attemptToStartTraffic(j)
        PROVE  unstarted' = unstarted \ {j} /\ ip[JobHost[j]] # Unset
    BY <2>2 DEF attemptToStartTraffic, WellConfigured
  <2>3. QED BY <2>1, <2>2
<1>5. \A j \in Jobs \ unstarted' : ip'[JobHost[j]] # Unset
  BY <1>4, AddressesKept, JobsAssumption DEF Settled
<1>6. QED BY <1>1, <1>3, <1>5 DEF Settled

\* No answer among the packets ps tells an address that the name does not have.
Honest(ps) == \A m \in ps : m.type = "ANSWER" => m.ip = Records[m.url]

LEMMA HonestMessages ==
  ASSUME IsABag(wire), Honest(DOMAIN wire), NEW ps, Honest(ps)
  PROVE  /\ wire' = Sent(ps) => Honest(DOMAIN wire')
         /\ \A p \in DOMAIN wire : wire' = Exchanged(p, ps) => Honest(DOMAIN wire')
<1>1. wire' = Sent(ps) => DOMAIN wire' = DOMAIN wire \cup ps
  BY SentAll
<1>2. \A p \in DOMAIN wire : wire' = Exchanged(p, ps) => DOMAIN wire' \subseteq DOMAIN wire \cup ps
  BY Exchanging
<1>3. QED BY <1>1, <1>2 DEF Honest

LEMMA ReplySendsData ==
  ASSUME IInv, NEW p \in Replies, onArpReplyPacketReceived(p)
  PROVE  \A q \in DOMAIN wire' : q \in DOMAIN wire \/ q.type = "DATA"
<1> DEFINE b == waitingForArpReply[p.to][p.ip]
           new == Payloads(b, p.ip, p.mac)
           none == {}
           rest == Exchanged(p, none)
<1>1. wire' = rest (+) new
  BY DEF onArpReplyPacketReceived
<1>2. p.to \in Hosts /\ p.ip \in Addresses /\ p \in DOMAIN wire /\ IsABag(wire)
  <2>1. p.type = "ARP REPLY" /\ p \in Message /\ p \in DOMAIN wire /\ IsABag(wire)
    BY DEF Replies, InFlight, IInv, Typed
  <2>2. QED BY <2>1, MessageFacts
<1>3. IsABag(b)
  BY <1>2, WaitingListFacts DEF IInv, Typed
<1> HIDE DEF b
<1>4. /\ IsABag(new)
      /\ DOMAIN new = {[type |-> "DATA", to |-> p.mac, ip |-> p.ip, job |-> j] : j \in DOMAIN b}
  <2>1. /\ IsABag(Payloads(b, p.ip, p.mac))
        /\ DOMAIN Payloads(b, p.ip, p.mac)
             = {[type |-> "DATA", to |-> p.mac, ip |-> p.ip, job |-> j] : j \in DOMAIN b}
    BY <1>3, PayloadsIsBag
  <2>2. QED BY <2>1
<1>5. IsABag(rest) /\ DOMAIN rest \subseteq DOMAIN wire
  <2>1. /\ IsABag(Exchanged(p, {})) /\ DOMAIN Exchanged(p, {}) \subseteq DOMAIN wire
    BY <1>2, ExchangedNothing
  <2>2. QED BY <2>1
<1> HIDE DEF new, rest
<1>6. DOMAIN wire' = DOMAIN rest \cup DOMAIN new
  BY <1>1, <1>4, <1>5, BagSum
<1>7. QED BY <1>4, <1>5, <1>6

LEMMA HonestStep == ASSUME IInv, Next, Honest(DOMAIN wire) PROVE Honest(DOMAIN wire')
<1>1. IsABag(wire)
  BY DEF IInv, Typed
<1>2. ASSUME NEW h \in Hosts, sendDHCPDiscover(h) PROVE Honest(DOMAIN wire')
  <2> DEFINE m == [type |-> "DISCOVER", from |-> h]
             ps == {m}
  <2>1. wire' = Sent(ps) /\ Honest(ps)
    BY <1>2 DEF sendDHCPDiscover, Honest
  <2> HIDE DEF ps
  <2>2. QED BY <1>1, <2>1, HonestMessages
<1>3. ASSUME NEW j \in Jobs, attemptToStartTraffic(j) PROVE Honest(DOMAIN wire')
  <2> DEFINE query(h, d, u) == {[type |-> "QUERY", from |-> h, dnsIp |-> d, url |-> u]}
  <2>1. UNCHANGED wire \/ \E h, d, u : wire' = Sent(query(h, d, u))
    BY <1>3 DEF attemptToStartTraffic
  <2>2. \A h, d, u : Honest(query(h, d, u))
    BY DEF Honest
  <2> HIDE DEF query
  <2>3. QED BY <1>1, <2>1, <2>2, HonestMessages
<1>4. ASSUME NEW e \in DOMAIN traffic, setTraffic(e) PROVE Honest(DOMAIN wire')
  <2> DEFINE h == JobHost[e.job]
             data == {[type |-> "DATA", to |-> arpTable[h][e.ip], ip |-> e.ip, job |-> e.job]}
             request == sendArpRequest(h, e.ip)
  <2>1. wire' = Sent(data) \/ wire' = Sent(request)
    BY <1>4 DEF setTraffic, sendUDPPacket
  <2>2. Honest(data)
    BY DEF Honest
  <2>3. Honest(request)
    <3> SUFFICES ASSUME NEW x \in request PROVE x.type # "ANSWER"
      BY DEF Honest
    <3>1. PICK g : x = [type |-> "ARP REQUEST", to |-> g, from |-> h, sourceIp |-> ip[h], ip |-> e.ip]
      BY DEF sendArpRequest
    <3>2. QED BY <3>1
  <2> HIDE DEF data, request
  <2>4. QED BY <1>1, <2>1, <2>2, <2>3, HonestMessages
<1>5. ASSUME NEW p \in DOMAIN wire, ReceivePacket(p) PROVE Honest(DOMAIN wire')
  <2>1. ASSUME NEW ps, Honest(ps), wire' = Exchanged(p, ps) PROVE Honest(DOMAIN wire')
    BY <1>1, <2>1, HonestMessages
  <2>2. CASE DhcpServerReceives(p)
    <3> DEFINE offer(a) == {[type |-> "OFFER", to |-> p.from, ip |-> a]}
               ack == {[type |-> "ACK", to |-> p.from, ip |-> p.ip]}
    <3>1. \/ UNCHANGED wire
          \/ \E a \in Pool : wire' = Exchanged(p, offer(a))
          \/ wire' = Exchanged(p, ack)
      BY <2>2 DEF DhcpServerReceives, handleDHCPDiscover, handleDHCPRequest
    <3>2. Honest(ack) /\ \A a : Honest(offer(a))
      BY DEF Honest
    <3> HIDE DEF offer, ack
    <3>3. QED BY <2>1, <3>1, <3>2
  <2>3. CASE processDHCPPacket(p)
    <3> DEFINE ps == {[type |-> "REQUEST", from |-> p.to, ip |-> p.ip]}
               none == {}
    <3>1. Honest(ps) /\ Honest(none) /\ (wire' = Exchanged(p, ps) \/ wire' = Exchanged(p, none))
      BY <2>3 DEF processDHCPPacket, Honest
    <3> HIDE DEF ps, none
    <3>2. QED BY <2>1, <3>1
  <2>4. CASE handleDNSQuery(p)
    <3> DEFINE m == [type |-> "ANSWER", to |-> p.from, url |-> p.url, ip |-> Records[p.url]]
               ps == IF p.dnsIp # DnsIp THEN {} ELSE {m}
    <3>1. wire' = Exchanged(p, ps) /\ m.ip = Records[m.url]
      BY <2>4 DEF handleDNSQuery
    <3> HIDE DEF m
    <3>2. Honest(ps)
      BY <3>1 DEF Honest
    <3> HIDE DEF ps
    <3>3. QED BY <2>1, <3>1, <3>2
  <2>5. CASE onDNSReplyPacketReceived(p) \/ processUDPPacket(p) \/ lost(p)
    <3> DEFINE none == {}
    <3>1. wire' = Exchanged(p, none) /\ Honest(none)
      BY <2>5 DEF onDNSReplyPacketReceived, processUDPPacket, lost, Honest
    <3> HIDE DEF none
    <3>2. QED BY <2>1, <3>1
  <2>6. CASE processARPPacket(p)
    <3> DEFINE m == [type |-> "ARP REPLY", to |-> p.from, destIp |-> p.sourceIp, ip |-> p.ip, mac |-> p.to]
               ps == {m}
               none == {}
    <3>1. m.type # "ANSWER"
      OBVIOUS
    <3>2. sendArpReply(p) = ps \/ sendArpReply(p) = none
      BY DEF sendArpReply
    <3> HIDE DEF m
    <3>3. Honest(ps) /\ Honest(none)
      BY <3>1 DEF Honest
    <3>4. \/ wire' = Exchanged(p, sendArpReply(p))
          \/ wire' = Exchanged(p, none)
          \/ p \in Replies /\ onArpReplyPacketReceived(p)
      BY <2>6 DEF processARPPacket, Replies, InFlight
    <3> HIDE DEF ps, none
    <3>5. CASE p \in Replies /\ onArpReplyPacketReceived(p)
      BY <3>5, ReplySendsData DEF Honest
    <3>6. QED BY <2>1, <3>2, <3>3, <3>4, <3>5
  <2>7. QED BY <1>5, <2>2, <2>3, <2>4, <2>5, <2>6 DEF ReceivePacket
<1>6. QED BY <1>2, <1>3, <1>4, <1>5 DEF Next

\* Where the mappings, the lists and the events of a step come from.
LEMMA TruthfulStep == ASSUME IInv, Next, Truthful PROVE Truthful'
<1>0. /\ \A h \in Hosts, u \in Urls : urlToIpMapping[h][u] \in {NoIp, Records[u]}
      /\ \A p \in DOMAIN wire : p.type = "ANSWER" => p.ip = Records[p.url]
      /\ \A h \in Hosts, u \in Urls : \A j \in DOMAIN waitingForDNSReply[h][u] : JobUrl[j] = u
      /\ \A e \in DOMAIN traffic : e.ip = Target(e.job)
      /\ IsABag(traffic)
  BY DEF Truthful, IInv, Typed
<1>1. \A p \in DOMAIN wire' : p.type = "ANSWER" => p.ip = Records[p.url]
  BY <1>0, HonestStep DEF Honest
<1>2. ASSUME UNCHANGED <<urlToIpMapping, waitingForDNSReply>>, DOMAIN traffic' \subseteq DOMAIN traffic
      PROVE  Truthful'
  BY <1>0, <1>1, <1>2 DEF Truthful, Target
<1>3. ASSUME NEW j \in Jobs, attemptToStartTraffic(j) PROVE Truthful'
  <2> DEFINE h == JobHost[j]
             u == JobUrl[j]
             a == resolveDestinationIp(h, u)
             js == SetToBag({j})
             e == [job |-> j, ip |-> a]
             es == SetToBag({e})
  <2>1. h \in Hosts /\ UNCHANGED urlToIpMapping
    BY <1>3, JobsAssumption DEF attemptToStartTraffic
  <2>2. CASE a # NoIp
    <3>1. traffic' = traffic (+) es /\ UNCHANGED waitingForDNSReply
      BY <1>3, <2>2 DEF attemptToStartTraffic
    <3>2. a = Target(j)
      BY <1>0, <2>1, <2>2 DEF resolveDestinationIp, Target
    <3>3. IsABag(es) /\ DOMAIN es = {e}
      BY SetIsBag
    <3>4. e.ip = Target(e.job)
      BY <3>2
    <3> HIDE DEF e, es, a
    <3>5. DOMAIN traffic' = DOMAIN traffic \cup DOMAIN es
      BY <1>0, <3>1, <3>3, BagSum
    <3>6. \A x \in DOMAIN traffic' : x.ip = Target(x.job)
      BY <1>0, <3>3, <3>4, <3>5
    <3>7. QED BY <1>0, <1>1, <2>1, <3>1, <3>6 DEF Truthful, Target
  <2>3. CASE a = NoIp
    <3>1. waitingForDNSReply' = [waitingForDNSReply EXCEPT ![h][u] = @ (+) js] /\ UNCHANGED traffic
      BY <1>3, <2>3 DEF attemptToStartTraffic
    <3>2. IsABag(js) /\ DOMAIN js = {j}
      BY SetIsBag
    <3> HIDE DEF js, a
    <3>3. ASSUME NEW g \in Hosts, NEW v \in Urls, NEW i \in DOMAIN waitingForDNSReply'[g][v]
          PROVE  JobUrl[i] = v
      <4>1. CASE g = h /\ v = u
        <5> DEFINE b == waitingForDNSReply[h][u]
        <5>1. waitingForDNSReply'[g][v] = b (+) js
          BY <3>1, <4>1 DEF IInv, Typed
        <5>2. IsABag(b) /\ \A k \in DOMAIN b : JobUrl[k] = u
          BY <1>0, <4>1, WaitingListFacts DEF IInv, Typed
        <5> HIDE DEF b
        <5>3. DOMAIN (b (+) js) = DOMAIN b \cup DOMAIN js
          BY <3>2, <5>2, BagSum
        <5>4. QED BY <3>2, <3>3, <4>1, <5>1, <5>2, <5>3
      <4>2. CASE ~(g = h /\ v = u)
        <5>1. waitingForDNSReply'[g][v] = waitingForDNSReply[g][v]
          BY <3>1, <4>2 DEF IInv, Typed
        <5>2. QED BY <1>0, <3>3, <5>1
      <4>3. QED BY <4>1, <4>2
    <3>4. QED BY <1>0, <1>1, <2>1, <3>1, <3>3 DEF Truthful, Target
  <2>4. QED BY <2>2, <2>3
<1>4. ASSUME NEW p \in DOMAIN wire, onDNSReplyPacketReceived(p) PROVE Truthful'
  <2> DEFINE b == waitingForDNSReply[p.to][p.url]
             new == Scheduled(b, p.ip)
  <2>1. /\ urlToIpMapping' = [urlToIpMapping EXCEPT ![p.to][p.url] = p.ip]
        /\ traffic' = traffic (+) new
        /\ waitingForDNSReply' = [waitingForDNSReply EXCEPT ![p.to][p.url] = EmptyBag]
        /\ p.type = "ANSWER" /\ p \in Message
    BY <1>4 DEF onDNSReplyPacketReceived, IInv, Typed
  <2>2. p.to \in Hosts /\ p.url \in Urls /\ p.ip = Records[p.url]
    BY <1>0, <2>1, MessageFacts
  <2>3. IsABag(b) /\ \A j \in DOMAIN b : JobUrl[j] = p.url
    BY <1>0, <2>2, WaitingListFacts DEF IInv, Typed
  <2> HIDE DEF b
  <2>4. IsABag(new) /\ DOMAIN new = {[job |-> j, ip |-> p.ip] : j \in DOMAIN b}
    BY <2>3, ScheduledIsBag
  <2> HIDE DEF new
  <2>5. \A e \in DOMAIN new : e.ip = Target(e.job)
    BY <2>2, <2>3, <2>4 DEF Target
  <2>6. DOMAIN traffic' = DOMAIN traffic \cup DOMAIN new
    BY <1>0, <2>1, <2>4, BagSum
  <2>7. \A h \in Hosts, u \in Urls : urlToIpMapping'[h][u] \in {NoIp, Records[u]}
    BY <1>0, <2>1, <2>2 DEF IInv, Typed
  <2>8. \A h \in Hosts, u \in Urls : \A j \in DOMAIN waitingForDNSReply'[h][u] : JobUrl[j] = u
    BY <1>0, <2>1, <2>2, EmptyIsBag DEF IInv, Typed
  <2>9. QED BY <1>0, <1>1, <2>5, <2>6, <2>7, <2>8 DEF Truthful, Target
<1>5. ASSUME NEW e \in DOMAIN traffic, setTraffic(e) PROVE Truthful'
  <2>1. traffic' = BagRemove(traffic, e) /\ UNCHANGED dnsVars
    BY <1>5 DEF setTraffic
  <2>2. DOMAIN traffic' \subseteq DOMAIN traffic
    BY <1>0, <2>1, BagTake DEF BagRemove, Ext!BagRemove
  <2>3. QED BY <1>2, <2>1, <2>2 DEF dnsVars
<1>6. \/ UNCHANGED <<dnsVars, traffic>>
      \/ \E j \in Jobs : attemptToStartTraffic(j)
      \/ \E e \in DOMAIN traffic : setTraffic(e)
      \/ \E p \in DOMAIN wire : onDNSReplyPacketReceived(p)
  BY DEF Next, sendDHCPDiscover, ReceivePacket, DhcpServerReceives, processDHCPPacket,
         handleDNSQuery, processARPPacket, processUDPPacket, lost, jobVars
<1>7. QED BY <1>2, <1>3, <1>4, <1>5, <1>6 DEF dnsVars

\* A step that only adds packets leaves whoever is waited on so.
LEMMA WaitedStays ==
  ASSUME UNCHANGED ip, DOMAIN wire \subseteq DOMAIN wire'
  PROVE  /\ \A h \in Hosts, u \in Urls : NameAwaited(h, u) => NameAwaited(h, u)'
         /\ \A h \in Hosts, a \in Addresses : MacAwaited(h, a) => MacAwaited(h, a)'
<1>1. ASSUME NEW h \in Hosts, NEW u \in Urls, NameAwaited(h, u) PROVE NameAwaited(h, u)'
  BY <1>1 DEF NameAwaited, Queries, Names
<1>2. ASSUME NEW h \in Hosts, NEW a \in Addresses, MacAwaited(h, a) PROVE MacAwaited(h, a)'
  <2>1. PICK q \in DOMAIN wire : Asks(q, h, a) \/ Tells(q, h, a)
    BY <1>2 DEF MacAwaited
  <2>2. Asks(q, h, a)' \/ Tells(q, h, a)'
    BY <2>1 DEF Asks, Tells
  <2>3. QED BY <1>2, <2>1, <2>2 DEF MacAwaited
<1>3. QED BY <1>1, <1>2

LEMMA StartAwaited ==
  ASSUME IInv, WellConfigured, Settled, Truthful, Awaited, NEW j \in Jobs, attemptToStartTraffic(j)
  PROVE  Awaited'
<1> DEFINE h == JobHost[j]
           u == JobUrl[j]
           m == [type |-> "QUERY", from |-> h, dnsIp |-> dnsServerIp[h], url |-> u]
           ps == {m}
           js == SetToBag({j})
<1>1. /\ UNCHANGED <<ip, waitingForArpReply>> /\ h \in Hosts /\ ip[h] # Unset
      /\ IsABag(wire)
  BY JobsAssumption DEF attemptToStartTraffic, WellConfigured, dhcpVars, arpVars, IInv, Typed
<1>2. CASE UNCHANGED <<waitingForDNSReply, wire>>
  BY <1>1, <1>2, WaitedStays DEF Awaited
<1>3. CASE ~UNCHANGED <<waitingForDNSReply, wire>>
  <2>1. /\ waitingForDNSReply' = [waitingForDNSReply EXCEPT ![h][u] = @ (+) js]
        /\ wire' = Sent(ps)
        /\ resolveDestinationIp(h, u) = NoIp
    BY <1>3 DEF attemptToStartTraffic
  <2>2. u \in Urls
    <3>1. u \notin Urls => u \in Addresses
      BY DEF Addresses, Destinations
    <3>2. QED BY <2>1, <3>1, NilAssumption DEF resolveDestinationIp
  <2>3. dnsServerIp[h] = DnsIp
    BY <1>1, <2>2 DEF Settled, WellConfigured, IInv, Typed
  <2>4. Queries(m, h, u)
    BY <2>3 DEF Queries
  <2> HIDE DEF m, js
  <2>5. DOMAIN wire' = DOMAIN wire \cup ps
    BY <1>1, <2>1, SentAll
  <2>6. NameAwaited(h, u)'
    BY <2>4, <2>5 DEF NameAwaited, Queries
  <2>7. \A g \in Hosts, v \in Urls : g # h \/ v # u => waitingForDNSReply'[g][v] = waitingForDNSReply[g][v]
    BY <2>1 DEF IInv, Typed
  <2> HIDE DEF ps
  <2>8. /\ \A g \in Hosts, v \in Urls : NameAwaited(g, v) => NameAwaited(g, v)'
        /\ \A g \in Hosts, a \in Addresses : MacAwaited(g, a) => MacAwaited(g, a)'
    BY <1>1, <2>5, WaitedStays
  <2>9. \A g \in Hosts, v \in Urls : waitingForDNSReply'[g][v] # EmptyBag => NameAwaited(g, v)'
    BY <2>6, <2>7, <2>8 DEF Awaited
  <2>10. \A g \in Hosts, a \in Addresses : waitingForArpReply'[g][a] # EmptyBag => MacAwaited(g, a)'
    BY <1>1, <2>8 DEF Awaited
  <2>11. QED BY <2>9, <2>10 DEF Awaited
<1>4. QED BY <1>2, <1>3

LEMMA TrafficAwaited ==
  ASSUME IInv, JobsInv, WellConfigured, Settled, Truthful, Awaited,
         NEW e \in DOMAIN traffic, setTraffic(e)
  PROVE  Awaited'
<1> DEFINE j == e.job
           h == JobHost[j]
           a == e.ip
           data == {[type |-> "DATA", to |-> arpTable[h][a], ip |-> a, job |-> j]}
           request == sendArpRequest(h, a)
           js == SetToBag({j})
<1>1. /\ UNCHANGED <<ip, waitingForDNSReply>> /\ IsABag(wire) /\ Typed
      /\ j \in Jobs /\ h \in Hosts /\ a \in Addresses /\ a = Target(j) /\ e \in EventsOf(j)
  BY JobsAssumption DEF setTraffic, dhcpVars, dnsVars, IInv, Typed, Truthful, EventsOf
<1>2. ip[h] # Unset
  <2> DEFINE x == <<"traffic", e, traffic[e]>>
  <2>1. x \in AtTraffic(j)
    BY <1>1 DEF AtTraffic, Inside
  <2>2. Places(j) = {x} /\ x[1] # "unstarted"
    BY <1>1, <2>1, Found DEF JobsInv
  <2> HIDE DEF x
  <2>3. AtStart(j) = {}
    BY <1>1, <2>2, Only
  <2>4. j \notin unstarted
    BY <2>3 DEF AtStart
  <2>5. QED BY <1>1, <2>4 DEF Settled
<1>3. \/ wire' = Sent(data) /\ UNCHANGED waitingForArpReply
      \/ /\ wire' = Sent(request)
         /\ waitingForArpReply' = [waitingForArpReply EXCEPT ![h][a] = @ (+) js]
  BY DEF setTraffic, sendUDPPacket
<1>4. MacAwaited(h, a)' \/ wire' # Sent(request)
  <2>1. PICK g \in Hosts \ {h} : StaticIp[g] = a
    BY <1>1 DEF WellConfigured
  <2>2. ip[g] = a
    BY <1>1, <2>1, StaticAssumption DEF Settled
  <2> DEFINE m == [type |-> "ARP REQUEST", to |-> g, from |-> h, sourceIp |-> ip[h], ip |-> a]
  <2>3. m \in request
    BY <2>1, <2>2 DEF sendArpRequest
  <2>4. Asks(m, h, a)
    BY <2>2 DEF Asks
  <2> HIDE DEF m, request
  <2>5. PICK q \in request : Asks(q, h, a)
    BY <2>3, <2>4
  <2>6. Asks(q, h, a)'
    BY <1>1, <2>5 DEF Asks
  <2>7. wire' = Sent(request) => q \in DOMAIN wire'
    BY <1>1, SentAll
  <2>8. QED BY <1>1, <1>2, <2>6, <2>7 DEF MacAwaited
<1> HIDE DEF data, request, js
<1>5. DOMAIN wire \subseteq DOMAIN wire'
  BY <1>1, <1>3, SentAll
<1>6. /\ \A g \in Hosts, v \in Urls : NameAwaited(g, v) => NameAwaited(g, v)'
      /\ \A g \in Hosts, b \in Addresses : MacAwaited(g, b) => MacAwaited(g, b)'
  BY <1>1, <1>5, WaitedStays
<1>7. \A g \in Hosts, b \in Addresses : g # h \/ b # a => waitingForArpReply'[g][b] = waitingForArpReply[g][b]
  BY <1>3 DEF IInv, Typed
<1>8. \A g \in Hosts, b \in Addresses : waitingForArpReply'[g][b] # EmptyBag => MacAwaited(g, b)'
  BY <1>3, <1>4, <1>6, <1>7 DEF Awaited
<1>9. \A g \in Hosts, v \in Urls : waitingForDNSReply'[g][v] # EmptyBag => NameAwaited(g, v)'
  BY <1>1, <1>6 DEF Awaited
<1>10. QED BY <1>8, <1>9 DEF Awaited

\* What holds of a well configured LAN besides IInv and JobsInv.
WaitInv == Settled /\ Truthful /\ (~Lossy => Awaited)

LEMMA WaitStep == ASSUME WellConfigured, IInv, JobsInv, WaitInv, Next PROVE WaitInv'
<1>1. Settled' /\ Truthful'
  BY SettledStep, TruthfulStep DEF WaitInv
<1>2. ASSUME ~Lossy PROVE Awaited'
  <2>1. Awaited /\ Settled /\ Truthful
    BY <1>2 DEF WaitInv
  <2>2. ASSUME NEW h \in Hosts, sendDHCPDiscover(h) PROVE Awaited'
    <3> DEFINE ps == {[type |-> "DISCOVER", from |-> h]}
    <3>1. wire' = Sent(ps) /\ IsABag(wire) /\ UNCHANGED <<ip, waitingForDNSReply, waitingForArpReply>>
      BY <2>2 DEF sendDHCPDiscover, dnsVars, arpVars, IInv, Typed
    <3> HIDE DEF ps
    <3>2. DOMAIN wire \subseteq DOMAIN wire'
      BY <3>1, SentAll
    <3>3. QED BY <2>1, <3>1, <3>2, WaitedStays DEF Awaited
  <2>3. ASSUME NEW p \in DOMAIN wire, ReceivePacket(p) PROVE Awaited'
    <3>1. \A h \in Hosts, u \in Urls : waitingForDNSReply'[h][u] # EmptyBag => NameAwaited(h, u)'
      BY <1>2, <2>1, <2>3, NamesReceive
    <3>2. \A h \in Hosts, a \in Addresses : waitingForArpReply'[h][a] # EmptyBag => MacAwaited(h, a)'
      BY <1>2, <2>1, <2>3, MacsReceive
    <3>3. QED BY <3>1, <3>2 DEF Awaited
  <2>4. QED BY <2>1, <2>2, <2>3, StartAwaited, TrafficAwaited DEF Next
<1>3. QED BY <1>1, <1>2 DEF WaitInv

LEMMA WaitStart == ASSUME WellConfigured, Init PROVE WaitInv
<1>1. wire = EmptyBag /\ DOMAIN wire = {} /\ traffic = EmptyBag /\ DOMAIN traffic = {}
  BY EmptyIsBag DEF Init
<1>2. Settled
  BY DEF Init, Settled
<1>3. Truthful
  BY <1>1, EmptyIsBag DEF Init, Truthful
<1>4. Awaited
  BY DEF Init, Awaited
<1>5. QED BY <1>2, <1>3, <1>4 DEF WaitInv

\* In a configuration that starts traffic when its host has an address, and to
\* hosts with fixed ones, every list of waiting jobs has a question or an answer
\* in flight that will wake it, as long as links lose nothing: although an answer
\* serves all who wait, and a host that gets an address ignores what answers the
\* address it had.
THEOREM NobodyWaits == Spec /\ WellConfigured => []NobodyWaitsInVain
<1> SUFFICES ASSUME WellConfigured PROVE Spec => []NobodyWaitsInVain
  BY DEF WellConfigured
<1>1. Init => WaitInv /\ JobsInv
  BY WaitStart, JobsStart
<1>2. IInv /\ IInv' /\ JobsInv /\ WaitInv /\ [Next]_vars => JobsInv' /\ WaitInv'
  <2>1. ASSUME IInv, IInv', JobsInv, WaitInv, Next PROVE JobsInv' /\ WaitInv'
    BY <2>1, JobsStep, WaitStep
  <2>2. ASSUME JobsInv, WaitInv, UNCHANGED vars PROVE JobsInv' /\ WaitInv'
    <3>1. JobsInv'
      <4>1. \A j : Places(j)' = Places(j)
        BY <2>2 DEF vars, Places, DataOf, InFlight
      <4>2. QED BY <2>2, <4>1 DEF vars, JobsInv, DataIsTrue, Placed
    <3>2. Settled' /\ Truthful'
      BY <2>2 DEF WaitInv, Settled, Truthful, Target, vars
    <3>3. ~Lossy => Awaited'
      BY <2>2, WaitedStays DEF WaitInv, Awaited, vars
    <3>4. QED BY <3>1, <3>2, <3>3 DEF WaitInv
  <2>3. QED BY <2>1, <2>2
<1>3. WaitInv => NobodyWaitsInVain
  <2>1. \A h \in Hosts, u \in Urls : NameAwaited(h, u) =>
          \/ \E p \in InFlight("QUERY") : p.from = h /\ p.url = u
          \/ \E p \in InFlight("ANSWER") : p.to = h /\ p.url = u
    BY DEF NameAwaited, Queries, Names, InFlight
  <2>2. \A h \in Hosts, a \in Addresses : MacAwaited(h, a) =>
          \/ \E p \in InFlight("ARP REQUEST") :
               p.from = h /\ p.ip = a /\ p.sourceIp = ip[h] /\ ip[p.to] = a
          \/ \E p \in InFlight("ARP REPLY") : p.to = h /\ p.ip = a /\ p.destIp = ip[h]
    <3> SUFFICES ASSUME NEW h \in Hosts, NEW a \in Addresses, NEW p \in DOMAIN wire,
                        Asks(p, h, a) \/ Tells(p, h, a)
                 PROVE  \/ \E q \in InFlight("ARP REQUEST") :
                             q.from = h /\ q.ip = a /\ q.sourceIp = ip[h] /\ ip[q.to] = a
                        \/ \E q \in InFlight("ARP REPLY") : q.to = h /\ q.ip = a /\ q.destIp = ip[h]
      BY DEF MacAwaited
    <3>1. CASE Asks(p, h, a)
      BY <3>1 DEF Asks, InFlight
    <3>2. CASE Tells(p, h, a)
      BY <3>2 DEF Tells, InFlight
    <3>3. QED BY <3>1, <3>2
  <2>3. ASSUME WaitInv, ~Lossy, NEW h \in Hosts, NEW u \in Urls, waitingForDNSReply[h][u] # EmptyBag
        PROVE  \/ \E p \in InFlight("QUERY") : p.from = h /\ p.url = u
               \/ \E p \in InFlight("ANSWER") : p.to = h /\ p.url = u
    BY <2>1, <2>3 DEF WaitInv, Awaited
  <2>4. ASSUME WaitInv, ~Lossy, NEW h \in Hosts, NEW a \in Addresses, waitingForArpReply[h][a] # EmptyBag
        PROVE  \/ \E p \in InFlight("ARP REQUEST") :
                    p.from = h /\ p.ip = a /\ p.sourceIp = ip[h] /\ ip[p.to] = a
               \/ \E p \in InFlight("ARP REPLY") : p.to = h /\ p.ip = a /\ p.destIp = ip[h]
    <3>1. MacAwaited(h, a)
      BY <2>4 DEF WaitInv, Awaited
    <3>2. QED BY <2>2, <3>1
  <2>5. QED BY <2>3, <2>4, Zenon DEF NobodyWaitsInVain
<1>4. QED BY <1>1, <1>2, <1>3, Invariance, PTL DEF Spec
=============================================================================
