---------------------------- MODULE MCForwarding ----------------------------
(***************************************************************************)
(* Instances of Forwarding for TLC.                                        *)
(***************************************************************************)
EXTENDS Forwarding

Inside == "192.168.0.0/16"
HomeNetwork == "192.168.1.0/24"
Between == "10.1.1.0/24"
Outside == "10.2.0.0/24"
Lan == "10.3.0.0/24"
Address(n, h) == [network |-> n, host |-> h]
Datagram(source, destIp, fragments) ==
  [source |-> source, destIp |-> destIp, fragments |-> fragments]

\* n1 - s1 - r1 (NAT) - r2 - n2, and at r2 a triangle of switches with n3
\* and n4, of which the link between s3 and s4 is blocked.
SiteLinks ==
  {{"n1", "s1"}, {"s1", "r1"}, {"r1", "r2"}, {"r2", "n2"}, {"r2", "s2"},
   {"s2", "s3"}, {"s2", "s4"}, {"s3", "s4"}, {"s3", "n3"}, {"s4", "n4"}}
SiteIp ==
  <<"n1">> :> Address(Inside, 1) @@ <<"n2">> :> Address(Outside, 1) @@ <<"n3">> :> Address(Lan, 1)
  @@ <<"n4">> :> Address(Lan, 2)
  @@ <<"r1", {"s1", "r1"}>> :> Address(Inside, 254) @@ <<"r1", {"r1", "r2"}>> :> Address(Between, 1)
  @@ <<"r2", {"r1", "r2"}>> :> Address(Between, 2) @@ <<"r2", {"r2", "n2"}>> :> Address(Outside, 254)
  @@ <<"r2", {"r2", "s2"}>> :> Address(Lan, 254)
SiteStates ==
  [s \in {"s1", "s2", "s3", "s4"} |->
     [l \in SiteLinks |-> IF l = {"s3", "s4"} THEN "blocking" ELSE "forwarding"]]
SiteRoutes ==
  "r1" :> (Inside :> {{"s1", "r1"}} @@ [n \in {Between, Outside, Lan} |-> {{"r1", "r2"}}])
  @@ "r2" :> ([n \in {Inside, Between} |-> {{"r1", "r2"}}]
              @@ Outside :> {{"r2", "n2"}} @@ Lan :> {{"r2", "s2"}})
NatAtR1 == "r1" :> Address(Between, 1) @@ "r2" :> NoIp

\* From n1 to n2, back, again, and, when all of that is over, to r2 itself and to n3.
First == Datagram("n1", Address(Outside, 1), 2)
Conversation ==
  First :> 0 @@ Datagram("n2", Address(Between, 1), 1) :> 2
  @@ Datagram("n1", Address(Outside, 1), 1) :> 1
  @@ Datagram("n2", Address(Outside, 254), 1) :> 3
  @@ Datagram("n1", Address(Lan, 1), 1) :> 1
Traffic == DOMAIN Conversation

\* n1 and n3 - s1 - r1 (NAT) - n2.
ChainLinks == {{"n1", "s1"}, {"n3", "s1"}, {"s1", "r1"}, {"r1", "n2"}}
ChainIp ==
  <<"n1">> :> Address(Inside, 1) @@ <<"n3">> :> Address(Inside, 3) @@ <<"n2">> :> Address(Outside, 1)
  @@ <<"r1", {"s1", "r1"}>> :> Address(Inside, 254) @@ <<"r1", {"r1", "n2"}>> :> Address(Outside, 254)
ChainStates == [s \in {"s1"} |-> [l \in ChainLinks |-> "forwarding"]]
ChainRoutes == "r1" :> (Outside :> {{"r1", "n2"}} @@ Inside :> {{"s1", "r1"}})
ChainNat == "r1" :> Address(Outside, 254)
JustFirst == {First}
AtOnce == First :> 0

\* n1 - s1 - r1 (NAT) - r2 - n2, and n3 - r1 with a smaller network.  r2 has a second
\* entry for n2's network that leads back to r1.  n2 sends to r1's outside address, whether
\* or not anything has come from there.
DetourLinks == {{"n1", "s1"}, {"s1", "r1"}, {"n3", "r1"}, {"r1", "r2"}, {"r2", "n2"}}
DetourIp ==
  <<"n3">> :> Address(HomeNetwork, 1) @@ <<"r1", {"n3", "r1"}>> :> Address(HomeNetwork, 254)
  @@ [i \in {j \in DOMAIN SiteIp : j[1] # "n4" /\ (Len(j) = 2 => j[2] \in DetourLinks)} |-> SiteIp[i]]
DetourStates == [s \in {"s1"} |-> [l \in DetourLinks |-> "forwarding"]]
DetourRoutes ==
  "r1" :> (Inside :> {{"s1", "r1"}} @@ HomeNetwork :> {{"n3", "r1"}}
           @@ [n \in {Between, Outside} |-> {{"r1", "r2"}}])
  @@ "r2" :> ([n \in {Inside, HomeNetwork, Between} |-> {{"r1", "r2"}}]
              @@ Outside :> {{"r2", "n2"}, {"r1", "r2"}})
Unasked ==
  Datagram("n1", Address(Outside, 1), 1) :> 0 @@ Datagram("n3", Address(Outside, 1), 1) :> 0
  @@ Datagram("n2", Address(Between, 1), 1) :> 0
DetourTraffic == DOMAIN Unasked

\* The site is a network that the theorems of ForwardingProof are about: the stations
\* on a switch's side of a link, the switches that only r2 sends data to, and the links
\* inside.
AtLan == <<"r2", {"r2", "s2"}>>
BeyondSwitch ==
  <<"s1", {"n1", "s1"}>> :> {<<"r1", {"s1", "r1"}>>} @@ <<"s1", {"s1", "r1"}>> :> {<<"n1">>}
  @@ <<"s2", {"r2", "s2"}>> :> {<<"n3">>, <<"n4">>} @@ <<"s2", {"s2", "s3"}>> :> {AtLan, <<"n4">>}
  @@ <<"s2", {"s2", "s4"}>> :> {AtLan, <<"n3">>}
  @@ <<"s3", {"s2", "s3"}>> :> {<<"n3">>} @@ <<"s3", {"s3", "n3"}>> :> {AtLan, <<"n4">>}
  @@ <<"s4", {"s2", "s4"}>> :> {<<"n4">>} @@ <<"s4", {"s4", "n4"}>> :> {AtLan, <<"n3">>}
SiteSide ==
  [x \in Hosts \cup Switches \cup Routers |-> [l \in SiteLinks |->
     IF x \notin Switches THEN {Interface(x, l)}
     ELSE IF <<x, l>> \in DOMAIN BeyondSwitch THEN BeyondSwitch[<<x, l>>] ELSE {}]]
SiteCalm == {"s2", "s3", "s4"}
SiteInner == {{"n1", "s1"}, {"s1", "r1"}}
ASSUME SiteAssumption ==
  Links = SiteLinks =>
    /\ LoopFree(SiteSide) /\ Uncopied(SiteSide, SiteCalm) /\ Divided(SiteInner)
    /\ Addressed(SiteSide) /\ OnlyAnswers
    /\ \A h \in Hosts \ InsideHosts : ~isInternalIp(ip[<<h>>])
=============================================================================
