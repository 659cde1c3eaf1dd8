---------------------------- MODULE MCLanTraffic ----------------------------
(***************************************************************************)
(* Instances of LanTraffic for TLC.  h3 always has an address of its own,  *)
(* the others may get theirs by DHCP.                                      *)
(***************************************************************************)
EXTENDS LanTraffic

ThreeHosts == "h1" :> "net" @@ "h3" :> "ip3" @@ "h4" :> "ip4"
FourHosts == "h1" :> "net" @@ "h2" :> "net" @@ "h3" :> "ip3" @@ "h4" :> "net"
PoolOfThree == {"ip3", "ipA", "ipB"}
PoolOfTwo == {"ip3", "ipA"}
JustThree == {"ip3"}

Site == "site" :> "ip3"

\* Two jobs for the same name, one for the address itself, and one of another host.
FourJobs == {"j1", "j2", "j3", "j4"}
ManyFromH1 == "j1" :> "h1" @@ "j2" :> "h1" @@ "j3" :> "h1" @@ "j4" :> "h4"
SiteTwice == "j1" :> "site" @@ "j2" :> "site" @@ "j3" :> "ip3" @@ "j4" :> "ip3"

\* A job by name, and one for an address that DHCP hands out.
TwoJobs == {"j1", "j2"}
FromBoth == "j1" :> "h1" @@ "j2" :> "h3"
NameAndLease == "j1" :> "site" @@ "j2" :> "ipA"
NoJob == {}
=============================================================================
