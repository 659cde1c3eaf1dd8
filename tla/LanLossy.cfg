\* Three hosts ask DHCP for two addresses, jobs start at any time, links lose.
SPECIFICATION Spec
CONSTANTS
  Hosts = {"h1", "h2", "h3", "h4"}
  StaticIp <- FourHosts
  Pool <- PoolOfThree
  Reserved <- JustThree
  DnsIp = "dns"
  DefaultDnsIp = "dns"
  Records <- Site
  Jobs <- TwoJobs
  JobHost <- FromBoth
  JobUrl <- NameAndLease
  EarlyJobs <- TwoJobs
  Lossy = TRUE
  Unset = "net"
INVARIANTS UniqueAddresses ArpTableIsTrue
\* What has been lost is not sent again, and an exhausted pool is a panic.
CHECK_DEADLOCK FALSE
