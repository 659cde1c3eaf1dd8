SPECIFICATION FairSpec
CONSTANTS
  Hosts = {"h1", "h3", "h4"}
  StaticIp <- ThreeHosts
  Pool <- PoolOfTwo
  Reserved <- JustThree
  DnsIp = "dns"
  DefaultDnsIp = "otherDns"
  Records <- Site
  Jobs <- FourJobs
  JobHost <- ManyFromH1
  JobUrl <- SiteTwice
  EarlyJobs <- NoJob
  Lossy = FALSE
  Unset = "net"
INVARIANTS JobInOnePlace NobodyWaitsInVain
PROPERTIES AllArrive
CHECK_DEADLOCK FALSE
