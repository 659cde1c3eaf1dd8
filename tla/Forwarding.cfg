SPECIFICATION FairSpec
CONSTANTS
  Hosts = {"n1", "n2", "n3", "n4"}
  Switches = {"s1", "s2", "s3", "s4"}
  Routers = {"r1", "r2"}
  Links <- SiteLinks
  ip <- SiteIp
  linkStates <- SiteStates
  routes <- SiteRoutes
  externalIP <- NatAtR1
  InsideHosts = {"n1"}
  Datagrams <- Traffic
  Awaited <- Conversation
  InitialTTL = 4
  MaxLosses = 1
  NoIp = NoIp
  NoMac = NoMac
INVARIANTS TranslationsAreRecorded SwitchesAgree ArpLeadsOn MacsOfThisSegment NobodyWaitsInVain NatHidesInside AssembledIfLastCameLast
PROPERTIES InternetService AllArrive
\* Traffic ends, and what has been lost is not sent again.
CHECK_DEADLOCK FALSE
