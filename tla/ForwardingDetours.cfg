SPECIFICATION FairSpec
CONSTANTS
  Hosts = {"n1", "n2", "n3"}
  Switches = {"s1"}
  Routers = {"r1", "r2"}
  Links <- DetourLinks
  ip <- DetourIp
  linkStates <- DetourStates
  routes <- DetourRoutes
  externalIP <- NatAtR1
  InsideHosts = {"n1", "n3"}
  Datagrams <- DetourTraffic
  Awaited <- Unasked
  InitialTTL = 5
  MaxLosses = 0
  NoIp = NoIp
  NoMac = NoMac
 
PROPERTIES InternetService ComesToRest
\* Traffic ends.
CHECK_DEADLOCK FALSE
