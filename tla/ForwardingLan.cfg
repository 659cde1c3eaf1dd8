SPECIFICATION Spec
CONSTANTS
  Hosts = {"n1", "n2", "n3"}
  Switches = {"s1"}
  Routers = {"r1"}
  Links <- ChainLinks
  ip <- ChainIp
  linkStates <- ChainStates
  routes <- ChainRoutes
  externalIP <- ChainNat
  InsideHosts = {"n1", "n3"}
  Datagrams <- JustFirst
  Awaited <- AtOnce
  InitialTTL = 4
  MaxLosses = 0
  NoIp = NoIp
  NoMac = NoMac
INVARIANTS MacsOfThisSegment
CHECK_DEADLOCK FALSE
