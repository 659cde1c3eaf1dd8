\* A triangle whose direct link is slow; one router floods a second LSA.
SPECIFICATION FairSpec
CONSTANTS
  Routers <- Three
  Links <- TriangleLinks
  Ends <- TriangleEnds
  Cost <- SlowDirectLink
  SlowLinks = {}
  MaxHellos <- Once
  MaxLsas <- TwoFromFour
INVARIANTS FloodLeavesNoGap SameTopologyAtRest RoutesArriveAtRest
PROPERTIES FloodingEnds
\* The routers stop when they have sent all their Hellos and LSAs.
CHECK_DEADLOCK FALSE
