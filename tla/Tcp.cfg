SPECIFICATION FairSpec
CONSTANTS
  Hosts = {"a", "b"}
  Ports = {1, 2, 3, 4, 5}
  Flows <- ThreeFlows
  From <- Sources
  To <- Destinations
  SrcPort <- SrcPorts
  DstPort <- DstPorts
  Len <- Lengths
  SegmentSize = 2
  Isns = {1, 4}
  MaxLost = 1
INVARIANTS ConnectionIsThere AcknowledgesExactly AllBytesAtRest
PROPERTIES AllAcknowledged
\* The program stops when all flows are done.
CHECK_DEADLOCK FALSE
