\* A full mesh with equal costs; two of its links are made late, and a host is
\* linked last.
SPECIFICATION FairSpec
CONSTANTS
  Switches <- Three
  Links <- MeshLinks
  Ends <- LinkEnds
  Cost <- EqualCost
  Order <- Program
  Early = 1
INVARIANTS RootAgreementAtRest ShortestCostAtRest PortsDecidedAtRest SpanningTreeAtRest
PROPERTIES Converges
\* Every link is made once and the exchange of BPDUs ends: nothing is left to do.
CHECK_DEADLOCK FALSE
