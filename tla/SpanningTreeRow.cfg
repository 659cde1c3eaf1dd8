\* stp_test.go:12 with three switches in a row.
SPECIFICATION Spec
CONSTANTS
  Switches <- Three
  Links <- RowLinks
  Ends <- LinkEnds
  Cost <- EqualCost
  Order <- Program
  Early = 4
INVARIANTS SpanningTreeAtRest
\* Every link is made once and the exchange of BPDUs ends: nothing is left to do.
CHECK_DEADLOCK FALSE
