SPECIFICATION FairSpec
CONSTANTS
  startRouterId = 1
  Databases <- AllNetworks
INVARIANTS LeastCosts AlwaysAWayBack
PROPERTIES Terminates
\* The call returns.
CHECK_DEADLOCK FALSE
