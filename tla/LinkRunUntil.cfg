\* RunUntil may end between any two events and be called again.
SPECIFICATION Spec
CONSTANTS
  p1 = p1  p2 = p2  p3 = p3  p4 = p4
  Forever = Forever
  EndTimes <- RunUntilTimes
  MaxCalls = 2
  MaxTime = 4
  Packets = {p1, p2, p3}
  Dirs <- Directions
  TransferTime <- SlowThenFast
  Delay = 2
  LossPercent = 0
INVARIANTS OneWakeup QueueTimeIsBacklog
PROPERTIES DroppedTransferIsFatal ChannelSafety
\* The program stops once the main program has called the loop MaxCalls times.
CHECK_DEADLOCK FALSE
