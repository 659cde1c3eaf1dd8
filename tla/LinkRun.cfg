\* Run() takes every event; every packet must arrive.  Four packets are enough for a
\* transfer to be scheduled into the past.
SPECIFICATION FairSpec
CONSTANTS
  p1 = p1  p2 = p2  p3 = p3  p4 = p4
  Forever = Forever
  EndTimes <- RunForever
  MaxCalls = 1
  MaxTime = 3
  Packets = {p1, p2, p3, p4}
  Dirs <- OneDirection
  TransferTime <- SlowThenThreeFast
  Delay = 1
  LossPercent = 28
PROPERTIES   ChannelContract
\* The program stops once the main program has called the loop MaxCalls times.
CHECK_DEADLOCK FALSE
