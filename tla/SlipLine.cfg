SPECIFICATION FairSpec
CONSTANTS
  Data <- Bytes
  Packets <- Fitting
  UIP_BUFSIZE = 3
  MaxFrames = 2
  MaxFaults = 2
INVARIANTS
  PacketsInOrder
PROPERTIES
  IntactFrameArrives
  EveryPacketArrives
CHECK_DEADLOCK FALSE
