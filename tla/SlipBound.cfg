SPECIFICATION Spec
CONSTANTS
  Data <- Bytes
  Packets <- Fitting
  UIP_BUFSIZE = 3
  MaxFrames = 2
  MaxFaults = 2
INVARIANTS
  BytesReadIntoBuffer
CHECK_DEADLOCK FALSE
