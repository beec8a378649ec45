SPECIFICATION FairSpec
CONSTANTS
  Text = {"m1"}
  Size = 1
  Mss = {1}
  BufSize = 1
  Stream <- ThreeLines
  MaxSeg = 2
  UIP_MAXRTX = 1
PROPERTIES
  SendReturns
  SlotFrees
CHECK_DEADLOCK FALSE
