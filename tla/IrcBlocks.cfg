SPECIFICATION Spec
CONSTANTS
  Text = {"m1"}
  Size = 1
  Mss = {1}
  BufSize = 1
  Stream <- ThreeLines
  MaxSeg = 1
  UIP_MAXRTX = 1
PROPERTIES
  SendBlocks
CHECK_DEADLOCK FALSE
