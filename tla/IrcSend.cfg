SPECIFICATION Spec
CONSTANTS
  Text = {"m1"}
  Size = 2
  Mss = {1, 2}
  BufSize = 1
  Stream <- FourLines
  MaxSeg = 2
  UIP_MAXRTX = 1
INVARIANTS
  Transcript
  ParsedInOrder
PROPERTIES
  SendMeansReceived
CHECK_DEADLOCK FALSE
