SPECIFICATION Spec
CONSTANTS
  RingSize = 3
  Word = 65536
  FifoSize = 2
  TxTrigger = 1
  Lens <- OneByte
  MaxTx = 6
  MaxRx = 0
INVARIANTS
  OnlyWrittenBytesSent
CHECK_DEADLOCK FALSE
CONSTRAINT BoundedLine
