SPECIFICATION Spec
CONSTANTS
  RingSize = 3
  Word = 65536
  FifoSize = 2
  TxTrigger = 1
  Lens <- OneByte
  MaxTx = 5
  MaxRx = 0
PROPERTIES
  TxDoneMeansSent
CHECK_DEADLOCK FALSE
CONSTRAINT BoundedLine
