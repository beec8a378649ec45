SPECIFICATION FairSpec
CONSTANTS
  RingSize = 3
  Word = 65536
  FifoSize = 2
  TxTrigger = 1
  Lens <- AnyLength
  MaxTx = 5
  MaxRx = 4
INVARIANTS
  IInv
PROPERTIES
  WriteFits
  NoFalseEmpty
  TxIsStream
  RxIsStream
  TxDrains
  WriteReturns
  RxDelivers
CHECK_DEADLOCK FALSE
CONSTRAINT BoundedLine
