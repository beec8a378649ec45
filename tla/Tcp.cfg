SPECIFICATION FairSpec
CONSTANTS
  Iss <- NearWrap
  SeqSpace = 16
  UIP_TCP_MSS = 2
  UIP_RTO = 0
  UIP_MAXRTX = 2
  UIP_MAXSYNRTX = 1
  UIP_TIME_WAIT_TIMEOUT = 2
  Rto <- AtOnce
  MaxBytes <- TwoUp
  MaxOffer = 3
  MaxNet = 2
INVARIANTS
  TypeOK
  DeliveredInOrder
  AckedMeansDelivered
  FinAfterData
PROPERTIES
  IsStream
  Resolves
  Terminates
CHECK_DEADLOCK FALSE
