SPECIFICATION Spec
CONSTANTS
  Iss <- NearWrap
  SeqSpace = 16
  UIP_TCP_MSS = 1
  UIP_RTO = 1
  UIP_MAXRTX = 3
  UIP_MAXSYNRTX = 3
  UIP_TIME_WAIT_TIMEOUT = 2
  Rto <- OneTick
  MaxBytes <- OneEach
  MaxOffer = 1
  MaxNet = 2
PROPERTIES
  RequestPersists
CHECK_DEADLOCK FALSE
