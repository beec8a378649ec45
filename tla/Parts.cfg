SPECIFICATION PartsSpec
CONSTANTS
  KeyboardKeys <- MCKeyboardKeys
  PageKey <- MCPageKey
  InputPage = 3
  input_buffer_size = 4
  UI_DISPLAY_CHARS = 1
  ScrollSpace = 2
  TickSpace = 10
  Interval = 3
  BlinkTicks = 2
  QuitTicks = 4
  MaxLag = 6
  UIP_CONNS = 2
  UIP_LISTENPORTS = 2
  FirstPort = 2
  PortLimit = 5
  ListenPorts = {3}
  Peers <- MCPeers
  UIP_TIME_WAIT_TIMEOUT = 2
  TimerSpace = 4
  Byte = 8
  VHL = 5
  UIP_PROTO_ICMP = 1
  UIP_PROTO_TCP = 2
  ICMP_ECHO = 2
  uip_hostaddr = 10
  Packets <- MCPackets
  Damage <- MCDamage
  Padding <- MCPadding
  UIP_RTO = 3
  UIP_MAXRTX = 2
  UIP_MAXSYNRTX = 1
  MaxRtt = 31
  FWCACHE_SIZE = 2
  FW_TIME = 2
  UIP_TTL = 3
  FwHost <- MCFwHost
  FwBroadcast <- MCFwBroadcast
  FwPackets <- MCFwPackets
  NetOf <- MCNetOf
  MaxSeen = 3
  UIP_ARPTAB_SIZE = 2
  UIP_ARP_MAXAGE = 2
  AgeSpace = 4
  ArpRouter = 2
  Neighbors = {2, 3, 4}
  HalfZero = {4}
  FarHosts = {7}
  ArpBroadcast = 9
  EthAddr = {1, 2}
INVARIANTS
  TimerOnTime
  NoTwoAlike
  EchoIsSound
  RtoAboveRtt
  SentToLatest
PROPERTIES
  IsLineEditor
  WindowFollows
  PollsServed
  QuitEnds
  ReusesOnlyDead
  ForwardedOnce
CHECK_DEADLOCK FALSE
