SPECIFICATION Spec
CONSTANTS
  p1 = p1
  p2 = p2
  Peer = {p1,p2}
  NoPeer = NoPeer
  Conn = {1,2}
  NoConn = 0
  Group = {1}
  NoGroup = 0
  OurType = "Client"
  HardCoded = {}
  MaxCacheSize = 2
  InitialCaches <- BothCached
  MaxPending = 0
  MaxStreams = 1
  MaxWrites = 0
  MaxKillers = 1
INVARIANTS
  ConnectNeverPanics
  BootstrapsOnce
  IndInv
CHECK_DEADLOCK FALSE
