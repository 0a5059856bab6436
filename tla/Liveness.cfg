SPECIFICATION FairSpec
CONSTANTS
  p1 = p1
  p2 = p2
  Peer = {p1,p2}
  NoPeer = NoPeer
  Conn = {1,2}
  NoConn = 0
  Group = {1}
  NoGroup = 0
  OurType = "Node"
  HardCoded = {}
  MaxCacheSize = 2
  InitialCaches <- BothCached
  MaxPending = 0
  MaxStreams = 0
  MaxWrites = 0
  MaxKillers = 1
PROPERTIES
  IncompleteResolves
  BootstrapResolves
CHECK_DEADLOCK FALSE
