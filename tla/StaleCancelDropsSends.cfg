SPECIFICATION Spec
CONSTANTS
  p1 = p1
  p2 = p2
  Peer = {p1}
  NoPeer = NoPeer
  Conn = {1,2}
  NoConn = 0
  Group = {}
  NoGroup = 0
  OurType = "Node"
  HardCoded = {p1}
  MaxCacheSize = 2
  InitialCaches <- EmptyCache
  MaxPending = 1
  MaxStreams = 1
  MaxWrites = 1
  MaxKillers = 2
PROPERTY CancelKeepsLaterSends
CHECK_DEADLOCK FALSE
