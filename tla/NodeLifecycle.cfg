SPECIFICATION Spec
CONSTANTS
  p1 = p1
  p2 = p2
  Peer = {p1}
  NoPeer = NoPeer
  Conn = {1,2,3}
  NoConn = 0
  Group = {}
  NoGroup = 0
  OurType = "Node"
  HardCoded = {}
  MaxCacheSize = 2
  InitialCaches <- EmptyCache
  MaxPending = 0
  MaxStreams = 1
  MaxWrites = 0
  MaxKillers = 2
INVARIANTS
  LiveAttemptIsCurrent
  OpenIffOwned
  IncompleteHasTimer
  EventsMatchMap
PROPERTIES
  CachesOnlyContacted
CHECK_DEADLOCK FALSE
